------------------------------ MODULE Settlement ------------------------------
(***************************************************************************)
(* Pay containers and the monthly settlements of unloading wages           *)
(* (apps/api/src/unloading-wage).  A pay container, here a unit, is what   *)
(* is paid once: an ocean container, or the containers of one transfer.    *)
(*                                                                         *)
(* A request (t) reads its unit, or the units of a month, with no lock and *)
(* mostly before its transaction; what it has read is its request record.  *)
(* Its transaction is one step.  It may also be rolled back: a constraint, *)
(* a refused pallet synchronisation, a lost process.                       *)
(*                                                                         *)
(* Money is abstract: a rate is a value, and of amounts or percentages     *)
(* given by hand only the rates they add up to are kept.  Left out: the    *)
(* worker directory, classification but for what it decides (the number of *)
(* containers and the number of a new unit), the status of the containers  *)
(* and their pallets (ContainerInventory), and feedback rows.              *)
(***************************************************************************)
EXTENDS Integers

CONSTANTS
    Tx,               \* concurrent requests (a bound on concurrency)
    Containers,
    Transfers,        \* the random ids new transfer units may get
    Teams,            \* the unloaders who share a rate
    Rates,            \* the rates of operational settings
    Months,           \* months of completion
    NoUnit, NoTeam, NoMonth,
    MaxSettlements,   \* bound: settlements that are ever generated
    MaxEdits,         \* bound: requests other than generations
    GenerationAlone   \* TRUE: a month is settled while nobody edits or settles

\* PC-OCEAN-<container number> names the unit of an ocean container
Units == Containers \cup Transfers

ASSUME SettlementAssumption ==
    /\ Containers \cap Transfers = {}
    /\ NoUnit \notin Units /\ NoTeam \notin Teams /\ NoMonth \notin Months
    /\ MaxSettlements \in Nat /\ MaxEdits \in Nat
    /\ GenerationAlone \in BOOLEAN

VARIABLES
    unit,        \* pay_containers
    link,        \* pay_container_containers: the unit of a container
    settlement,  \* unloading_wage_settlements with their lines
    request,     \* what a request under way has read
    edits        \* requests other than generations so far

data == <<unit, link, settlement>>
vars == <<data, request, edits>>

UnitStatus == {"NONE", "DRAFT", "COMPLETED", "SETTLED", "NEEDS_REVIEW"}
UnitType ==
    [status : UnitStatus,
     rate   : Rates,
     team   : Teams \cup {NoTeam},
     equal  : BOOLEAN,        \* allocationMethod is EQUAL_SPLIT
     fits   : SUBSET Rates,   \* the rates its manual allocation adds up to
     month  : Months \cup {NoMonth}]

\* what a settlement copies of a unit: its lines, one for each unloader
LineType ==
    [unit       : Units,
     containers : SUBSET Containers,
     rate       : Rates,
     team       : Teams \cup {NoTeam},
     month      : Months \cup {NoMonth}]

Settlements == 1..MaxSettlements
SettlementType ==
    [status : {"NONE", "GENERATED", "NEEDS_REVIEW", "SUPERSEDED"},
     month  : Months \cup {NoMonth},
     lines  : SUBSET LineType,
     filed  : BOOLEAN]

Idle == [kind |-> "idle"]
RequestType ==
    {Idle}
    \cup [kind : {"save"}, unit : Units \cup {NoUnit}, status : UnitStatus,
          rate : Rates, ocean : BOOLEAN, containers : SUBSET Containers,
          stale : SUBSET Units]
    \cup [kind : {"complete"}, unit : Units, status : UnitStatus, month : Months]
    \cup [kind : {"unloaders"}, unit : Units, status : UnitStatus, team : Teams]
    \cup [kind : {"completeUnit"}, unit : Units, month : Months, team : Teams,
          equal : BOOLEAN, fits : SUBSET Rates]
    \cup [kind : {"generate"}, month : Months, lines : SUBSET LineType,
          errors : BOOLEAN]
    \cup [kind : {"file"}, settlement : Settlements]

TypeOK ==
    /\ unit \in [Units -> UnitType]
    /\ link \in [Containers -> Units \cup {NoUnit}]
    /\ settlement \in [Settlements -> SettlementType]
    /\ request \in [Tx -> RequestType]
    /\ edits \in 0..MaxEdits

Unset(rate) == [status |-> "NONE", rate |-> rate, team |-> NoTeam,
                equal |-> TRUE, fits |-> {}, month |-> NoMonth]

Init ==
    /\ \E rate \in Rates : unit = [u \in Units |-> Unset(rate)]
    /\ link = [c \in Containers |-> NoUnit]
    /\ settlement = [s \in Settlements |->
           [status |-> "NONE", month |-> NoMonth, lines |-> {}, filed |-> FALSE]]
    /\ request = [t \in Tx |-> Idle]
    /\ edits = 0

-----------------------------------------------------------------------------
ContainersOf(u) == {c \in Containers : link[c] = u}

LineOf(u) ==
    [unit |-> u, containers |-> ContainersOf(u), rate |-> unit[u].rate,
     team |-> unit[u].team, month |-> unit[u].month]

\* MarkRelated marks the GENERATED settlements that have a line of a unit.
MarkRelated(us) ==
    settlement' = [s \in Settlements |->
        IF /\ settlement[s].status = "GENERATED"
           /\ \E line \in settlement[s].lines : line.unit \in us
        THEN [settlement[s] EXCEPT !.status = "NEEDS_REVIEW"]
        ELSE settlement[s]]

\* Mutant: the unit gets the status its settlement has lost.
ReviewedNone(status, otherwise) ==
    IF status = "SETTLED" THEN "GENERATED" ELSE otherwise

\* an edit of a unit that was settled sends it to review
Reviewed(status, otherwise) ==
    IF status = "SETTLED" THEN "NEEDS_REVIEW" ELSE otherwise

Generating == \E t \in Tx : request[t].kind = "generate"

\* an edit begins with what it has read
BeginEdit(t, r) ==
    /\ request[t] = Idle
    /\ edits < MaxEdits
    /\ GenerationAlone => ~Generating
    /\ request' = [request EXCEPT ![t] = r]
    /\ edits' = edits + 1
    /\ UNCHANGED data

End(t) == request' = [request EXCEPT ![t] = Idle]

-----------------------------------------------------------------------------
(* createPayContainer: a constraint allows a container one unit and an     *)
(* ocean number once; it reads nothing that others write.                  *)

NewUnits(ocean, cs) ==
    IF ocean THEN {u \in cs : unit[u].status = "NONE"}
             ELSE {u \in Transfers : unit[u].status = "NONE"}

\* an ocean unit has one container
CountRule(ocean, cs) == IF ocean THEN \E c \in cs : cs = {c} ELSE cs # {}

CreatePayContainer ==
    /\ edits < MaxEdits
    /\ GenerationAlone => ~Generating
    /\ \E cs \in SUBSET Containers, ocean \in BOOLEAN, rate \in Rates :
         /\ CountRule(ocean, cs)
         /\ \A c \in cs : link[c] = NoUnit
         /\ \E u \in NewUnits(ocean, cs) :
              /\ unit' = [unit EXCEPT ![u] = [Unset(rate) EXCEPT !.status = "DRAFT"]]
              /\ link' = [c \in Containers |-> IF c \in cs THEN u ELSE link[c]]
    /\ edits' = edits + 1
    /\ UNCHANGED <<settlement, request>>

-----------------------------------------------------------------------------
(* saveContainerUnloadingWage, updateContainerUnloadingWageAssociations:   *)
(* syncContainerDetailPayUnit takes the unit of the primary container, or  *)
(* else of another, or makes one, and links exactly the given containers.  *)

ReadSave(t) ==
    \E cs \in SUBSET Containers, ocean \in BOOLEAN, rate \in Rates :
        /\ CountRule(ocean, cs)
        /\ \E primary \in cs :
             LET linked == {link[c] : c \in cs} \ {NoUnit}
                 targets == IF link[primary] # NoUnit THEN {link[primary]}
                            ELSE IF linked # {} THEN linked ELSE {NoUnit}
             IN  \E u \in targets :
                   BeginEdit(t, [kind |-> "save", unit |-> u,
                       status |-> IF u = NoUnit THEN "DRAFT"
                                  ELSE Reviewed(unit[u].status, unit[u].status),
                       rate |-> rate, ocean |-> ocean, containers |-> cs,
                       stale |-> linked])

WriteSave(t) ==
    LET r == request[t] IN
    /\ r.kind = "save"
    /\ \E u \in IF r.unit = NoUnit THEN NewUnits(r.ocean, r.containers) ELSE {r.unit} :
         /\ unit' = [unit EXCEPT ![u] =
                IF r.unit = NoUnit
                THEN [Unset(r.rate) EXCEPT !.status = r.status]
                ELSE [@ EXCEPT !.rate = r.rate, !.status = r.status]]
         /\ link' = [c \in Containers |-> CASE c \in r.containers -> u
                                            [] link[c] = u        -> NoUnit
                                            [] OTHER              -> link[c]]
    /\ MarkRelated(r.stale)
    /\ End(t)
    /\ UNCHANGED edits

-----------------------------------------------------------------------------
(* completeContainerUnloading and updateContainerUnloaders find the unit   *)
(* by a container.                                                         *)

ReadComplete(t) ==
    \E c \in Containers, m \in Months :
        /\ link[c] # NoUnit
        /\ BeginEdit(t, [kind |-> "complete", unit |-> link[c], month |-> m,
                         status |-> Reviewed(unit[link[c]].status, "COMPLETED")])

WriteComplete(t) ==
    LET r == request[t] IN
    /\ r.kind = "complete"
    /\ MarkRelated({r.unit})
    /\ unit' = [unit EXCEPT ![r.unit].month = r.month, ![r.unit].status = r.status]
    /\ End(t)
    /\ UNCHANGED <<link, edits>>

ReadUnloaders(t) ==
    \E c \in Containers, team \in Teams :
        /\ link[c] # NoUnit
        /\ BeginEdit(t, [kind |-> "unloaders", unit |-> link[c], team |-> team,
                         status |-> unit[link[c]].status])

\* the new assignments have no amounts; the status is written if it changes
WriteUnloaders(t) ==
    LET r == request[t] IN
    /\ r.kind = "unloaders"
    /\ MarkRelated({r.unit})
    /\ unit' = [unit EXCEPT ![r.unit].team = r.team, ![r.unit].fits = {},
                            ![r.unit].status = Reviewed(r.status, @)]
    /\ End(t)
    /\ UNCHANGED <<link, edits>>

-----------------------------------------------------------------------------
(* completePayContainer finds the unit by its id, and marks nothing.       *)

\* Mutant: a settled unit may be completed again.
MayCompleteAny(u) == unit[u].status # "NONE"

MayComplete(u) == unit[u].status \notin {"NONE", "SETTLED"}

\* amounts must add up to the rate, percentages are not checked
ReadCompleteUnit(t) ==
    \E u \in Units, m \in Months, team \in Teams, equal \in BOOLEAN :
        /\ MayComplete(u)
        /\ \E fits \in IF equal THEN {{}} ELSE {{unit[u].rate}, {}, Rates} :
             BeginEdit(t, [kind |-> "completeUnit", unit |-> u, month |-> m,
                           team |-> team, equal |-> equal, fits |-> fits])

WriteCompleteUnit(t) ==
    LET r == request[t] IN
    /\ r.kind = "completeUnit"
    /\ unit' = [unit EXCEPT ![r.unit] =
           [@ EXCEPT !.status = "COMPLETED", !.month = r.month, !.team = r.team,
                     !.equal = r.equal, !.fits = r.fits]]
    /\ End(t)
    /\ UNCHANGED <<link, settlement, edits>>

-----------------------------------------------------------------------------
(* generateSettlement: reads the month, then writes the settlement, then   *)
(* its files.                                                              *)

\* Mutant: a month is settled again without the units it was settled with.
DueOnce(m) == {u \in Units : unit[u].month = m /\ unit[u].status = "COMPLETED"}

Due(m) == {u \in Units : unit[u].month = m /\ unit[u].status \in {"COMPLETED", "SETTLED"}}

\* settlementInputs: a unit with unloaders whose allocation adds up
Payable(u) ==
    /\ unit[u].team # NoTeam
    /\ unit[u].equal \/ unit[u].rate \in unit[u].fits

ReadGenerate(t) ==
    \E m \in Months :
        LET payable == {u \in Due(m) : Payable(u)} IN
        /\ request[t] = Idle
        /\ GenerationAlone => \A other \in Tx : request[other].kind \in {"idle", "file"}
        /\ payable # {}
        /\ request' = [request EXCEPT ![t] =
               [kind |-> "generate", month |-> m,
                lines |-> {LineOf(u) : u \in payable},
                errors |-> payable # Due(m)]]
        /\ UNCHANGED <<data, edits>>

\* Mutant: the settlement the month had stays.
SupersededNone(m) == settlement

\* the settlement the month had is superseded
Superseded(m) ==
    [s \in Settlements |->
        IF settlement[s].month = m /\ settlement[s].status = "GENERATED"
        THEN [settlement[s] EXCEPT !.status = "SUPERSEDED"]
        ELSE settlement[s]]

WriteGenerate(t) ==
    LET r == request[t] IN
    /\ r.kind = "generate"
    /\ \E s \in Settlements :
         /\ settlement[s].status = "NONE"
         /\ \A earlier \in 1..(s - 1) : settlement[earlier].status # "NONE"
         /\ settlement' = [Superseded(r.month) EXCEPT ![s] =
                [status |-> IF r.errors THEN "NEEDS_REVIEW" ELSE "GENERATED",
                 month |-> r.month, lines |-> r.lines, filed |-> FALSE]]
         /\ request' = [request EXCEPT ![t] = [kind |-> "file", settlement |-> s]]
    /\ unit' = [u \in Units |-> IF \E line \in r.lines : line.unit = u
                                THEN [unit[u] EXCEPT !.status = "SETTLED"]
                                ELSE unit[u]]
    /\ UNCHANGED <<link, edits>>

WriteFiles(t) ==
    LET r == request[t] IN
    /\ r.kind = "file"
    /\ settlement' = [settlement EXCEPT ![r.settlement].filed = TRUE]
    /\ End(t)
    /\ UNCHANGED <<unit, link, edits>>

\* The transaction is rolled back, or the process is lost before it; a
\* settlement whose files fail stays without them.
Rollback(t) ==
    /\ request[t] # Idle
    /\ End(t)
    /\ UNCHANGED <<data, edits>>

-----------------------------------------------------------------------------
Next ==
    \/ CreatePayContainer
    \/ \E t \in Tx :
         \/ ReadSave(t) \/ WriteSave(t)
         \/ ReadComplete(t) \/ WriteComplete(t)
         \/ ReadUnloaders(t) \/ WriteUnloaders(t)
         \/ ReadCompleteUnit(t) \/ WriteCompleteUnit(t)
         \/ ReadGenerate(t) \/ WriteGenerate(t) \/ WriteFiles(t)
         \/ Rollback(t)

Spec == Init /\ [][Next]_vars

-----------------------------------------------------------------------------
\* Properties

\* A settlement that is in force shows what the units it pays are now: who
\* unloaded which containers, in which month and at which rate.  Whatever
\* changes one of these, however its unit was found and whatever other edits
\* overlap, has the settlement reviewed.
GeneratedIsCurrent ==
    \A s \in Settlements : settlement[s].status = "GENERATED" =>
        \A line \in settlement[s].lines :
            /\ line = LineOf(line.unit)
            /\ line.month = settlement[s].month

\* A settled unit is paid: a settlement of its month that was not superseded
\* has a line of it, also after the month was settled again.
SettledIsPaid ==
    \A u \in Units : unit[u].status = "SETTLED" =>
        \E s \in Settlements :
            /\ settlement[s].status \in {"GENERATED", "NEEDS_REVIEW"}
            /\ settlement[s].month = unit[u].month
            /\ \E line \in settlement[s].lines : line.unit = u

\* No container is in two lines of the settlements in force, of one month or
\* of two, and of one unit or of two.
NeverPaidTwice ==
    \A s1, s2 \in {s \in Settlements : settlement[s].status = "GENERATED"} :
        \A l1 \in settlement[s1].lines, l2 \in settlement[s2].lines :
            l1.containers \cap l2.containers # {} => s1 = s2 /\ l1 = l2

\* What is paid is the unloading of containers: "The associated set counts as
\* one paid transfer unit for settlement", and not a unit whose containers
\* have gone to another.
PaidForContainers ==
    \A s \in Settlements : settlement[s].status = "GENERATED" =>
        \A line \in settlement[s].lines : line.containers # {}

=============================================================================
