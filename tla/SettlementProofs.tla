--------------------------- MODULE SettlementProofs ---------------------------
(***************************************************************************)
(* What holds of Settlement for every number of requests, containers,      *)
(* units, months and settlements, as long as a month is settled while no   *)
(* edit and no other settlement is under way (GenerationAlone); and, after *)
(* that, of the shares of UnloadingShares for every team, rate and month,  *)
(* and of the hours of WorkHours for all days.                             *)
(***************************************************************************)
EXTENDS Settlement, UnloadingShares, WorkHours, FiniteSetTheorems, TLAPS

\* A settlement in force has a line of the unit.
InForce(u) == \E s \in Settlements :
    settlement[s].status = "GENERATED" /\ \E line \in settlement[s].lines : line.unit = u

\* A month has one settlement in force.
OneInForce == \A s1, s2 \in Settlements :
    /\ settlement[s1].status = "GENERATED" /\ settlement[s2].status = "GENERATED"
    /\ settlement[s1].month = settlement[s2].month
    => s1 = s2

\* The units of a settlement in force are settled.
InForceSettled == \A u \in Units : InForce(u) => unit[u].status = "SETTLED"

\* A settled unit can be paid again when its month is settled anew.
SettledPayable == \A u \in Units : unit[u].status = "SETTLED" => Payable(u)

\* What a save will change is either marked by it or in no settlement in force.
SavesKnow == \A t \in Tx : request[t].kind = "save" =>
    /\ request[t].unit = NoUnit \/ request[t].unit \in request[t].stale
    /\ request[t].status # "SETTLED"
    /\ \A c \in request[t].containers :
          link[c] \in request[t].stale \cup {NoUnit} \/ ~InForce(link[c])

CompletesKnow == \A t \in Tx :
    request[t].kind = "complete" => request[t].status # "SETTLED"

\* A unit is not settled between the two steps of an edit.
UnloadersKnow == \A t \in Tx :
    request[t].kind = "unloaders" /\ request[t].status # "SETTLED" =>
        unit[request[t].unit].status # "SETTLED"

UnitsKnow == \A t \in Tx :
    request[t].kind = "completeUnit" => ~InForce(request[t].unit)

\* The lines a generation has made are current when it writes them, and have
\* every unit that was settled in the month.
GenerateKnows == \A t \in Tx : request[t].kind = "generate" =>
    /\ \A other \in Tx : other # t => request[other].kind \in {"idle", "file"}
    /\ \A line \in request[t].lines :
          /\ line.unit \in Units /\ line = LineOf(line.unit)
          /\ line.month = request[t].month /\ Payable(line.unit)
    /\ \A u \in Units : unit[u].status = "SETTLED" /\ unit[u].month = request[t].month =>
          \E line \in request[t].lines : line.unit = u

RequestsKnow == SavesKnow /\ CompletesKnow /\ UnloadersKnow /\ UnitsKnow /\ GenerateKnows
DataAgree    == GeneratedIsCurrent /\ OneInForce /\ InForceSettled /\ SettledIsPaid
                /\ SettledPayable
IInv         == TypeOK /\ DataAgree /\ RequestsKnow

-----------------------------------------------------------------------------
\* Types

\* The fields of a request, by its kind.
LEMMA RequestFields ==
    ASSUME TypeOK, NEW t \in Tx
    PROVE  /\ request[t].kind = "save" =>
                 /\ request[t].unit \in Units \cup {NoUnit}
                 /\ request[t].status \in UnitStatus
                 /\ request[t].rate \in Rates
                 /\ request[t].containers \subseteq Containers
                 /\ request[t].stale \subseteq Units
           /\ request[t].kind = "complete" =>
                 /\ request[t].unit \in Units
                 /\ request[t].status \in UnitStatus
                 /\ request[t].month \in Months
           /\ request[t].kind = "unloaders" =>
                 /\ request[t].unit \in Units
                 /\ request[t].status \in UnitStatus
                 /\ request[t].team \in Teams
           /\ request[t].kind = "generate" =>
                 /\ request[t].month \in Months
                 /\ request[t].lines \subseteq LineType
           /\ request[t].kind = "file" => request[t].settlement \in Settlements
  BY DEF TypeOK, RequestType, Idle

LEMMA CompleteUnitFields ==
    ASSUME TypeOK, NEW t \in Tx, request[t].kind = "completeUnit"
    PROVE  /\ request[t].unit \in Units
           /\ request[t].month \in Months
           /\ request[t].team \in Teams
           /\ request[t].equal \in BOOLEAN
           /\ request[t].fits \subseteq Rates
<1>1. request[t] \in [kind : {"completeUnit"}, unit : Units, month : Months, team : Teams,
                      equal : BOOLEAN, fits : SUBSET Rates]
  BY DEF TypeOK, RequestType, Idle
<1> QED
  BY <1>1

\* Marking leaves months and lines, and takes the units out of force.
LEMMA Marked ==
    ASSUME TypeOK, NEW us, MarkRelated(us)
    PROVE  /\ settlement' \in [Settlements -> SettlementType]
           /\ \A s \in Settlements :
                 /\ settlement'[s].month = settlement[s].month
                 /\ settlement'[s].lines = settlement[s].lines
                 /\ \/ settlement'[s].status = settlement[s].status
                    \/ settlement[s].status = "GENERATED" /\ settlement'[s].status = "NEEDS_REVIEW"
           /\ \A u \in us : ~InForce(u)'
<1> DEFINE new(s) == IF /\ settlement[s].status = "GENERATED"
                        /\ \E line \in settlement[s].lines : line.unit \in us
                     THEN [settlement[s] EXCEPT !.status = "NEEDS_REVIEW"]
                     ELSE settlement[s]
<1>1. settlement' = [s \in Settlements |-> new(s)]
  BY DEF MarkRelated
<1>2. ASSUME NEW s \in Settlements
      PROVE  /\ new(s) \in SettlementType
             /\ new(s).month = settlement[s].month
             /\ new(s).lines = settlement[s].lines
             /\ new(s).status = IF /\ settlement[s].status = "GENERATED"
                                   /\ \E line \in settlement[s].lines : line.unit \in us
                                THEN "NEEDS_REVIEW" ELSE settlement[s].status
  <2>1. settlement[s] \in SettlementType
    BY DEF TypeOK
  <2>2. /\ [settlement[s] EXCEPT !.status = "NEEDS_REVIEW"] \in SettlementType
        /\ [settlement[s] EXCEPT !.status = "NEEDS_REVIEW"].month = settlement[s].month
        /\ [settlement[s] EXCEPT !.status = "NEEDS_REVIEW"].lines = settlement[s].lines
        /\ [settlement[s] EXCEPT !.status = "NEEDS_REVIEW"].status = "NEEDS_REVIEW"
    BY <2>1 DEF SettlementType
  <2> QED
    BY <2>1, <2>2
<1> HIDE DEF new
<1>3. \A s \in Settlements : settlement'[s] = new(s)
  BY <1>1
<1>4. settlement' \in [Settlements -> SettlementType]
  BY <1>1, <1>2
<1>5. \A u \in us : ~InForce(u)'
  BY <1>2, <1>3 DEF InForce
<1> QED
  BY <1>2, <1>3, <1>4, <1>5

-----------------------------------------------------------------------------
\* Writing an edit

\* An edit changes a unit, or which containers it has, only if no settlement in
\* force pays it afterwards, and settles nothing.
EditWrites ==
    /\ TypeOK'
    /\ ~Generating
    /\ \A u \in Units : InForce(u)' => LineOf(u)' = LineOf(u) /\ unit'[u] = unit[u]
    /\ \A u \in Units : unit'[u] = unit[u] \/ unit'[u].status # "SETTLED"
    /\ \A s \in Settlements :
          /\ settlement'[s].month = settlement[s].month
          /\ settlement'[s].lines = settlement[s].lines
          /\ \/ settlement'[s].status = settlement[s].status
             \/ settlement[s].status = "GENERATED" /\ settlement'[s].status = "NEEDS_REVIEW"
    /\ \A c \in Containers : link'[c] = link[c] \/ link'[c] = NoUnit \/ ~InForce(link[c])'
    /\ \A t \in Tx : request'[t] \in {request[t], Idle}

LEMMA LinesAreOfUnits ==
    ASSUME TypeOK, NEW s \in Settlements, NEW line \in settlement[s].lines
    PROVE  line.unit \in Units
<1>1. settlement[s].lines \subseteq LineType
  BY DEF TypeOK, SettlementType
<1> QED
  BY <1>1 DEF LineType

\* It keeps settlements and units in agreement,
LEMMA EditKeepsData ==
    ASSUME IInv, EditWrites
    PROVE  DataAgree'
<1>1. \A s \in Settlements : settlement'[s].status = "GENERATED" =>
          settlement[s].status = "GENERATED"
  BY DEF EditWrites
<1>2. \A u \in Units : InForce(u)' => InForce(u)
  BY <1>1 DEF EditWrites, InForce
<1>3. GeneratedIsCurrent'
  <2> SUFFICES ASSUME NEW s \in Settlements, settlement'[s].status = "GENERATED",
                      NEW line \in settlement'[s].lines
               PROVE  line = LineOf(line.unit)' /\ line.month = settlement'[s].month
    BY DEF GeneratedIsCurrent, LineOf, ContainersOf
  <2>1. settlement[s].status = "GENERATED" /\ line \in settlement[s].lines
    BY <1>1 DEF EditWrites
  <2>2. line.unit \in Units /\ InForce(line.unit)'
    BY <2>1, LinesAreOfUnits DEF IInv, InForce
  <2>3. LineOf(line.unit)' = LineOf(line.unit)
    BY <2>2 DEF EditWrites
  <2>4. line = LineOf(line.unit) /\ line.month = settlement[s].month
    BY <2>1 DEF IInv, DataAgree, GeneratedIsCurrent
  <2> QED
    BY <2>3, <2>4 DEF EditWrites
<1>4. OneInForce'
  BY <1>1 DEF EditWrites, IInv, DataAgree, OneInForce
<1>5. InForceSettled'
  BY <1>2 DEF EditWrites, IInv, DataAgree, InForceSettled
<1>6. SettledIsPaid'
  <2> SUFFICES ASSUME NEW u \in Units, unit'[u].status = "SETTLED"
               PROVE  \E s \in Settlements :
                          /\ settlement'[s].status \in {"GENERATED", "NEEDS_REVIEW"}
                          /\ settlement'[s].month = unit'[u].month
                          /\ \E line \in settlement'[s].lines : line.unit = u
    BY DEF SettledIsPaid
  <2>1. unit'[u] = unit[u]
    BY DEF EditWrites
  <2>2. PICK s \in Settlements :
                          /\ settlement[s].status \in {"GENERATED", "NEEDS_REVIEW"}
                          /\ settlement[s].month = unit[u].month
                          /\ \E line \in settlement[s].lines : line.unit = u
    BY <2>1 DEF IInv, DataAgree, SettledIsPaid
  <2> WITNESS s \in Settlements
  <2> QED
    BY <2>1, <2>2 DEF EditWrites
<1>7. SettledPayable'
  BY DEF EditWrites, IInv, DataAgree, SettledPayable, Payable
<1> QED
  BY <1>3, <1>4, <1>5, <1>6, <1>7 DEF DataAgree

\* and what the other requests have read good enough for what they will write.
LEMMA EditKeepsRequests ==
    ASSUME IInv, EditWrites
    PROVE  RequestsKnow'
<1>1. \A u : InForce(u)' => InForce(u)
  BY DEF EditWrites, InForce
<1>2. \A other \in Tx : request'[other] = request[other] \/ request'[other].kind = "idle"
  BY DEF EditWrites, Idle
<1>3. SavesKnow'
  <2> SUFFICES ASSUME NEW other \in Tx, request'[other].kind = "save"
               PROVE  /\ request'[other].unit = NoUnit
                         \/ request'[other].unit \in request'[other].stale
                      /\ request'[other].status # "SETTLED"
                      /\ \A c \in request'[other].containers :
                            link'[c] \in request'[other].stale \cup {NoUnit}
                            \/ ~InForce(link[c])'
    BY DEF SavesKnow, InForce
  <2>1. request'[other] = request[other]
    BY <1>2
  <2>2. request[other].containers \subseteq Containers
    BY <2>1, RequestFields DEF IInv
  <2>3. \A c \in request[other].containers :
            link[c] \in request[other].stale \cup {NoUnit} \/ ~InForce(link[c])
    BY <2>1 DEF IInv, RequestsKnow, SavesKnow
  <2>4. ASSUME NEW c \in request[other].containers
        PROVE  link'[c] \in request[other].stale \cup {NoUnit} \/ ~InForce(link[c])'
    <3>1. link'[c] = link[c] \/ link'[c] = NoUnit \/ ~InForce(link[c])'
      BY <2>2 DEF EditWrites
    <3>2. CASE link'[c] = link[c]
      <4>1. ~InForce(link[c]) => ~InForce(link[c])'
        BY <3>2, <1>1 DEF InForce
      <4> QED
        BY <2>3, <3>2, <4>1
    <3> QED
      BY <3>1, <3>2
  <2> QED
    BY <2>1, <2>4 DEF IInv, RequestsKnow, SavesKnow
<1>4. CompletesKnow'
  BY <1>2 DEF IInv, RequestsKnow, CompletesKnow
<1>5. UnloadersKnow'
  <2> SUFFICES ASSUME NEW other \in Tx, request'[other].kind = "unloaders",
                      request'[other].status # "SETTLED"
               PROVE  unit'[request'[other].unit].status # "SETTLED"
    BY DEF UnloadersKnow
  <2>1. request'[other] = request[other] /\ request[other].unit \in Units
    BY <1>2, RequestFields DEF IInv
  <2> QED
    BY <2>1 DEF EditWrites, IInv, RequestsKnow, UnloadersKnow
<1>6. UnitsKnow'
  <2> SUFFICES ASSUME NEW other \in Tx, request'[other].kind = "completeUnit"
               PROVE  ~InForce(request[other].unit)'
    BY DEF UnitsKnow, InForce
  <2>1. request'[other] = request[other]
    BY <1>2
  <2>2. ~InForce(request[other].unit)
    BY <2>1 DEF IInv, RequestsKnow, UnitsKnow
  <2> QED
    BY <1>1, <2>1, <2>2 DEF InForce
<1>7. GenerateKnows'
  BY <1>2 DEF EditWrites, Generating, GenerateKnows
<1> QED
  BY <1>3, <1>4, <1>5, <1>6, <1>7 DEF RequestsKnow

-----------------------------------------------------------------------------
\* The edits

\* A request that has ended is idle again.
LEMMA Ended ==
    ASSUME TypeOK, NEW t \in Tx, End(t)
    PROVE  /\ request' \in [Tx -> RequestType]
           /\ request'[t] = Idle
           /\ \A other \in Tx : other # t => request'[other] = request[other]
  BY DEF TypeOK, End, RequestType

\* No edit is under way while a month is settled.
LEMMA NotGenerating ==
    ASSUME IInv, NEW t \in Tx, request[t].kind \notin {"idle", "file", "generate"}
    PROVE  ~Generating
  BY DEF IInv, RequestsKnow, GenerateKnows, Generating

\* A unit that is not settled is in no settlement in force.
LEMMA NotInForce ==
    ASSUME IInv, NEW u \in Units, unit[u].status # "SETTLED"
    PROVE  ~InForce(u)
  BY DEF IInv, DataAgree, InForceSettled

\* A new unit has a type and is not settled.
LEMMA NewUnit ==
    ASSUME NEW rate \in Rates, NEW status \in UnitStatus
    PROVE  /\ [Unset(rate) EXCEPT !.status = status] \in UnitType
           /\ [Unset(rate) EXCEPT !.status = status].status = status
  BY DEF Unset, UnitType, UnitStatus

LEMMA CreateWrites ==
    ASSUME IInv, GenerationAlone, CreatePayContainer
    PROVE  EditWrites
<1>1. PICK cs \in SUBSET Containers, ocean \in BOOLEAN, rate \in Rates :
         /\ CountRule(ocean, cs) /\ \A c \in cs : link[c] = NoUnit
         /\ \E u \in NewUnits(ocean, cs) :
              /\ unit' = [unit EXCEPT ![u] = [Unset(rate) EXCEPT !.status = "DRAFT"]]
              /\ link' = [c \in Containers |-> IF c \in cs THEN u ELSE link[c]]
  BY ZenonT(30) DEF CreatePayContainer
<1>2. PICK u \in NewUnits(ocean, cs) :
              /\ unit' = [unit EXCEPT ![u] = [Unset(rate) EXCEPT !.status = "DRAFT"]]
              /\ link' = [c \in Containers |-> IF c \in cs THEN u ELSE link[c]]
  BY <1>1
<1>3. u \in Units /\ unit[u].status = "NONE"
  BY <1>2 DEF NewUnits, Units
<1>4. UNCHANGED <<settlement, request>> /\ ~Generating /\ edits < MaxEdits /\ edits' = edits + 1
  BY DEF CreatePayContainer
<1>5. ~InForce(u) /\ ~InForce(u)'
  BY <1>3, <1>4, NotInForce DEF InForce
<1>6. [Unset(rate) EXCEPT !.status = "DRAFT"] \in UnitType
      /\ [Unset(rate) EXCEPT !.status = "DRAFT"].status = "DRAFT"
  BY NewUnit DEF UnitStatus
<1>7. TypeOK'
  BY <1>2, <1>3, <1>4, <1>6, SettlementAssumption DEF IInv, TypeOK
<1>8. \A v \in Units : v # u => unit'[v] = unit[v] /\ LineOf(v)' = LineOf(v)
  BY <1>1, <1>2, <1>3, SettlementAssumption DEF IInv, TypeOK, LineOf, ContainersOf
<1>9. \A v \in Units : unit'[v] = unit[v] \/ unit'[v].status # "SETTLED"
  BY <1>2, <1>3, <1>6, <1>8 DEF IInv, TypeOK
<1>10. \A c \in Containers : link'[c] = link[c] \/ link'[c] = NoUnit \/ ~InForce(link[c])'
  BY <1>2, <1>5 DEF InForce
<1> QED
  BY <1>4, <1>5, <1>7, <1>8, <1>9, <1>10 DEF EditWrites

\* A save marks the units it has read; one it changes otherwise is new, or was
\* taken out of force meanwhile.
LEMMA SaveWrites ==
    ASSUME IInv, NEW t \in Tx, WriteSave(t)
    PROVE  EditWrites
<1> DEFINE r == request[t]
<1>1. r.kind = "save" /\ MarkRelated(r.stale) /\ End(t) /\ UNCHANGED edits
  BY DEF WriteSave
<1>2. /\ r.unit \in Units \cup {NoUnit} /\ r.status \in UnitStatus /\ r.rate \in Rates
      /\ r.containers \subseteq Containers /\ r.stale \subseteq Units
  BY <1>1, RequestFields DEF IInv
<1>3. /\ r.unit = NoUnit \/ r.unit \in r.stale
      /\ r.status # "SETTLED"
      /\ \A c \in r.containers : link[c] \in r.stale \cup {NoUnit} \/ ~InForce(link[c])
  BY <1>1 DEF IInv, RequestsKnow, SavesKnow
<1>4. PICK u \in IF r.unit = NoUnit THEN NewUnits(r.ocean, r.containers) ELSE {r.unit} :
         /\ unit' = [unit EXCEPT ![u] =
                IF r.unit = NoUnit
                THEN [Unset(r.rate) EXCEPT !.status = r.status]
                ELSE [@ EXCEPT !.rate = r.rate, !.status = r.status]]
         /\ link' = [c \in Containers |-> CASE c \in r.containers -> u
                                            [] link[c] = u        -> NoUnit
                                            [] OTHER              -> link[c]]
  BY DEF WriteSave
<1>5. u \in Units
  BY <1>2, <1>4 DEF NewUnits, Units
<1>6. PICK new \in UnitType : new.status = r.status /\ unit' = [unit EXCEPT ![u] = new]
  <2>1. CASE r.unit = NoUnit
    BY <2>1, <1>2, <1>4, NewUnit
  <2>2. CASE r.unit # NoUnit
    <3>1. [unit[u] EXCEPT !.rate = r.rate, !.status = r.status] \in UnitType
          /\ [unit[u] EXCEPT !.rate = r.rate, !.status = r.status].status = r.status
      BY <1>2, <1>5 DEF IInv, TypeOK, UnitType
    <3> QED
      BY <2>2, <1>4, <3>1
  <2> QED
    BY <2>1, <2>2
<1>7. TypeOK'
  <2>1. link' \in [Containers -> Units \cup {NoUnit}]
    BY <1>4, <1>5 DEF IInv, TypeOK
  <2> QED
    BY <1>1, <1>5, <1>6, <2>1, Marked, Ended DEF IInv, TypeOK
<1>8. /\ \A s \in Settlements :
            /\ settlement'[s].month = settlement[s].month
            /\ settlement'[s].lines = settlement[s].lines
            /\ \/ settlement'[s].status = settlement[s].status
               \/ settlement[s].status = "GENERATED" /\ settlement'[s].status = "NEEDS_REVIEW"
      /\ \A v \in r.stale : ~InForce(v)'
  BY <1>1, Marked DEF IInv
<1>9. \A v : InForce(v)' => InForce(v)
  BY <1>8 DEF InForce
<1>10. ~InForce(u)'
  <2>1. CASE r.unit = NoUnit
    <3>1. unit[u].status = "NONE"
      BY <2>1, <1>4 DEF NewUnits
    <3> QED
      BY <3>1, <1>5, <1>9, NotInForce
  <2>2. CASE r.unit # NoUnit
    BY <2>2, <1>3, <1>4, <1>8
  <2> QED
    BY <2>1, <2>2
<1>11. \A c \in r.containers : link[c] = NoUnit \/ \A v \in Units : v = link[c] => ~InForce(v)'
  BY <1>3, <1>8, <1>9
<1>12. ASSUME NEW v \in Units, InForce(v)'
       PROVE  LineOf(v)' = LineOf(v) /\ unit'[v] = unit[v]
  <2>1. v # u /\ v # NoUnit /\ \A c \in r.containers : link[c] # v
    BY <1>10, <1>11, <1>12, SettlementAssumption
  <2>2. unit'[v] = unit[v]
    BY <1>6, <2>1 DEF IInv, TypeOK
  <2>3. \A c \in Containers : link'[c] = v <=> link[c] = v
    BY <1>4, <2>1
  <2> QED
    BY <2>2, <2>3 DEF LineOf, ContainersOf
<1>13. \A v \in Units : unit'[v] = unit[v] \/ unit'[v].status # "SETTLED"
  BY <1>3, <1>5, <1>6 DEF IInv, TypeOK
<1>14. \A c \in Containers : link'[c] = link[c] \/ link'[c] = NoUnit \/ ~InForce(link[c])'
  <2>1. \A c \in Containers : link'[c] = link[c] \/ link'[c] = NoUnit \/ link'[c] = u
    BY <1>4
  <2> QED
    BY <2>1, <1>10 DEF InForce
<1> QED
  BY <1>1, <1>7, <1>8, <1>12, <1>13, <1>14, NotGenerating, Ended DEF EditWrites, IInv

\* An edit of one unit that is in no settlement in force afterwards.
LEMMA OneUnitWrites ==
    ASSUME IInv, NEW t \in Tx, request[t].kind \notin {"idle", "file", "generate"},
           NEW u \in Units, NEW new \in UnitType,
           unit' = [unit EXCEPT ![u] = new], new.status # "SETTLED", ~InForce(u)',
           UNCHANGED <<link, edits>>, End(t), MarkRelated({u}) \/ UNCHANGED settlement
    PROVE  EditWrites
<1>1. settlement' \in [Settlements -> SettlementType]
      /\ \A s \in Settlements :
            /\ settlement'[s].month = settlement[s].month
            /\ settlement'[s].lines = settlement[s].lines
            /\ \/ settlement'[s].status = settlement[s].status
               \/ settlement[s].status = "GENERATED" /\ settlement'[s].status = "NEEDS_REVIEW"
  BY Marked DEF IInv, TypeOK
<1>2. TypeOK'
  BY <1>1, Ended DEF IInv, TypeOK
<1>3. \A v \in Units : v # u => unit'[v] = unit[v] /\ LineOf(v)' = LineOf(v)
  BY DEF IInv, TypeOK, LineOf, ContainersOf
<1>4. unit'[u].status # "SETTLED"
  BY DEF IInv, TypeOK
<1> QED
  BY <1>1, <1>2, <1>3, <1>4, NotGenerating, Ended DEF EditWrites, IInv

LEMMA CompleteWrites ==
    ASSUME IInv, NEW t \in Tx, WriteComplete(t)
    PROVE  EditWrites
<1> DEFINE r == request[t]
<1>1. r.kind = "complete" /\ r.unit \in Units /\ r.status \in UnitStatus /\ r.month \in Months
  BY RequestFields DEF WriteComplete, IInv
<1>2. PICK u \in Units : u = r.unit
  BY <1>1
<1>3. PICK new : new = [unit[u] EXCEPT !.month = r.month, !.status = r.status]
  OBVIOUS
<1>4. new \in UnitType /\ new.status = r.status
  <2>1. unit[u] \in UnitType
    BY DEF IInv, TypeOK
  <2> QED
    BY <1>1, <1>3, <2>1 DEF UnitType
<1>5. unit' = [unit EXCEPT ![u] = new]
  BY <1>2, <1>3 DEF WriteComplete, IInv, TypeOK
<1>6. r.status # "SETTLED"
  BY <1>1 DEF IInv, RequestsKnow, CompletesKnow
<1>7. MarkRelated({u}) /\ End(t) /\ UNCHANGED <<link, edits>>
  BY <1>2 DEF WriteComplete
<1>8. ~InForce(u)'
  BY <1>7, Marked DEF IInv
<1> QED
  BY <1>1, <1>4, <1>5, <1>6, <1>7, <1>8, OneUnitWrites

\* If the unit was settled it is not any more; if not, nobody has settled it
\* since it was read.
LEMMA UnloadersWrites ==
    ASSUME IInv, NEW t \in Tx, WriteUnloaders(t)
    PROVE  EditWrites
<1> DEFINE r == request[t]
<1>1. r.kind = "unloaders" /\ r.unit \in Units /\ r.status \in UnitStatus /\ r.team \in Teams
  BY RequestFields DEF WriteUnloaders, IInv
<1>2. PICK u \in Units : u = r.unit
  BY <1>1
<1>3. PICK new : new = [unit[u] EXCEPT !.team = r.team, !.fits = {},
                                       !.status = Reviewed(r.status, @)]
  OBVIOUS
<1>4. new \in UnitType /\ new.status = Reviewed(r.status, unit[u].status)
  <2>1. unit[u] \in UnitType /\ Reviewed(r.status, unit[u].status) \in UnitStatus
    BY <1>1 DEF IInv, TypeOK, Reviewed, UnitType, UnitStatus
  <2> QED
    BY <1>1, <1>3, <2>1 DEF UnitType
<1>5. unit' = [unit EXCEPT ![u] = new]
  BY <1>2, <1>3 DEF WriteUnloaders, IInv, TypeOK
<1>6. new.status # "SETTLED"
  <2>1. r.status # "SETTLED" => unit[u].status # "SETTLED"
    BY <1>1, <1>2 DEF IInv, RequestsKnow, UnloadersKnow
  <2> QED
    BY <1>4, <2>1 DEF Reviewed
<1>7. MarkRelated({u}) /\ End(t) /\ UNCHANGED <<link, edits>>
  BY <1>2 DEF WriteUnloaders
<1>8. ~InForce(u)'
  BY <1>7, Marked DEF IInv
<1> QED
  BY <1>1, <1>4, <1>5, <1>6, <1>7, <1>8, OneUnitWrites

\* It marks nothing: the unit is in no settlement in force.
LEMMA CompleteUnitWrites ==
    ASSUME IInv, NEW t \in Tx, WriteCompleteUnit(t)
    PROVE  EditWrites
<1> DEFINE r == request[t]
<1>1. /\ r.kind = "completeUnit" /\ r.unit \in Units /\ r.month \in Months /\ r.team \in Teams
      /\ r.equal \in BOOLEAN /\ r.fits \subseteq Rates
  BY CompleteUnitFields DEF WriteCompleteUnit, IInv
<1>2. PICK u \in Units : u = r.unit
  BY <1>1
<1>3. PICK new : new = [unit[u] EXCEPT !.status = "COMPLETED", !.month = r.month,
                                       !.team = r.team, !.equal = r.equal, !.fits = r.fits]
  OBVIOUS
<1>4. new \in UnitType /\ new.status = "COMPLETED"
  <2>1. unit[u] \in UnitType
    BY DEF IInv, TypeOK
  <2> QED
    BY <1>1, <1>3, <2>1 DEF UnitType, UnitStatus
<1>5. unit' = [unit EXCEPT ![u] = new]
  BY <1>2, <1>3 DEF WriteCompleteUnit, IInv, TypeOK
<1>6. UNCHANGED <<settlement, link, edits>> /\ End(t)
  BY DEF WriteCompleteUnit
<1>7. ~InForce(u)
  BY <1>1, <1>2 DEF IInv, RequestsKnow, UnitsKnow
<1>8. ~InForce(u)'
  BY <1>6, <1>7 DEF InForce
<1> QED
  BY <1>1, <1>4, <1>5, <1>6, <1>8, OneUnitWrites

-----------------------------------------------------------------------------
\* Reading, and ending without having written

\* Nothing but requests changes.
LEMMA DataStays ==
    ASSUME IInv, UNCHANGED data
    PROVE  DataAgree' /\ \A u : InForce(u)' <=> InForce(u)
<1>1. unit' = unit /\ link' = link /\ settlement' = settlement
  BY DEF data
<1> QED
  BY <1>1 DEF IInv, DataAgree, GeneratedIsCurrent, OneInForce, InForceSettled, SettledIsPaid,
     SettledPayable, Payable, LineOf, ContainersOf, InForce

\* A request that has ended knows nothing.
LEMMA RollbackStep ==
    ASSUME IInv, NEW t \in Tx, Rollback(t)
    PROVE  IInv'
<1>1. End(t) /\ unit' = unit /\ link' = link /\ settlement' = settlement /\ edits' = edits
  BY DEF Rollback, data
<1>2. \A other \in Tx : request'[other] = request[other] \/ request'[other].kind = "idle"
  BY <1>1, Ended DEF IInv, Idle
<1>3. TypeOK'
  BY <1>1, Ended DEF IInv, TypeOK
<1>4. DataAgree'
  BY <1>1, DataStays DEF data
<1>5. SavesKnow'
  BY <1>1, <1>2 DEF IInv, RequestsKnow, SavesKnow, InForce
<1>6. (CompletesKnow /\ UnloadersKnow)'
  BY <1>1, <1>2 DEF IInv, RequestsKnow, CompletesKnow, UnloadersKnow
<1>7. UnitsKnow'
  BY <1>1, <1>2 DEF IInv, RequestsKnow, UnitsKnow, InForce
<1>8. GenerateKnows'
  BY <1>1, <1>2 DEF IInv, RequestsKnow, GenerateKnows, LineOf, ContainersOf, Payable
<1> QED
  BY <1>3, <1>4, <1>5, <1>6, <1>7, <1>8 DEF IInv, RequestsKnow

\* An edit that begins knows what it has read, and no month is being settled.
BeginKnows(r) ==
    /\ r.kind \in {"save", "complete", "unloaders", "completeUnit"}
    /\ r.kind = "save" =>
          /\ r.unit = NoUnit \/ r.unit \in r.stale
          /\ r.status # "SETTLED"
          /\ \A c \in r.containers : link[c] \in r.stale \cup {NoUnit}
    /\ r.kind = "complete" => r.status # "SETTLED"
    /\ r.kind = "unloaders" /\ r.status # "SETTLED" => unit[r.unit].status # "SETTLED"
    /\ r.kind = "completeUnit" => ~InForce(r.unit)

LEMMA BeginStep ==
    ASSUME IInv, GenerationAlone, NEW t \in Tx, NEW r \in RequestType,
           BeginEdit(t, r), BeginKnows(r)
    PROVE  IInv'
<1>1. /\ request' = [request EXCEPT ![t] = r] /\ edits < MaxEdits /\ edits' = edits + 1
      /\ unit' = unit /\ link' = link /\ settlement' = settlement /\ ~Generating
  BY DEF BeginEdit, data
<1>2. request'[t] = r /\ \A other \in Tx : other # t => request'[other] = request[other]
  BY <1>1 DEF IInv, TypeOK
<1>3. TypeOK'
  BY <1>1, SettlementAssumption DEF IInv, TypeOK
<1>4. DataAgree'
  BY <1>1, DataStays DEF data
<1>5. SavesKnow'
  BY <1>1, <1>2 DEF IInv, RequestsKnow, SavesKnow, InForce, BeginKnows
<1>6. CompletesKnow'
  BY <1>1, <1>2 DEF IInv, RequestsKnow, CompletesKnow, BeginKnows
<1>7. UnloadersKnow'
  BY <1>1, <1>2 DEF IInv, RequestsKnow, UnloadersKnow, BeginKnows
<1>8. UnitsKnow'
  BY <1>1, <1>2 DEF IInv, RequestsKnow, UnitsKnow, InForce, BeginKnows
<1>9. GenerateKnows'
  BY <1>1, <1>2 DEF Generating, GenerateKnows, BeginKnows
<1> QED
  BY <1>3, <1>4, <1>5, <1>6, <1>7, <1>8, <1>9 DEF IInv, RequestsKnow

LEMMA ReadSaveStep ==
    ASSUME IInv, GenerationAlone, NEW t \in Tx, ReadSave(t)
    PROVE  IInv'
<1>1. PICK cs \in SUBSET Containers, ocean \in BOOLEAN, rate \in Rates :
         \E primary \in cs : \E u \in IF link[primary] # NoUnit THEN {link[primary]}
                                      ELSE IF {link[c] : c \in cs} \ {NoUnit} # {}
                                           THEN {link[c] : c \in cs} \ {NoUnit} ELSE {NoUnit} :
            BeginEdit(t, [kind |-> "save", unit |-> u,
                status |-> IF u = NoUnit THEN "DRAFT"
                           ELSE Reviewed(unit[u].status, unit[u].status),
                rate |-> rate, ocean |-> ocean, containers |-> cs,
                stale |-> {link[c] : c \in cs} \ {NoUnit}])
  BY DEF ReadSave
<1> DEFINE linked == {link[c] : c \in cs} \ {NoUnit}
<1>2. PICK u, status :
         /\ u = NoUnit \/ u \in linked
         /\ status = IF u = NoUnit THEN "DRAFT" ELSE Reviewed(unit[u].status, unit[u].status)
         /\ BeginEdit(t, [kind |-> "save", unit |-> u, status |-> status, rate |-> rate,
                          ocean |-> ocean, containers |-> cs, stale |-> linked])
  BY <1>1
<1>3. linked \subseteq Units
  BY DEF IInv, TypeOK
<1>4. status \in UnitStatus /\ status # "SETTLED"
  BY <1>2, <1>3 DEF IInv, TypeOK, UnitType, UnitStatus, Reviewed
<1> DEFINE r == [kind |-> "save", unit |-> u, status |-> status, rate |-> rate,
                 ocean |-> ocean, containers |-> cs, stale |-> linked]
<1>5. r \in RequestType
  BY <1>2, <1>3, <1>4 DEF RequestType
<1>6. BeginKnows(r)
  BY <1>2, <1>4 DEF BeginKnows
<1> QED
  BY <1>2, <1>5, <1>6, BeginStep

LEMMA ReadCompleteStep ==
    ASSUME IInv, GenerationAlone, NEW t \in Tx, ReadComplete(t)
    PROVE  IInv'
<1>1. PICK c \in Containers, m \in Months :
         /\ link[c] # NoUnit
         /\ BeginEdit(t, [kind |-> "complete", unit |-> link[c], month |-> m,
                          status |-> Reviewed(unit[link[c]].status, "COMPLETED")])
  BY DEF ReadComplete
<1> DEFINE r == [kind |-> "complete", unit |-> link[c], month |-> m,
                 status |-> Reviewed(unit[link[c]].status, "COMPLETED")]
<1>2. r.status \in UnitStatus /\ r.status # "SETTLED"
  BY DEF Reviewed, UnitStatus
<1>3. r \in RequestType
  BY <1>1, <1>2 DEF IInv, TypeOK, RequestType
<1>4. BeginKnows(r)
  BY <1>2 DEF BeginKnows
<1> QED
  BY <1>1, <1>3, <1>4, BeginStep

LEMMA ReadUnloadersStep ==
    ASSUME IInv, GenerationAlone, NEW t \in Tx, ReadUnloaders(t)
    PROVE  IInv'
<1>1. PICK c \in Containers, team \in Teams :
         /\ link[c] # NoUnit
         /\ BeginEdit(t, [kind |-> "unloaders", unit |-> link[c], team |-> team,
                          status |-> unit[link[c]].status])
  BY DEF ReadUnloaders
<1> DEFINE r == [kind |-> "unloaders", unit |-> link[c], team |-> team,
                 status |-> unit[link[c]].status]
<1>2. r \in RequestType
  BY <1>1 DEF IInv, TypeOK, UnitType, RequestType
<1>3. BeginKnows(r)
  BY DEF BeginKnows
<1> QED
  BY <1>1, <1>2, <1>3, BeginStep

\* A unit that may be completed is not settled, so no settlement in force has it.
LEMMA ReadCompleteUnitStep ==
    ASSUME IInv, GenerationAlone, NEW t \in Tx, ReadCompleteUnit(t)
    PROVE  IInv'
<1>1. PICK u \in Units, m \in Months, team \in Teams, equal \in BOOLEAN, fits \in SUBSET Rates :
         /\ MayComplete(u)
         /\ BeginEdit(t, [kind |-> "completeUnit", unit |-> u, month |-> m,
                          team |-> team, equal |-> equal, fits |-> fits])
  <2>1. PICK u \in Units, m \in Months, team \in Teams, equal \in BOOLEAN :
           /\ MayComplete(u)
           /\ \E fits \in IF equal THEN {{}} ELSE {{unit[u].rate}, {}, Rates} :
                 BeginEdit(t, [kind |-> "completeUnit", unit |-> u, month |-> m,
                               team |-> team, equal |-> equal, fits |-> fits])
    BY DEF ReadCompleteUnit
  <2>2. PICK fits \in IF equal THEN {{}} ELSE {{unit[u].rate}, {}, Rates} :
                 BeginEdit(t, [kind |-> "completeUnit", unit |-> u, month |-> m,
                               team |-> team, equal |-> equal, fits |-> fits])
    BY <2>1
  <2>3. unit[u].rate \in Rates
    BY DEF IInv, TypeOK, UnitType
  <2>4. fits \in SUBSET Rates
    BY <2>2, <2>3
  <2> QED
    BY <2>1, <2>2, <2>4
<1> DEFINE r == [kind |-> "completeUnit", unit |-> u, month |-> m,
                 team |-> team, equal |-> equal, fits |-> fits]
<1>2. r \in [kind : {"completeUnit"}, unit : Units, month : Months, team : Teams,
             equal : BOOLEAN, fits : SUBSET Rates]
  OBVIOUS
<1>3. r \in RequestType
  BY <1>2 DEF RequestType
<1>4. ~InForce(u)
  BY <1>1, NotInForce DEF MayComplete
<1>5. BeginKnows(r)
  BY <1>4 DEF BeginKnows
<1> QED
  BY <1>1, <1>3, <1>5, BeginStep

-----------------------------------------------------------------------------
\* Settling a month

\* A generation begins when every other request is idle or writes files, and
\* its lines are those of the payable units of the month.
LEMMA ReadGenerateStep ==
    ASSUME IInv, GenerationAlone, NEW t \in Tx, ReadGenerate(t)
    PROVE  IInv'
<1>1. PICK m \in Months :
         /\ request[t] = Idle
         /\ \A other \in Tx : request[other].kind \in {"idle", "file"}
         /\ request' = [request EXCEPT ![t] =
                [kind |-> "generate", month |-> m,
                 lines |-> {LineOf(u) : u \in {v \in Due(m) : Payable(v)}},
                 errors |-> {v \in Due(m) : Payable(v)} # Due(m)]]
         /\ UNCHANGED <<data, edits>>
  BY DEF ReadGenerate
<1> DEFINE payable == {v \in Due(m) : Payable(v)}
           lines   == {LineOf(u) : u \in payable}
           r       == [kind |-> "generate", month |-> m, lines |-> lines,
                       errors |-> payable # Due(m)]
<1>2. /\ unit' = unit /\ link' = link /\ settlement' = settlement /\ edits' = edits
      /\ request'[t] = r /\ \A other \in Tx : other # t => request'[other] = request[other]
  BY <1>1 DEF data, IInv, TypeOK
<1>3. lines \subseteq LineType
  <2>1. \A u \in Units : LineOf(u) \in LineType
    BY DEF IInv, TypeOK, UnitType, LineOf, LineType, ContainersOf
  <2> QED
    BY <2>1 DEF Due
<1>4. r \in RequestType
  <2>1. (payable # Due(m)) \in BOOLEAN
    OBVIOUS
  <2>2. r \in [kind : {"generate"}, month : Months, lines : SUBSET LineType, errors : BOOLEAN]
    BY <1>3, <2>1
  <2> QED
    BY <2>2 DEF RequestType
<1>5. TypeOK'
  BY <1>1, <1>2, <1>4 DEF IInv, TypeOK
<1>6. DataAgree'
  BY <1>2, DataStays DEF data
<1>7. \A other \in Tx : request'[other].kind \in {"idle", "file", "generate"}
  BY <1>1, <1>2
<1>8. (SavesKnow /\ CompletesKnow /\ UnloadersKnow /\ UnitsKnow)'
  BY <1>7 DEF SavesKnow, CompletesKnow, UnloadersKnow, UnitsKnow
<1>9. GenerateKnows'
  <2>1. \A line \in lines :
           /\ line.unit \in Units /\ line = LineOf(line.unit)
           /\ line.month = m /\ Payable(line.unit)
    BY DEF LineOf, Due
  <2>2. \A u \in Units : unit[u].status = "SETTLED" /\ unit[u].month = m =>
           \E line \in lines : line.unit = u
    <3> SUFFICES ASSUME NEW u \in Units, unit[u].status = "SETTLED", unit[u].month = m
                 PROVE  \E line \in lines : line.unit = u
      OBVIOUS
    <3>1. u \in payable
      BY DEF Due, IInv, DataAgree, SettledPayable
    <3>2. LineOf(u) \in lines
      BY <3>1
    <3>3. LineOf(u).unit = u
      BY DEF LineOf
    <3> QED
      BY <3>2, <3>3
  <2>3. \A g \in Tx : request'[g].kind = "generate" => g = t
    BY <1>1, <1>2
  <2>4. \A u : LineOf(u)' = LineOf(u) /\ (Payable(u)' <=> Payable(u))
    BY <1>2 DEF LineOf, ContainersOf, Payable
  <2> QED
    BY <1>1, <1>2, <2>1, <2>2, <2>3, <2>4 DEF GenerateKnows
<1> QED
  BY <1>5, <1>6, <1>8, <1>9 DEF IInv, RequestsKnow

\* Superseding leaves months and lines, and no settlement of the month in force.
LEMMA SupersededOf ==
    ASSUME TypeOK, NEW m
    PROVE  /\ Superseded(m) \in [Settlements -> SettlementType]
           /\ \A s \in Settlements :
                 /\ Superseded(m)[s].month = settlement[s].month
                 /\ Superseded(m)[s].lines = settlement[s].lines
                 /\ Superseded(m)[s].status =
                       IF settlement[s].month = m /\ settlement[s].status = "GENERATED"
                       THEN "SUPERSEDED" ELSE settlement[s].status
<1> DEFINE new(s) == IF settlement[s].month = m /\ settlement[s].status = "GENERATED"
                     THEN [settlement[s] EXCEPT !.status = "SUPERSEDED"]
                     ELSE settlement[s]
<1>1. Superseded(m) = [s \in Settlements |-> new(s)]
  BY DEF Superseded
<1>2. ASSUME NEW s \in Settlements
      PROVE  /\ new(s) \in SettlementType
             /\ new(s).month = settlement[s].month
             /\ new(s).lines = settlement[s].lines
             /\ new(s).status =
                   IF settlement[s].month = m /\ settlement[s].status = "GENERATED"
                   THEN "SUPERSEDED" ELSE settlement[s].status
  <2>1. settlement[s] \in SettlementType
    BY DEF TypeOK
  <2>2. /\ [settlement[s] EXCEPT !.status = "SUPERSEDED"] \in SettlementType
        /\ [settlement[s] EXCEPT !.status = "SUPERSEDED"].month = settlement[s].month
        /\ [settlement[s] EXCEPT !.status = "SUPERSEDED"].lines = settlement[s].lines
        /\ [settlement[s] EXCEPT !.status = "SUPERSEDED"].status = "SUPERSEDED"
    BY <2>1 DEF SettlementType
  <2> QED
    BY <2>1, <2>2
<1> HIDE DEF new
<1> QED
  BY <1>1, <1>2

\* The new settlement has current lines of units that are settled with it, and
\* everything the superseded one had of the month.
LEMMA WriteGenerateStep ==
    ASSUME IInv, GenerationAlone, NEW t \in Tx, WriteGenerate(t)
    PROVE  IInv'
<1> DEFINE r == request[t]
<1>1. r.kind = "generate" /\ r.month \in Months /\ r.lines \subseteq LineType
  BY RequestFields DEF WriteGenerate, IInv
<1>2. PICK n \in Settlements :
         /\ settlement[n].status = "NONE"
         /\ settlement' = [Superseded(r.month) EXCEPT ![n] =
                [status |-> IF r.errors THEN "NEEDS_REVIEW" ELSE "GENERATED",
                 month |-> r.month, lines |-> r.lines, filed |-> FALSE]]
         /\ request' = [request EXCEPT ![t] = [kind |-> "file", settlement |-> n]]
  BY DEF WriteGenerate
<1>3. unit' = [u \in Units |-> IF \E line \in r.lines : line.unit = u
                                THEN [unit[u] EXCEPT !.status = "SETTLED"] ELSE unit[u]]
      /\ link' = link /\ edits' = edits
  BY DEF WriteGenerate
<1>4. /\ \A other \in Tx : other # t => request[other].kind \in {"idle", "file"}
      /\ \A line \in r.lines :
            /\ line.unit \in Units /\ line = LineOf(line.unit)
            /\ line.month = r.month /\ Payable(line.unit)
      /\ \A u \in Units : unit[u].status = "SETTLED" /\ unit[u].month = r.month =>
            \E line \in r.lines : line.unit = u
  BY <1>1 DEF IInv, RequestsKnow, GenerateKnows
<1>5. \A u \in Units :
         /\ unit'[u] \in UnitType
         /\ unit'[u].rate = unit[u].rate /\ unit'[u].team = unit[u].team
         /\ unit'[u].month = unit[u].month /\ unit'[u].fits = unit[u].fits
         /\ unit'[u].equal = unit[u].equal
         /\ unit'[u].status = IF \E line \in r.lines : line.unit = u
                              THEN "SETTLED" ELSE unit[u].status
  <2> TAKE u \in Units
  <2>1. unit[u] \in UnitType
    BY DEF IInv, TypeOK
  <2>2. PICK new : new = [unit[u] EXCEPT !.status = "SETTLED"]
    OBVIOUS
  <2>3. /\ new \in UnitType /\ new.rate = unit[u].rate /\ new.team = unit[u].team
        /\ new.month = unit[u].month /\ new.fits = unit[u].fits
        /\ new.equal = unit[u].equal /\ new.status = "SETTLED"
    BY <2>1, <2>2 DEF UnitType, UnitStatus
  <2>4. unit'[u] = IF \E line \in r.lines : line.unit = u THEN new ELSE unit[u]
    BY <1>3, <2>2
  <2> QED
    BY <2>1, <2>3, <2>4
<1>6. \A u \in Units : LineOf(u)' = LineOf(u) /\ (Payable(u) => Payable(u)')
  BY <1>3, <1>5 DEF LineOf, ContainersOf, Payable
<1>7. /\ settlement'[n].month = r.month /\ settlement'[n].lines = r.lines
      /\ settlement'[n].status \in {"GENERATED", "NEEDS_REVIEW"}
      /\ settlement' \in [Settlements -> SettlementType]
  <2>1. [status |-> IF r.errors THEN "NEEDS_REVIEW" ELSE "GENERATED",
         month |-> r.month, lines |-> r.lines, filed |-> FALSE] \in SettlementType
    BY <1>1 DEF SettlementType
  <2> QED
    BY <1>2, <2>1, SupersededOf DEF IInv
<1>8. \A s \in Settlements : s # n =>
         /\ settlement'[s].month = settlement[s].month
         /\ settlement'[s].lines = settlement[s].lines
         /\ settlement'[s].status =
               IF settlement[s].month = r.month /\ settlement[s].status = "GENERATED"
               THEN "SUPERSEDED" ELSE settlement[s].status
  BY <1>2, SupersededOf DEF IInv
<1>9. TypeOK'
  <2>1. unit' \in [Units -> UnitType]
    BY <1>3, <1>5
  <2>2. request' \in [Tx -> RequestType]
    BY <1>2 DEF IInv, TypeOK, RequestType
  <2> QED
    BY <1>3, <1>7, <2>1, <2>2 DEF IInv, TypeOK
<1>10. GeneratedIsCurrent'
  <2> SUFFICES ASSUME NEW s \in Settlements, settlement'[s].status = "GENERATED",
                      NEW line \in settlement'[s].lines
               PROVE  line = LineOf(line.unit)' /\ line.month = settlement'[s].month
    BY DEF GeneratedIsCurrent, LineOf, ContainersOf
  <2>1. CASE s = n
    BY <2>1, <1>4, <1>6, <1>7
  <2>2. CASE s # n
    <3>1. settlement[s].status = "GENERATED" /\ line \in settlement[s].lines
      BY <2>2, <1>8
    <3>2. line.unit \in Units
      BY <3>1, LinesAreOfUnits DEF IInv
    <3>3. line = LineOf(line.unit) /\ line.month = settlement[s].month
      BY <3>1 DEF IInv, DataAgree, GeneratedIsCurrent
    <3> QED
      BY <2>2, <1>6, <1>8, <3>2, <3>3
  <2> QED
    BY <2>1, <2>2
<1>11. OneInForce'
  <2>1. \A s \in Settlements : s # n /\ settlement'[s].status = "GENERATED" =>
           settlement[s].status = "GENERATED" /\ settlement[s].month # r.month
    BY <1>8
  <2> QED
    BY <2>1, <1>7, <1>8 DEF IInv, DataAgree, OneInForce
<1>12. InForceSettled'
  <2> SUFFICES ASSUME NEW u \in Units, InForce(u)'
               PROVE  unit'[u].status = "SETTLED"
    BY DEF InForceSettled
  <2>1. PICK s \in Settlements : settlement'[s].status = "GENERATED" /\
                                 \E line \in settlement'[s].lines : line.unit = u
    BY DEF InForce
  <2>2. CASE s = n
    BY <2>1, <2>2, <1>5, <1>7
  <2>3. CASE s # n
    <3>1. InForce(u)
      BY <2>1, <2>3, <1>8 DEF InForce
    <3> QED
      BY <3>1, <1>5 DEF IInv, DataAgree, InForceSettled
  <2> QED
    BY <2>2, <2>3
<1>13. SettledIsPaid'
  <2> SUFFICES ASSUME NEW u \in Units, unit'[u].status = "SETTLED"
               PROVE  \E s \in Settlements :
                          /\ settlement'[s].status \in {"GENERATED", "NEEDS_REVIEW"}
                          /\ settlement'[s].month = unit'[u].month
                          /\ \E line \in settlement'[s].lines : line.unit = u
    BY DEF SettledIsPaid
  <2>1. CASE \E line \in r.lines : line.unit = u
    <3>1. PICK line \in r.lines : line.unit = u
      BY <2>1
    <3>2. unit[u].month = r.month
      BY <3>1, <1>4 DEF LineOf
    <3> QED
      BY <2>1, <3>2, <1>5, <1>7
  <2>2. CASE ~\E line \in r.lines : line.unit = u
    <3>1. unit[u].status = "SETTLED" /\ unit[u].month # r.month
      BY <2>2, <1>4, <1>5
    <3>2. PICK s \in Settlements :
             /\ settlement[s].status \in {"GENERATED", "NEEDS_REVIEW"}
             /\ settlement[s].month = unit[u].month
             /\ \E line \in settlement[s].lines : line.unit = u
      BY <3>1 DEF IInv, DataAgree, SettledIsPaid
    <3>3. s # n
      BY <3>2, <1>2
    <3> QED
      BY <3>1, <3>2, <3>3, <1>5, <1>8
  <2> QED
    BY <2>1, <2>2
<1>14. SettledPayable'
  <2> SUFFICES ASSUME NEW u \in Units, unit'[u].status = "SETTLED"
               PROVE  Payable(u)'
    BY DEF SettledPayable
  <2>1. Payable(u)
    BY <1>4, <1>5 DEF IInv, DataAgree, SettledPayable
  <2> QED
    BY <2>1, <1>6
<1>15. RequestsKnow'
  <2>1. \A other \in Tx : request'[other].kind \in {"idle", "file"}
    BY <1>2, <1>4 DEF IInv, TypeOK
  <2> QED
    BY <2>1 DEF RequestsKnow, SavesKnow, CompletesKnow, UnloadersKnow, UnitsKnow, GenerateKnows
<1> QED
  BY <1>9, <1>10, <1>11, <1>12, <1>13, <1>14, <1>15 DEF IInv, DataAgree

\* Files change neither lines nor who is in force.
LEMMA WriteFilesStep ==
    ASSUME IInv, NEW t \in Tx, WriteFiles(t)
    PROVE  IInv'
<1>1. /\ request[t].settlement \in Settlements /\ End(t)
      /\ settlement' = [settlement EXCEPT ![request[t].settlement].filed = TRUE]
      /\ unit' = unit /\ link' = link /\ edits' = edits
  BY RequestFields DEF WriteFiles, IInv
<1>2. settlement' \in [Settlements -> SettlementType]
      /\ \A s \in Settlements :
            /\ settlement'[s].status = settlement[s].status
            /\ settlement'[s].month = settlement[s].month
            /\ settlement'[s].lines = settlement[s].lines
  <2>1. PICK n \in Settlements : n = request[t].settlement
    BY <1>1
  <2>2. PICK new : new = [settlement[n] EXCEPT !.filed = TRUE]
    OBVIOUS
  <2>3. settlement[n] \in SettlementType
    BY DEF IInv, TypeOK
  <2>4. /\ new \in SettlementType /\ new.status = settlement[n].status
        /\ new.month = settlement[n].month /\ new.lines = settlement[n].lines
    BY <2>2, <2>3 DEF SettlementType
  <2>5. settlement' = [settlement EXCEPT ![n] = new]
    BY <1>1, <2>1, <2>2 DEF IInv, TypeOK
  <2> QED
    BY <2>4, <2>5 DEF IInv, TypeOK
<1>3. \A u : InForce(u)' <=> InForce(u)
  BY <1>2 DEF InForce
<1>4. \A other \in Tx : request'[other] = request[other] \/ request'[other].kind = "idle"
  BY <1>1, Ended DEF IInv, Idle
<1>5. TypeOK'
  BY <1>1, <1>2, Ended DEF IInv, TypeOK
<1>6. (GeneratedIsCurrent /\ OneInForce /\ SettledIsPaid)'
  BY <1>1, <1>2 DEF IInv, DataAgree, GeneratedIsCurrent, OneInForce, SettledIsPaid, LineOf,
     ContainersOf
<1>7. (InForceSettled /\ SettledPayable)'
  BY <1>1, <1>3 DEF IInv, DataAgree, InForceSettled, SettledPayable, Payable
<1>8. SavesKnow'
  <2>1. \A c \in Containers : ~InForce(link[c]) => ~InForce(link[c])'
    BY <1>1, <1>3 DEF InForce
  <2>2. \A other \in Tx : request[other].kind = "save" => request[other].containers \subseteq Containers
    BY RequestFields DEF IInv
  <2> QED
    BY <1>1, <1>4, <2>1, <2>2 DEF IInv, RequestsKnow, SavesKnow
<1>9. (CompletesKnow /\ UnloadersKnow)'
  BY <1>1, <1>4 DEF IInv, RequestsKnow, CompletesKnow, UnloadersKnow
<1>10. UnitsKnow'
  <2> SUFFICES ASSUME NEW other \in Tx, request'[other].kind = "completeUnit"
               PROVE  ~InForce(request[other].unit)'
    BY DEF UnitsKnow, InForce
  <2>1. request'[other] = request[other] /\ ~InForce(request[other].unit)
    BY <1>4 DEF IInv, RequestsKnow, UnitsKnow
  <2> QED
    BY <2>1, <1>3 DEF InForce
<1>11. GenerateKnows'
  BY <1>1, <1>4 DEF IInv, RequestsKnow, GenerateKnows, LineOf, ContainersOf, Payable
<1> QED
  BY <1>5, <1>6, <1>7, <1>8, <1>9, <1>10, <1>11 DEF IInv, DataAgree, RequestsKnow

-----------------------------------------------------------------------------
\* Theorems

LEMMA EditStep ==
    ASSUME IInv, EditWrites
    PROVE  IInv'
  BY EditKeepsData, EditKeepsRequests DEF IInv, EditWrites

LEMMA IInvInit ==
    ASSUME Init
    PROVE  IInv
<1>1. PICK rate \in Rates : unit = [u \in Units |-> Unset(rate)]
  BY DEF Init
<1>2. Unset(rate) \in UnitType /\ Unset(rate).status = "NONE"
  BY DEF Unset, UnitType, UnitStatus
<1>3. \A u \in Units : unit[u].status = "NONE"
  BY <1>1, <1>2
<1>4. \A s \in Settlements : settlement[s].status = "NONE"
  BY DEF Init
<1>5. TypeOK
  <2>1. settlement \in [Settlements -> SettlementType]
    BY DEF Init, SettlementType
  <2>2. request \in [Tx -> RequestType]
    BY DEF Init, RequestType
  <2>3. edits \in 0..MaxEdits
    BY SettlementAssumption DEF Init
  <2>4. unit \in [Units -> UnitType] /\ link \in [Containers -> Units \cup {NoUnit}]
    BY <1>1, <1>2 DEF Init
  <2> QED
    BY <2>1, <2>2, <2>3, <2>4 DEF TypeOK
<1>6. DataAgree
  BY <1>3, <1>4 DEF DataAgree, GeneratedIsCurrent, OneInForce, InForceSettled, InForce,
     SettledIsPaid, SettledPayable
<1>7. RequestsKnow
  <2>1. \A t \in Tx : request[t].kind = "idle"
    BY DEF Init, Idle
  <2> QED
    BY <2>1 DEF RequestsKnow, SavesKnow, CompletesKnow, UnloadersKnow, UnitsKnow, GenerateKnows
<1> QED
  BY <1>5, <1>6, <1>7 DEF IInv

LEMMA IInvNext ==
    ASSUME IInv, GenerationAlone, [Next]_vars
    PROVE  IInv'
<1>1. CASE CreatePayContainer
  BY <1>1, CreateWrites, EditStep
<1>2. ASSUME NEW t \in Tx, ReadSave(t) \/ WriteSave(t) PROVE IInv'
  BY <1>2, ReadSaveStep, SaveWrites, EditStep
<1>3. ASSUME NEW t \in Tx, ReadComplete(t) \/ WriteComplete(t) PROVE IInv'
  BY <1>3, ReadCompleteStep, CompleteWrites, EditStep
<1>4. ASSUME NEW t \in Tx, ReadUnloaders(t) \/ WriteUnloaders(t) PROVE IInv'
  BY <1>4, ReadUnloadersStep, UnloadersWrites, EditStep
<1>5. ASSUME NEW t \in Tx, ReadCompleteUnit(t) \/ WriteCompleteUnit(t) PROVE IInv'
  BY <1>5, ReadCompleteUnitStep, CompleteUnitWrites, EditStep
<1>6. ASSUME NEW t \in Tx, ReadGenerate(t) \/ WriteGenerate(t) PROVE IInv'
  BY <1>6, ReadGenerateStep, WriteGenerateStep
<1>7. ASSUME NEW t \in Tx, WriteFiles(t) \/ Rollback(t) PROVE IInv'
  BY <1>7, WriteFilesStep, RollbackStep
<1>8. CASE UNCHANGED vars
  <2>1. unit' = unit /\ link' = link /\ settlement' = settlement /\ request' = request
        /\ edits' = edits
    BY <1>8 DEF vars, data
  <2>2. TypeOK' /\ DataAgree'
    BY <2>1, DataStays DEF IInv, TypeOK, data
  <2>3. RequestsKnow'
    BY <2>1 DEF IInv, RequestsKnow, SavesKnow, CompletesKnow, UnloadersKnow, UnitsKnow,
       GenerateKnows, InForce, LineOf, ContainersOf, Payable
  <2> QED
    BY <2>2, <2>3 DEF IInv
<1> QED
  BY <1>1, <1>2, <1>3, <1>4, <1>5, <1>6, <1>7, <1>8 DEF Next

LEMMA Invariance ==
    ASSUME GenerationAlone
    PROVE  Spec => []IInv
<1>1. Init => IInv
  BY IInvInit
<1>2. IInv /\ [Next]_vars => IInv'
  BY IInvNext
<1> QED
  BY <1>1, <1>2, PTL DEF Spec

\* The types of units, settlements and what requests have read.
THEOREM TypeCorrect ==
    ASSUME GenerationAlone
    PROVE  Spec => []TypeOK
<1>1. IInv => TypeOK
  BY DEF IInv
<1> QED
  BY <1>1, Invariance, PTL

\* A settlement in force shows what its units are now: whatever changes one of
\* them has the settlement reviewed, for any overlap of edits.
THEOREM SettlementsCurrent ==
    ASSUME GenerationAlone
    PROVE  Spec => []GeneratedIsCurrent
<1>1. IInv => GeneratedIsCurrent
  BY DEF IInv, DataAgree
<1> QED
  BY <1>1, Invariance, PTL

\* Every settled unit has a line in a settlement of its month that was not
\* superseded, also after the month was settled again.
THEOREM SettledPaid ==
    ASSUME GenerationAlone
    PROVE  Spec => []SettledIsPaid
<1>1. IInv => SettledIsPaid
  BY DEF IInv, DataAgree
<1> QED
  BY <1>1, Invariance, PTL

\* No container is in two lines of the settlements in force: its unit is one,
\* the unit's month is one, and a month has one settlement in force.
THEOREM PaidOnce ==
    ASSUME GenerationAlone
    PROVE  Spec => []NeverPaidTwice
<1>1. IInv => NeverPaidTwice
  <2> SUFFICES ASSUME IInv, NEW s1 \in Settlements, NEW s2 \in Settlements,
                      settlement[s1].status = "GENERATED", settlement[s2].status = "GENERATED",
                      NEW l1 \in settlement[s1].lines, NEW l2 \in settlement[s2].lines,
                      NEW c \in l1.containers \cap l2.containers
               PROVE  s1 = s2 /\ l1 = l2
    BY DEF NeverPaidTwice
  <2>1. /\ l1 = LineOf(l1.unit) /\ l1.month = settlement[s1].month
        /\ l2 = LineOf(l2.unit) /\ l2.month = settlement[s2].month
    BY DEF IInv, DataAgree, GeneratedIsCurrent
  <2>2. link[c] = l1.unit /\ link[c] = l2.unit
    BY <2>1 DEF LineOf, ContainersOf
  <2>3. l1 = l2
    BY <2>1, <2>2
  <2> QED
    BY <2>1, <2>3 DEF IInv, DataAgree, OneInForce
<1> QED
  BY <1>1, Invariance, PTL
-----------------------------------------------------------------------------
(***************************************************************************)
(* The shares.  Their sums are the library's, a fold whose recursive       *)
(* function chooses the next element.  That there is such a function, what *)
(* it adds and that the order does not matter are shown first; an          *)
(* induction looks at the smallest set, or the least number, for which the *)
(* claim would fail.                                                       *)
(***************************************************************************)

\* Of sets that are finite, one has no other as a subset.
LEMMA SmallestSet ==
    ASSUME NEW W, W # {}, \A s \in W : IsFiniteSet(s)
    PROVE  \E m \in W : \A s \in W : s \subseteq m => s = m
<1> DEFINE U == UNION W
           Less == StrictSubsetOrdering(U)
<1>1. IsWellFoundedOn(Less, FiniteSubsetsOf(U))
    BY FS_StrictSubsetOrderingWellFounded
<1>2. W \subseteq FiniteSubsetsOf(U)
    BY DEF FiniteSubsetsOf
<1> HIDE DEF Less
<1>3. PICK m \in W : \A s \in W : ~(<<s, m>> \in Less)
    BY <1>1, <1>2, WFMin
<1>4. ASSUME NEW s \in W, s \subseteq m, s # m PROVE FALSE
    BY <1>3, <1>4 DEF Less, StrictSubsetOrdering
<1> QED
    BY <1>3, <1>4

\* How a sum is computed: one element after the other, from some element on.
AnyOf(s) == CHOOSE x \in s : TRUE

Sums(g, f, S) ==
    g = [s \in SUBSET S |-> IF s = {} THEN 0 ELSE f[AnyOf(s)] + g[s \ {AnyOf(s)}]]

LEMMA SumByRecursion ==
    ASSUME NEW f, NEW S
    PROVE  SumFunctionOnSet(f, S) = (CHOOSE g : Sums(g, f, S))[S]
<1> QED
    BY DEF SumFunctionOnSet, FoldFunctionOnSet, MapThenFoldSet, Sums, AnyOf

\* two computations agree where both are defined
LEMMA SumsAgree ==
    ASSUME NEW f, NEW S, NEW T, NEW g, NEW h, Sums(g, f, S), Sums(h, f, T),
           NEW U, U \subseteq S, U \subseteq T, IsFiniteSet(U)
    PROVE  g[U] = h[U]
<1> SUFFICES ASSUME g[U] # h[U] PROVE FALSE
    OBVIOUS
<1> DEFINE W == {s \in SUBSET U : g[s] # h[s]}
<1>1. PICK m \in W : \A s \in W : s \subseteq m => s = m
  <2>1. W # {} /\ \A s \in W : IsFiniteSet(s)
      BY FS_Subset
  <2> HIDE DEF W
  <2> QED
      BY <2>1, SmallestSet
<1>2. m \in SUBSET S /\ m \in SUBSET T /\ g[m] # h[m]
    OBVIOUS
<1>3. /\ g[m] = IF m = {} THEN 0 ELSE f[AnyOf(m)] + g[m \ {AnyOf(m)}]
      /\ h[m] = IF m = {} THEN 0 ELSE f[AnyOf(m)] + h[m \ {AnyOf(m)}]
    BY <1>2 DEF Sums
<1>4. m # {} => AnyOf(m) \in m
    BY DEF AnyOf
<1>5. m # {} => m \ {AnyOf(m)} \notin W
    BY <1>1, <1>4
<1>6. m # {} => g[m \ {AnyOf(m)}] = h[m \ {AnyOf(m)}]
    BY <1>5
<1> QED
    BY <1>2, <1>3, <1>6

\* and there is one
LEMMA SumsExist ==
    ASSUME NEW f, NEW S, IsFiniteSet(S)
    PROVE  \E g : Sums(g, f, S)
<1> DEFINE G(S0) == CHOOSE g : Sums(g, f, S0)
           W == {s \in SUBSET S : ~ \E g : Sums(g, f, s)}
<1> SUFFICES ASSUME W # {} PROVE FALSE
    OBVIOUS
<1>1. PICK m \in W : \A s \in W : s \subseteq m => s = m
  <2>1. W # {} /\ \A s \in W : IsFiniteSet(s)
      BY FS_Subset
  <2> HIDE DEF W
  <2> QED
      BY <2>1, SmallestSet
<1>2. \A s \in SUBSET m : s # m => Sums(G(s), f, s) /\ IsFiniteSet(s)
  <2> SUFFICES ASSUME NEW s \in SUBSET m, s # m PROVE Sums(G(s), f, s) /\ IsFiniteSet(s)
      OBVIOUS
  <2>1. s \notin W /\ s \in SUBSET S
      BY <1>1
  <2>2. \E g : Sums(g, f, s)
      BY <2>1
  <2> QED
      BY <2>1, <2>2, FS_Subset
<1> DEFINE below(s) == s \ {AnyOf(s)}
           val(s) == IF s = {} THEN 0 ELSE f[AnyOf(s)] + G(below(s))[below(s)]
           g == [s \in SUBSET m |-> val(s)]
<1> HIDE DEF G, W
<1>3. \A s \in SUBSET m : s # {} => below(s) \in SUBSET m /\ below(s) # m
    BY DEF AnyOf
<1>4. ASSUME NEW s \in SUBSET m, s # m PROVE val(s) = G(s)[s]
  <2>1. Sums(G(s), f, s)
      BY <1>2, <1>4
  <2>2. G(s)[s] = IF s = {} THEN 0 ELSE f[AnyOf(s)] + G(s)[below(s)]
      BY <2>1 DEF Sums
  <2>3. CASE s = {}
      BY <2>2, <2>3
  <2>4. CASE s # {}
    <3>1. below(s) \in SUBSET m /\ below(s) # m /\ below(s) \subseteq s
        BY <1>3, <2>4
    <3>2. Sums(G(below(s)), f, below(s)) /\ IsFiniteSet(below(s))
        BY <1>2, <3>1
    <3>3. G(s)[below(s)] = G(below(s))[below(s)]
        BY <2>1, <3>1, <3>2, SumsAgree
    <3> QED
        BY <2>2, <2>4, <3>3
  <2> QED
      BY <2>3, <2>4
<1>5. ASSUME NEW s \in SUBSET m
      PROVE  val(s) = IF s = {} THEN 0 ELSE f[AnyOf(s)] + g[below(s)]
  <2>1. CASE s = {}
      BY <2>1
  <2>2. CASE s # {}
    <3>1. below(s) \in SUBSET m /\ below(s) # m
        BY <1>3, <2>2
    <3>2. g[below(s)] = G(below(s))[below(s)]
        BY <1>4, <3>1
    <3> QED
        BY <2>2, <3>2
  <2> QED
      BY <2>1, <2>2
<1>6. Sums(g, f, m)
    BY <1>5 DEF Sums
<1> QED
    BY <1>1, <1>6 DEF W

\* The sum of nothing is none, and one more element adds its value, whichever it is.
LEMMA SumOfNone ==
    ASSUME NEW f
    PROVE  SumFunctionOnSet(f, {}) = 0
<1>1. PICK g : Sums(g, f, {})
    BY FS_EmptySet, SumsExist
<1>2. Sums(CHOOSE h : Sums(h, f, {}), f, {})
    BY <1>1
<1> QED
    BY <1>2, SumByRecursion DEF Sums

LEMMA SumOfSome ==
    ASSUME NEW f, NEW S, IsFiniteSet(S), S # {}
    PROVE  SumFunctionOnSet(f, S) = f[AnyOf(S)] + SumFunctionOnSet(f, S \ {AnyOf(S)})
<1> DEFINE T == S \ {AnyOf(S)}
           g == CHOOSE h : Sums(h, f, S)
           k == CHOOSE h : Sums(h, f, T)
<1>1. IsFiniteSet(T)
    BY FS_Subset
<1>2. Sums(g, f, S) /\ Sums(k, f, T)
    BY <1>1, SumsExist
<1>3. SumFunctionOnSet(f, S) = g[S] /\ SumFunctionOnSet(f, T) = k[T]
    BY SumByRecursion
<1> HIDE DEF g, k
<1>4. g[T] = k[T]
    BY <1>1, <1>2, SumsAgree
<1>5. g[S] = f[AnyOf(S)] + g[T]
    BY <1>2 DEF Sums
<1> QED
    BY <1>3, <1>4, <1>5

LEMMA SumInt ==
    ASSUME NEW S, IsFiniteSet(S), NEW f, \A x \in S : f[x] \in Int
    PROVE  SumFunctionOnSet(f, S) \in Int
<1> DEFINE W == {s \in SUBSET S : SumFunctionOnSet(f, s) \notin Int}
<1> SUFFICES ASSUME W # {} PROVE FALSE
    OBVIOUS
<1>1. PICK m \in W : \A s \in W : s \subseteq m => s = m
  <2>1. W # {} /\ \A s \in W : IsFiniteSet(s)
      BY FS_Subset
  <2> HIDE DEF W
  <2> QED
      BY <2>1, SmallestSet
<1>2. m # {}
    BY SumOfNone
<1>3. AnyOf(m) \in m
    BY <1>2 DEF AnyOf
<1>4. SumFunctionOnSet(f, m \ {AnyOf(m)}) \in Int
    BY <1>1, <1>3
<1>5. SumFunctionOnSet(f, m) = f[AnyOf(m)] + SumFunctionOnSet(f, m \ {AnyOf(m)})
    BY <1>2, SumOfSome, FS_Subset
<1> QED
    BY <1>3, <1>4, <1>5

LEMMA SumStep ==
    ASSUME NEW S, IsFiniteSet(S), NEW f, \A x \in S : f[x] \in Int, NEW z \in S
    PROVE  SumFunctionOnSet(f, S) = f[z] + SumFunctionOnSet(f, S \ {z})
<1> DEFINE Sum(s) == SumFunctionOnSet(f, s)
           W == {s \in SUBSET S : \E x \in s : Sum(s) # f[x] + Sum(s \ {x})}
<1> SUFFICES ASSUME W # {} PROVE FALSE
    OBVIOUS
<1>1. PICK m \in W : \A s \in W : s \subseteq m => s = m
  <2>1. W # {} /\ \A s \in W : IsFiniteSet(s)
      BY FS_Subset
  <2> HIDE DEF W
  <2> QED
      BY <2>1, SmallestSet
<1>2. PICK x \in m : Sum(m) # f[x] + Sum(m \ {x})
    OBVIOUS
<1> DEFINE y == AnyOf(m)
<1>3. y \in m
    BY DEF AnyOf
<1>4. Sum(m) = f[y] + Sum(m \ {y})
    BY SumOfSome, FS_Subset
<1>5. x # y
    BY <1>2, <1>4
<1> HIDE DEF y
<1>6. m \ {x} \notin W /\ m \ {y} \notin W
    BY <1>1, <1>3
<1> DEFINE r == Sum((m \ {x}) \ {y})
<1>7. Sum(m \ {x}) = f[y] + r
    BY <1>3, <1>5, <1>6
<1>8. Sum(m \ {y}) = f[x] + r
  <2>1. (m \ {x}) \ {y} = (m \ {y}) \ {x}
      OBVIOUS
  <2> QED
      BY <1>3, <1>5, <1>6, <2>1
<1>9. r \in Int /\ f[x] \in Int /\ f[y] \in Int
  <2>1. (m \ {x}) \ {y} \in SUBSET S /\ IsFiniteSet((m \ {x}) \ {y})
      BY FS_Subset
  <2> QED
      BY <2>1, <1>3, SumInt
<1> HIDE DEF Sum, W, r
<1>10. f[x] + (f[y] + r) = f[y] + (f[x] + r)
    BY <1>9
<1> QED
    BY <1>2, <1>4, <1>7, <1>8, <1>10

LEMMA SumSame ==
    ASSUME NEW S, IsFiniteSet(S), NEW f, NEW g, \A x \in S : f[x] = g[x]
    PROVE  SumFunctionOnSet(f, S) = SumFunctionOnSet(g, S)
<1> DEFINE W == {s \in SUBSET S : SumFunctionOnSet(f, s) # SumFunctionOnSet(g, s)}
<1> SUFFICES ASSUME W # {} PROVE FALSE
    OBVIOUS
<1>1. PICK m \in W : \A s \in W : s \subseteq m => s = m
  <2>1. W # {} /\ \A s \in W : IsFiniteSet(s)
      BY FS_Subset
  <2> HIDE DEF W
  <2> QED
      BY <2>1, SmallestSet
<1>2. m # {}
    BY SumOfNone
<1>3. AnyOf(m) \in m
    BY <1>2 DEF AnyOf
<1>4. SumFunctionOnSet(f, m \ {AnyOf(m)}) = SumFunctionOnSet(g, m \ {AnyOf(m)})
    BY <1>1, <1>3
<1>5. /\ SumFunctionOnSet(f, m) = f[AnyOf(m)] + SumFunctionOnSet(f, m \ {AnyOf(m)})
      /\ SumFunctionOnSet(g, m) = g[AnyOf(m)] + SumFunctionOnSet(g, m \ {AnyOf(m)})
    BY <1>2, SumOfSome, FS_Subset
<1> QED
    BY <1>3, <1>4, <1>5

LEMMA SumOfZeros ==
    ASSUME NEW S, IsFiniteSet(S), NEW f, \A x \in S : f[x] = 0
    PROVE  SumFunctionOnSet(f, S) = 0
<1> DEFINE W == {s \in SUBSET S : SumFunctionOnSet(f, s) # 0}
<1> SUFFICES ASSUME W # {} PROVE FALSE
    OBVIOUS
<1>1. PICK m \in W : \A s \in W : s \subseteq m => s = m
  <2>1. W # {} /\ \A s \in W : IsFiniteSet(s)
      BY FS_Subset
  <2> HIDE DEF W
  <2> QED
      BY <2>1, SmallestSet
<1>2. m # {}
    BY SumOfNone
<1>3. AnyOf(m) \in m
    BY <1>2 DEF AnyOf
<1>4. SumFunctionOnSet(f, m \ {AnyOf(m)}) = 0
    BY <1>1, <1>3
<1>5. SumFunctionOnSet(f, m) = f[AnyOf(m)] + SumFunctionOnSet(f, m \ {AnyOf(m)})
    BY <1>2, SumOfSome, FS_Subset
<1> QED
    BY <1>3, <1>4, <1>5

LEMMA SumOfOne ==
    ASSUME NEW x, NEW f, f[x] \in Int
    PROVE  SumFunctionOnSet(f, {x}) = f[x]
<1>1. IsFiniteSet({x}) /\ {x} \ {x} = {}
    BY FS_Singleton
<1>2. SumFunctionOnSet(f, {x}) = f[x] + SumFunctionOnSet(f, {x} \ {x})
    BY <1>1, SumStep
<1> QED
    BY <1>1, <1>2, SumOfNone

\* What is added up by kind, and then over the kinds, is the sum of all.
SumOfKinds(g, h, S, T) == [t \in T |-> SumFunctionOnSet(g, {x \in S : h[x] = t})]

LEMMA SumByKind ==
    ASSUME NEW S, IsFiniteSet(S), NEW T, IsFiniteSet(T), NEW h \in [S -> T],
           NEW g \in [S -> Int]
    PROVE  SumFunctionOnSet(SumOfKinds(g, h, S, T), T) = SumFunctionOnSet(g, S)
<1> DEFINE Sum(f, s) == SumFunctionOnSet(f, s)
           kind(s, t) == {x \in s : h[x] = t}
           by(s) == [t \in T |-> Sum(g, kind(s, t))]
           W == {s \in SUBSET S : Sum(by(s), T) # Sum(g, s)}
<1> SUFFICES ASSUME W # {} PROVE FALSE
  <2>1. SumOfKinds(g, h, S, T) = by(S)
      BY DEF SumOfKinds
  <2> QED
      BY <2>1
<1>1. PICK m \in W : \A s \in W : s \subseteq m => s = m
  <2>1. W # {} /\ \A s \in W : IsFiniteSet(s)
      BY FS_Subset
  <2> HIDE DEF W
  <2> QED
      BY <2>1, SmallestSet
<1>2. \A s \in SUBSET S : /\ IsFiniteSet(s) /\ Sum(g, s) \in Int
                         /\ \A t \in T : /\ kind(s, t) \in SUBSET S
                                          /\ IsFiniteSet(kind(s, t))
                                          /\ Sum(g, kind(s, t)) \in Int
    BY FS_Subset, SumInt
<1>3. m # {}
  <2> SUFFICES ASSUME m = {} PROVE Sum(by({}), T) = Sum(g, {})
      BY <1>1
  <2>1. \A t \in T : kind({}, t) = {}
      OBVIOUS
  <2>2. \A t \in T : by({})[t] = 0
      BY <2>1, SumOfNone
  <2> HIDE DEF by
  <2>3. Sum(by({}), T) = 0
      BY <2>2, SumOfZeros
  <2> QED
      BY <2>3, SumOfNone
<1>4. PICK y \in m : TRUE
    BY <1>3
<1> DEFINE r == m \ {y}
           z == h[y]
<1>5. /\ r \in SUBSET S /\ r \subseteq m /\ r # m /\ m \in SUBSET S
      /\ y \in S /\ z \in T /\ g[y] \in Int
    BY <1>4
<1>6. Sum(by(r), T) = Sum(g, r)
    BY <1>1, <1>5
<1>7. Sum(g, m) = g[y] + Sum(g, r)
    BY <1>2, <1>4, <1>5, SumStep
<1>8. \A t \in T \ {z} : kind(m, t) = kind(r, t)
    OBVIOUS
<1>9. kind(m, z) \ {y} = kind(r, z) /\ y \in kind(m, z) /\ kind(m, z) \subseteq m
    BY <1>4
<1>10. Sum(g, kind(m, z)) = g[y] + Sum(g, kind(r, z))
    BY <1>2, <1>5, <1>9, SumStep
<1> HIDE DEF r, z, W, kind
<1>11. /\ \A t \in T \ {z} : by(m)[t] = by(r)[t]
       /\ by(m)[z] = g[y] + by(r)[z]
       /\ \A t \in T : by(m)[t] \in Int /\ by(r)[t] \in Int
    BY <1>2, <1>5, <1>8, <1>10
<1> HIDE DEF by
<1> DEFINE T1 == T \ {z}
<1>12. IsFiniteSet(T1) /\ T1 \subseteq T
    BY FS_Subset
<1>13. Sum(by(m), T) = by(m)[z] + Sum(by(m), T1)
    BY <1>5, <1>11, SumStep
<1>14. Sum(by(r), T) = by(r)[z] + Sum(by(r), T1)
    BY <1>5, <1>11, SumStep
<1>15. Sum(by(m), T1) = Sum(by(r), T1) /\ Sum(by(r), T1) \in Int
    BY <1>11, <1>12, SumSame, SumInt
<1>16. Sum(by(m), T) = Sum(g, m)
  <2>1. by(r)[z] \in Int /\ by(m)[z] = g[y] + by(r)[z]
      BY <1>5, <1>11
  <2> HIDE DEF Sum, T1
  <2> QED
      BY <1>5, <1>6, <1>7, <1>13, <1>14, <1>15, <2>1
<1> QED
    BY <1>1, <1>16 DEF W

LEMMA LeastOfNaturals ==
    ASSUME NEW S \in SUBSET Nat, S # {}
    PROVE  \E m \in S : \A k \in S : m <= k
<1> DEFINE Less == {ss \in Nat \X Nat : ss[1] < ss[2]}
<1>1. IsWellFoundedOn(Less, Nat)
  BY NatLessThanWellFounded DEF OpToRel
<1> HIDE DEF Less
<1>2. PICK m \in S : \A k \in S : ~(<<k, m>> \in Less)
  BY <1>1, WFMin
<1>3. \A k \in S : ~(k < m)
  BY <1>2 DEF Less
<1> QED
  BY <1>3

LEMMA SumUpTo ==
    ASSUME NEW k \in Nat \ {0}, NEW f, \A i \in 1..k : f[i] \in Int
    PROVE  /\ SumFunctionOnSet(f, 1..k) = SumFunctionOnSet(f, 1..(k - 1)) + f[k]
           /\ SumFunctionOnSet(f, 1..k) \in Int
           /\ SumFunctionOnSet(f, 1..(k - 1)) \in Int
<1>1. IsFiniteSet(1..k) /\ IsFiniteSet(1..(k - 1))
    BY FS_Interval
<1>2. (1..k) \ {k} = 1..(k - 1) /\ k \in 1..k
    OBVIOUS
<1>3. SumFunctionOnSet(f, 1..k) = f[k] + SumFunctionOnSet(f, (1..k) \ {k})
    BY <1>1, <1>2, SumStep
<1>4. SumFunctionOnSet(f, 1..k) \in Int
    BY <1>1, SumInt
<1>5. SumFunctionOnSet(f, 1..(k - 1)) \in Int
  <2>1. \A i \in 1..(k - 1) : f[i] \in Int
      OBVIOUS
  <2> QED
      BY <1>1, <2>1, SumInt
<1>6. f[k] \in Int
    OBVIOUS
<1> DEFINE a == SumFunctionOnSet(f, 1..k)
           b == SumFunctionOnSet(f, 1..(k - 1))
<1>7. a = f[k] + b /\ a \in Int /\ b \in Int
    BY <1>2, <1>3, <1>4, <1>5
<1> HIDE DEF a, b
<1>8. a = b + f[k]
    BY <1>6, <1>7
<1> QED
    BY <1>4, <1>5, <1>8 DEF a, b

LEMMA Division ==
    ASSUME NEW a \in Nat, NEW n \in Nat \ {0}
    PROVE  /\ a \div n \in Nat /\ a % n \in 0..(n - 1)
           /\ n * (a \div n) + (a % n) = a
  BY SMT

\* n equal shares: the first k of them
LEMMA EqualUpTo ==
    ASSUME NEW rate \in Nat, NEW n \in Nat \ {0}, NEW k \in 0..n
    PROVE  SumFunctionOnSet(EqualShares(rate, n), 1..k)
           = k * (rate \div n) + (IF k <= rate % n THEN k ELSE rate % n)
<1> DEFINE q == rate \div n
           r == rate % n
           f == EqualShares(rate, n)
           claim(j) == SumFunctionOnSet(f, 1..j) = j * q + (IF j <= r THEN j ELSE r)
           W == {j \in 0..n : ~claim(j)}
<1> SUFFICES ASSUME W # {} PROVE FALSE
    OBVIOUS
<1>1. PICK m \in W : \A j \in W : m <= j
  <2>1. W \subseteq Nat
      OBVIOUS
  <2> HIDE DEF W
  <2> QED
      BY <2>1, LeastOfNaturals
<1>2. q \in Nat /\ r \in 0..(n - 1)
    BY Division
<1>3. \A i \in 1..n : f[i] = q + (IF i <= r THEN 1 ELSE 0)
    BY DEF EqualShares
<1> HIDE DEF q, r, f
<1>4. m # 0
  <2>1. 1..0 = {}
      OBVIOUS
  <2>2. claim(0)
      BY <1>2, <2>1, SumOfNone
  <2> QED
      BY <2>2
<1>5. m - 1 \in 0..n /\ claim(m - 1)
    BY <1>1, <1>4
<1>6. SumFunctionOnSet(f, 1..m) = SumFunctionOnSet(f, 1..(m - 1)) + f[m]
  <2>1. m \in Nat \ {0} /\ \A i \in 1..m : f[i] \in Int
      BY <1>2, <1>3, <1>4
  <2> QED
      BY <2>1, SumUpTo
<1>7. m * q = (m - 1) * q + q
    BY <1>2, SMT
<1>8. f[m] = q + (IF m <= r THEN 1 ELSE 0)
    BY <1>3, <1>4
<1> DEFINE a == m * q
           b == (m - 1) * q
<1>9. a = b + q /\ a \in Int /\ b \in Int
    BY <1>2, <1>7
<1>10. SumFunctionOnSet(f, 1..m) = b + (IF m - 1 <= r THEN m - 1 ELSE r) + f[m]
    BY <1>5, <1>6
<1> HIDE DEF a, b
<1>11. SumFunctionOnSet(f, 1..m) = a + (IF m <= r THEN m ELSE r)
    BY <1>2, <1>8, <1>9, <1>10
<1> QED
    BY <1>11 DEF a

LEMMA EqualSharesAddUp ==
    ASSUME NEW rate \in Nat, NEW n \in Nat \ {0}
    PROVE  SharesTotal(EqualShares(rate, n)) = rate
<1>1. rate % n \in 0..(n - 1) /\ n * (rate \div n) + (rate % n) = rate
    BY Division
<1>2. DOMAIN EqualShares(rate, n) = 1..n
    BY DEF EqualShares
<1>3. SumFunctionOnSet(EqualShares(rate, n), 1..n)
      = n * (rate \div n) + (IF n <= rate % n THEN n ELSE rate % n)
  <2>1. n \in 0..n
      OBVIOUS
  <2> QED
      BY <2>1, EqualUpTo
<1> QED
    BY <1>1, <1>2, <1>3 DEF SharesTotal, SumFunction

\* A pay container as the database keeps it: a rate in cents, its unloaders in order,
\* and, if they are not to share equally, an amount or a percentage for each.
Paid(p) ==
    /\ p.rate \in Nat
    /\ p.method \in {"EQUAL_SPLIT", "MANUAL_AMOUNT", "MANUAL_PERCENT"}
    /\ Len(p.team) \in Nat /\ DOMAIN p.team = 1..Len(p.team)
    /\ p.method # "EQUAL_SPLIT" => p.given \in Seq(Int) /\ Len(p.given) = Len(p.team)

\* rounding misses a percentage by half a cent at most
LEMMA ProductInt ==
    ASSUME NEW a \in Int, NEW b \in Int
    PROVE  a * b \in Int
  BY SMT

LEMMA PercentBounds ==
    ASSUME NEW rate \in Nat, NEW percent \in Int
    PROVE  /\ PercentOf(rate, percent) \in Int
           /\ rate * percent \in Int
           /\ 100 * Percent * PercentOf(rate, percent) - rate * percent <= 50 * Percent
           /\ rate * percent - 100 * Percent * PercentOf(rate, percent) <= 50 * Percent
<1> DEFINE v == rate * percent
<1>1. v \in Int
    BY ProductInt
<1>2. PercentOf(rate, percent) = (v + 500000) \div 1000000
    BY SMT DEF PercentOf, Percent
<1> HIDE DEF v
<1> DEFINE q == PercentOf(rate, percent)
<1>3. q \in Int /\ 1000000 * q <= v + 500000 /\ v + 500000 < 1000000 * q + 1000000
    BY SMT, <1>1, <1>2
<1> HIDE DEF q
<1>4. q \in Int /\ 1000000 * q - v <= 500000 /\ v - 1000000 * q <= 500000
    BY SMT, <1>1, <1>3
<1> QED
    BY SMT, <1>1, <1>4 DEF q, v, Percent

Rounded(rate, percents) == [i \in 1..(Len(percents) - 1) |-> PercentOf(rate, percents[i])]

\* If c * f[i] is never more than h away from d * g[i], the sums of k of them are not more
\* than k times that away.
LEMMA SumsApart ==
    ASSUME NEW c \in Int, NEW d \in Int, NEW h \in Int, NEW k \in Nat,
           NEW f, NEW g, \A i \in 1..k : f[i] \in Int /\ g[i] \in Int,
           \A i \in 1..k : c * f[i] - d * g[i] <= h /\ d * g[i] - c * f[i] <= h
    PROVE  /\ SumFunctionOnSet(f, 1..k) \in Int /\ SumFunctionOnSet(g, 1..k) \in Int
           /\ c * SumFunctionOnSet(f, 1..k) - d * SumFunctionOnSet(g, 1..k) <= h * k
           /\ d * SumFunctionOnSet(g, 1..k) - c * SumFunctionOnSet(f, 1..k) <= h * k
<1> DEFINE a(j) == SumFunctionOnSet(f, 1..j)
           b(j) == SumFunctionOnSet(g, 1..j)
           claim(j) == c * a(j) - d * b(j) <= h * j /\ d * b(j) - c * a(j) <= h * j
           W == {j \in 0..k : ~claim(j)}
<1>1. \A j \in 0..k : a(j) \in Int /\ b(j) \in Int
  <2> SUFFICES ASSUME NEW j \in 0..k PROVE a(j) \in Int /\ b(j) \in Int
      OBVIOUS
  <2>1. IsFiniteSet(1..j)
      BY FS_Interval
  <2>2. \A i \in 1..j : f[i] \in Int /\ g[i] \in Int
      OBVIOUS
  <2> QED
      BY <2>1, <2>2, SumInt
<1>2. W = {}
  <2> SUFFICES ASSUME W # {} PROVE FALSE
      OBVIOUS
  <2>1. PICK m \in W : \A j \in W : m <= j
    <3>1. W \subseteq Nat
        OBVIOUS
    <3> HIDE DEF W
    <3> QED
        BY <3>1, LeastOfNaturals
  <2>2. m # 0
    <3>1. 1..0 = {}
        OBVIOUS
    <3>2. a(0) = 0 /\ b(0) = 0
        BY <3>1, SumOfNone
    <3> QED
        BY <2>1, <3>2
  <2>3. m - 1 \in 0..k /\ claim(m - 1) /\ m \in 1..k /\ m \in Nat \ {0}
      BY <2>1, <2>2
  <2>4. a(m) = a(m - 1) + f[m] /\ b(m) = b(m - 1) + g[m]
    <3>1. \A i \in 1..m : f[i] \in Int /\ g[i] \in Int
        BY <2>3
    <3> QED
        BY <2>3, <3>1, SumUpTo
  <2> DEFINE x == f[m]  y == g[m]  u == a(m - 1)  v == b(m - 1)
  <2>5. /\ x \in Int /\ y \in Int /\ u \in Int /\ v \in Int
        /\ c * x - d * y <= h /\ d * y - c * x <= h
        /\ c * u - d * v <= h * (m - 1) /\ d * v - c * u <= h * (m - 1)
      BY <1>1, <2>3
  <2>6. ~(c * (u + x) - d * (v + y) <= h * m /\ d * (v + y) - c * (u + x) <= h * m)
      BY <2>1, <2>4
  <2> HIDE DEF x, y, u, v
  <2>7. /\ c * (u + x) = c * u + c * x /\ c * u \in Int /\ c * x \in Int
        /\ d * (v + y) = d * v + d * y /\ d * v \in Int /\ d * y \in Int
        /\ h * m = h * (m - 1) + h /\ h * (m - 1) \in Int
      BY <2>3, <2>5, SMT
  <2> QED
      BY <2>5, <2>6, <2>7
<1>3. k \in 0..k
    OBVIOUS
<1>4. a(k) \in Int /\ b(k) \in Int
    BY <1>1, <1>3
<1> HIDE DEF claim
<1>5. claim(k)
    BY <1>2, <1>3
<1> QED
    BY <1>4, <1>5 DEF claim

\* the shares by percentages: their total, and the last one
LEMMA PercentSharesAre ==
    ASSUME NEW rate \in Nat, NEW percents \in Seq(Int), PercentShares(rate, percents) # <<>>
    PROVE  LET n == Len(percents)
               f == Rounded(rate, percents)
               s == PercentShares(rate, percents)
           IN  /\ n \in Nat \ {0} /\ s \in Seq(Int) /\ Len(s) = n
               /\ \A i \in 1..(n - 1) : s[i] = PercentOf(rate, percents[i])
               /\ s[n] = rate - SumFunctionOnSet(f, 1..(n - 1))
               /\ SumFunctionOnSet(f, 1..(n - 1)) \in Int
               /\ SumFunctionOnSet(percents, 1..n) = 100 * Percent
               /\ SharesTotal(s) = rate
<1> DEFINE n == Len(percents)
           f == Rounded(rate, percents)
           s == PercentShares(rate, percents)
           rest == SumFunctionOnSet(f, 1..(n - 1))
<1>1. /\ SharesTotal(percents) = 100 * Percent
      /\ s = Append(f, rate - SharesTotal(f))
  <2>1. s = IF SharesTotal(percents) = 100 * Percent
            THEN Append(f, rate - SharesTotal(f)) ELSE <<>>
      BY DEF PercentShares, Rounded
  <2> HIDE DEF s, f
  <2> QED
      BY <2>1 DEF s
<1>2. SumFunctionOnSet(percents, 1..n) = 100 * Percent
    BY <1>1 DEF SharesTotal, SumFunction
<1>3. n \in Nat \ {0}
  <2> SUFFICES ASSUME n = 0 PROVE FALSE
      OBVIOUS
  <2>1. 1..n = {}
      OBVIOUS
  <2> QED
      BY <1>2, <2>1, SumOfNone DEF Percent
<1>4. /\ DOMAIN f = 1..(n - 1)
      /\ \A i \in 1..(n - 1) : f[i] = PercentOf(rate, percents[i]) /\ f[i] \in Int
  <2>1. \A i \in 1..(n - 1) : percents[i] \in Int
      OBVIOUS
  <2>2. ASSUME NEW i \in 1..(n - 1) PROVE PercentOf(rate, percents[i]) \in Int
    <3> DEFINE y == percents[i]
    <3>1. y \in Int
        BY <2>1
    <3> HIDE DEF y
    <3>2. PercentOf(rate, y) \in Int
        BY <3>1, PercentBounds
    <3> QED
        BY <3>2 DEF y
  <2> QED
      BY <2>2 DEF Rounded
<1>5. f \in Seq(Int) /\ Len(f) = n - 1
  <2>1. f \in [1..(n - 1) -> Int] /\ n - 1 \in Nat
      BY <1>3, <1>4 DEF Rounded
  <2> QED
      BY <2>1
<1>6. SharesTotal(f) = rest
    BY <1>4 DEF SharesTotal, SumFunction
<1>7. IsFiniteSet(1..(n - 1)) /\ rest \in Int
  <2>1. IsFiniteSet(1..(n - 1))
      BY <1>3, FS_Interval
  <2>2. \A i \in 1..(n - 1) : f[i] \in Int
      BY <1>4
  <2> QED
      BY <2>1, <2>2, SumInt
<1> HIDE DEF s, f, n, rest
<1>8. s \in Seq(Int) /\ Len(s) = n /\ s[n] = rate - rest
    BY <1>1, <1>3, <1>5, <1>6, <1>7
<1>9. \A i \in 1..(n - 1) : s[i] = f[i]
    BY <1>1, <1>3, <1>5, <1>6, <1>7
<1>10. SumFunctionOnSet(s, 1..n) = SumFunctionOnSet(s, 1..(n - 1)) + s[n]
  <2>1. \A i \in 1..n : s[i] \in Int
      BY <1>8
  <2> QED
      BY <1>3, <2>1, SumUpTo
<1>11. SumFunctionOnSet(s, 1..(n - 1)) = SumFunctionOnSet(f, 1..(n - 1))
    BY <1>7, <1>9, SumSame
<1>12. SharesTotal(s) = rate
  <2>1. DOMAIN s = 1..n
      BY <1>8
  <2>2. SharesTotal(s) = rest + (rate - rest)
      BY <2>1, <1>8, <1>10, <1>11 DEF SharesTotal, SumFunction, rest
  <2> QED
      BY <2>2, <1>7
<1> QED
    BY <1>2, <1>3, <1>4, <1>7, <1>8, <1>9, <1>12 DEF s, f, n, rest

\* the shares that are accepted, whatever the method
LEMMA SharesAre ==
    ASSUME NEW p, Paid(p), Shares(p) # <<>>
    PROVE  /\ Shares(p) \in Seq(Int)
           /\ Len(Shares(p)) = Len(p.team) /\ Len(p.team) \in Nat \ {0}
           /\ SharesTotal(Shares(p)) = p.rate
<1> DEFINE n == Len(p.team)
           s == Shares(p)
<1>1. p.rate \in Nat /\ n \in Nat
    BY DEF Paid
<1>2. CASE p.method = "MANUAL_AMOUNT"
  <2>1. s = AmountShares(p.rate, p.given) /\ p.given \in Seq(Int) /\ Len(p.given) = n
      BY <1>2 DEF Shares, Paid
  <2>2. s = p.given /\ SharesTotal(s) = p.rate
      BY <2>1 DEF AmountShares
  <2>3. n # 0
      BY <2>1, <2>2
  <2> QED
      BY <1>1, <2>1, <2>2, <2>3
<1>3. CASE p.method = "MANUAL_PERCENT"
  <2>1. s = PercentShares(p.rate, p.given) /\ p.given \in Seq(Int) /\ Len(p.given) = n
      BY <1>3 DEF Shares, Paid
  <2> QED
      BY <1>1, <2>1, PercentSharesAre
<1>4. CASE p.method = "EQUAL_SPLIT"
  <2>1. s = EqualShares(p.rate, n)
      BY <1>4 DEF Shares
  <2>2. n # 0
      BY <2>1 DEF EqualShares
  <2>3. s \in [1..n -> Int]
    <3>1. p.rate \div n \in Int
        BY <1>1, <2>2, Division
    <3> QED
        BY <2>1, <3>1 DEF EqualShares
  <2>4. SharesTotal(s) = p.rate
      BY <1>1, <2>1, <2>2, EqualSharesAddUp
  <2> HIDE DEF s
  <2>5. s \in Seq(Int) /\ Len(s) = n
      BY <1>1, <2>3
  <2> QED
      BY <1>1, <2>2, <2>4, <2>5 DEF s
<1> QED
    BY <1>2, <1>3, <1>4 DEF Paid

\* allocations: whatever the method, the amounts that are accepted are one for each
\* unloader and add up to the rate, and equal shares (equalAllocations) are at most a cent
\* apart.  Amounts and percentages are any integers, negative ones too.
THEOREM SharesExact ==
    ASSUME NEW pays, \A p \in pays : Paid(p)
    PROVE  SharesAddUp(pays)
<1> SUFFICES ASSUME NEW p \in Accepted(pays)
             PROVE  /\ Len(Shares(p)) = Len(p.team)
                    /\ SharesTotal(Shares(p)) = p.rate
                    /\ p.method = "EQUAL_SPLIT" =>
                          \A i, j \in DOMAIN p.team : Shares(p)[i] - Shares(p)[j] \in -1..1
    BY DEF SharesAddUp
<1>1. Paid(p) /\ Shares(p) # <<>>
    BY DEF Accepted
<1>2. ASSUME p.method = "EQUAL_SPLIT", NEW i \in DOMAIN p.team, NEW j \in DOMAIN p.team
      PROVE  Shares(p)[i] - Shares(p)[j] \in -1..1
  <2>1. Shares(p) = EqualShares(p.rate, Len(p.team)) /\ DOMAIN p.team = 1..Len(p.team)
      BY <1>1, <1>2 DEF Shares, Paid
  <2>2. p.rate \div Len(p.team) \in Int
    <3> DEFINE rate == p.rate
               n == Len(p.team)
    <3>1. rate \in Nat /\ n \in Nat \ {0}
        BY <1>1, SharesAre DEF Paid
    <3> HIDE DEF rate, n
    <3>2. rate \div n \in Nat
        BY <3>1, Division
    <3> QED
        BY <3>2 DEF rate, n
  <2> QED
      BY <1>2, <2>1, <2>2 DEF EqualShares
<1> QED
    BY <1>1, <1>2, SharesAre

\* percentAllocations: every share but the last is its percentage to within half a cent,
\* and the last is off by half a cent for each of the others at most.
THEOREM PercentagesAreMet ==
    ASSUME NEW pays, \A p \in pays : Paid(p)
    PROVE  PercentagesMet(pays)
<1> DEFINE whole == 100 * Percent
           half == 50 * Percent
<1> SUFFICES ASSUME NEW p \in Accepted(pays), p.method = "MANUAL_PERCENT",
                    NEW i \in DOMAIN p.team
             PROVE  LET off   == whole * Shares(p)[i] - p.rate * p.given[i]
                        bears == half * (IF i = Len(p.team) THEN i - 1 ELSE 1)
                    IN  -bears <= off /\ off <= bears
    BY DEF PercentagesMet
<1> DEFINE rate == p.rate
           given == p.given
           n == Len(given)
           s == Shares(p)
           f == Rounded(rate, given)
           sums == SumFunctionOnSet(f, 1..(n - 1))
           parts == SumFunctionOnSet(given, 1..(n - 1))
<1>1. /\ rate \in Nat /\ given \in Seq(Int) /\ Len(p.team) = n /\ i \in 1..n
      /\ s = PercentShares(rate, given) /\ s # <<>>
    BY DEF Accepted, Paid, Shares
<1>2. whole \in Int /\ half \in Int
    BY DEF Percent
<1> HIDE DEF s, given, rate
<1>3. /\ n \in Nat \ {0}
      /\ \A j \in 1..(n - 1) : s[j] = PercentOf(rate, given[j])
      /\ s[n] = rate - sums /\ sums \in Int
      /\ SumFunctionOnSet(given, 1..n) = whole
    BY <1>1, PercentSharesAre
<1>4. \A j \in 1..n : given[j] \in Int
    BY <1>1
<1> HIDE DEF n, whole, half, f
<1>5. \A j \in 1..(n - 1) :
          /\ f[j] = PercentOf(rate, given[j]) /\ f[j] \in Int /\ given[j] \in Int
          /\ whole * f[j] - rate * given[j] <= half
          /\ rate * given[j] - whole * f[j] <= half
  <2> SUFFICES ASSUME NEW j \in 1..(n - 1)
               PROVE  /\ f[j] = PercentOf(rate, given[j]) /\ f[j] \in Int /\ given[j] \in Int
                      /\ whole * f[j] - rate * given[j] <= half
                      /\ rate * given[j] - whole * f[j] <= half
      OBVIOUS
  <2>1. given[j] \in Int
      BY <1>3, <1>4
  <2> DEFINE x == f[j]
             y == given[j]
  <2>2. x = PercentOf(rate, y)
      BY DEF f, Rounded, n
  <2> HIDE DEF x, y
  <2>3. /\ PercentOf(rate, y) \in Int
        /\ whole * PercentOf(rate, y) - rate * y <= half
        /\ rate * y - whole * PercentOf(rate, y) <= half
      BY <1>1, <2>1, PercentBounds DEF y, whole, half
  <2>4. /\ x \in Int /\ whole * x - rate * y <= half /\ rate * y - whole * x <= half
      BY <2>2, <2>3
  <2> QED
      BY <2>1, <2>2, <2>4 DEF x, y
<1>6. CASE i < n
  <2>1. /\ s[i] = f[i] /\ f[i] \in Int /\ given[i] \in Int
        /\ whole * f[i] - rate * given[i] <= half
        /\ rate * given[i] - whole * f[i] <= half
      BY <1>1, <1>3, <1>5, <1>6
  <2>2. whole * f[i] \in Int /\ rate * given[i] \in Int
    <3>1. f[i] \in Int /\ given[i] \in Int /\ rate \in Int
        BY <1>1, <2>1
    <3> QED
        BY <1>2, <3>1, ProductInt
  <2>3. -half <= whole * s[i] - rate * given[i] /\ whole * s[i] - rate * given[i] <= half
      BY <1>2, <2>1, <2>2
  <2> QED
      BY <1>1, <1>2, <1>3, <1>6, <2>3 DEF s, given, rate
<1>7. CASE i = n
  <2>1. /\ parts \in Int /\ sums \in Int
        /\ whole * sums - rate * parts <= half * (n - 1)
        /\ rate * parts - whole * sums <= half * (n - 1)
    <3> DEFINE k == n - 1
    <3>1. k \in Nat /\ rate \in Int
        BY <1>1, <1>3
    <3>2. \A j \in 1..k : f[j] \in Int /\ given[j] \in Int
        BY <1>5
    <3>3. \A j \in 1..k : whole * f[j] - rate * given[j] <= half
                         /\ rate * given[j] - whole * f[j] <= half
        BY <1>5
    <3> HIDE DEF k
    <3>4. /\ SumFunctionOnSet(f, 1..k) \in Int /\ SumFunctionOnSet(given, 1..k) \in Int
          /\ whole * SumFunctionOnSet(f, 1..k) - rate * SumFunctionOnSet(given, 1..k)
             <= half * k
          /\ rate * SumFunctionOnSet(given, 1..k) - whole * SumFunctionOnSet(f, 1..k)
             <= half * k
        BY <1>2, <3>1, <3>2, <3>3, SumsApart
    <3> QED
        BY <3>4 DEF k
  <2>2. given[n] = whole - parts
    <3>1. \A j \in 1..n : given[j] \in Int
        BY <1>4
    <3>2. SumFunctionOnSet(given, 1..n) = parts + given[n]
        BY <1>3, <3>1, SumUpTo
    <3>3. given[n] \in Int
        BY <1>3, <3>1
    <3> HIDE DEF parts
    <3> QED
        BY <1>2, <1>3, <2>1, <3>2, <3>3
  <2> HIDE DEF sums, parts
  <2>3. /\ rate * (whole - parts) = whole * rate - rate * parts
        /\ whole * (rate - sums) = whole * rate - whole * sums
        /\ rate * parts \in Int /\ whole * sums \in Int /\ whole * rate \in Int
        /\ half * (n - 1) \in Int
      BY <1>1, <1>2, <1>3, <2>1, SMT
  <2>4. whole * s[n] - rate * given[n] = rate * parts - whole * sums
      BY <1>3, <2>2, <2>3
  <2>5. /\ -(half * (n - 1)) <= whole * s[n] - rate * given[n]
        /\ whole * s[n] - rate * given[n] <= half * (n - 1)
      BY <2>1, <2>3, <2>4
  <2> QED
      BY <1>1, <1>7, <2>5 DEF s, given, rate
<1> QED
    BY <1>1, <1>6, <1>7

\* Renaming what is added up changes nothing.
LEMMA SumRenamed ==
    ASSUME NEW S, IsFiniteSet(S), NEW T, NEW b \in Bijection(S, T),
           NEW f \in [S -> Int], NEW g, \A x \in S : g[b[x]] = f[x]
    PROVE  SumFunctionOnSet(g, T) = SumFunctionOnSet(f, S)
<1>1. IsFiniteSet(T)
    BY FS_Surjection DEF Bijection
<1>2. /\ b \in [S -> T]
      /\ \A x, y \in S : b[x] = b[y] => x = y
      /\ \A t \in T : \E x \in S : b[x] = t
    BY DEF Bijection, Injection, Surjection, IsInjective
<1> DEFINE by == SumOfKinds(f, b, S, T)
<1>3. SumFunctionOnSet(by, T) = SumFunctionOnSet(f, S)
    BY <1>1, <1>2, SumByKind
<1>4. ASSUME NEW t \in T PROVE by[t] = g[t]
  <2>1. PICK x \in S : b[x] = t
      BY <1>2
  <2>2. {y \in S : b[y] = t} = {x}
      BY <1>2, <2>1
  <2>3. SumFunctionOnSet(f, {x}) = f[x]
      BY SumOfOne
  <2> QED
      BY <2>1, <2>2, <2>3 DEF SumOfKinds
<1> HIDE DEF by
<1>5. SumFunctionOnSet(by, T) = SumFunctionOnSet(g, T)
    BY <1>1, <1>4, SumSame
<1> QED
    BY <1>3, <1>5

PartsOf(p, g, S) == [x \in S |-> g[<<p, x>>]]

\* P are the parts D[p] of each p, and their values in g add up to what p is worth.
PartsAddUp(A, D, P, g, worth) ==
    /\ P = UNION {{p} \X D[p] : p \in A}
    /\ \A p \in A : /\ IsFiniteSet(D[p])
                    /\ SumFunctionOnSet(PartsOf(p, g, D[p]), D[p]) = worth[p]

\* The parts of everything in A may be added up by worker: it is what A is worth.
LEMMA PartsPaid ==
    ASSUME NEW A, IsFiniteSet(A), NEW D, NEW P, NEW g \in [P -> Int], NEW rate,
           PartsAddUp(A, D, P, g, rate),
           NEW W, IsFiniteSet(W), NEW h \in [P -> W]
    PROVE  /\ IsFiniteSet(P)
           /\ SumFunctionOnSet(SumOfKinds(g, h, P, W), W) = SumFunctionOnSet(rate, A)
<1> USE DEF PartsAddUp
<1>1. \A q \in P : q[1] \in A /\ q[2] \in D[q[1]] /\ q = <<q[1], q[2]>>
    OBVIOUS
<1>2. \A p \in A : \A x \in D[p] : <<p, x>> \in P
    OBVIOUS
<1>3. IsFiniteSet(P)
  <2> DEFINE F == [p \in A |-> {p} \X D[p]]
             R == {{p} \X D[p] : p \in A}
  <2>1. F \in Surjection(A, R)
      BY DEF Surjection
  <2>2. IsFiniteSet(R)
      BY <2>1, FS_Surjection
  <2>3. \A r \in R : IsFiniteSet(r)
    <3> SUFFICES ASSUME NEW p \in A PROVE IsFiniteSet({p} \X D[p])
        OBVIOUS
    <3>1. IsFiniteSet({p}) /\ IsFiniteSet(D[p])
        BY FS_Singleton
    <3> QED
        BY <3>1, FS_Product
  <2> HIDE DEF R
  <2>4. IsFiniteSet(UNION R)
      BY <2>2, <2>3, FS_UNION
  <2> QED
      BY <2>4 DEF R
<1>4. SumFunctionOnSet(SumOfKinds(g, h, P, W), W) = SumFunctionOnSet(g, P)
    BY <1>3, SumByKind
<1> DEFINE of == [q \in P |-> q[1]]
           by == SumOfKinds(g, of, P, A)
<1>5. SumFunctionOnSet(by, A) = SumFunctionOnSet(g, P)
  <2>1. of \in [P -> A]
      BY <1>1
  <2> HIDE DEF of, by
  <2>2. SumFunctionOnSet(SumOfKinds(g, of, P, A), A) = SumFunctionOnSet(g, P)
      BY <1>3, <2>1, SumByKind
  <2> QED
      BY <2>2 DEF by
<1>6. ASSUME NEW p \in A PROVE by[p] = rate[p]
  <2> DEFINE S == D[p]
             T == {q \in P : of[q] = p}
             b == [x \in S |-> <<p, x>>]
             f == PartsOf(p, g, S)
  <2>1. b \in Bijection(S, T)
    <3>1. \A t \in T : t = <<p, t[2]>> /\ t[2] \in S
        BY <1>1
    <3>2. \A x \in S : <<p, x>> \in T
        BY <1>2
    <3>3. \A x, y : <<p, x>> = <<p, y>> => x = y
        OBVIOUS
    <3> HIDE DEF S, T
    <3>4. b \in [S -> T] /\ \A t \in T : \E x \in S : b[x] = t
        BY <3>1, <3>2
    <3>5. \A x, y \in S : b[x] = b[y] => x = y
        BY <3>3
    <3> QED
        BY <3>4, <3>5 DEF Bijection, Injection, Surjection, IsInjective
  <2>2. /\ IsFiniteSet(S) /\ f \in [S -> Int]
        /\ \A x \in S : g[b[x]] = f[x]
      BY <1>2 DEF PartsOf
  <2>3. SumFunctionOnSet(f, S) = rate[p]
      OBVIOUS
  <2> HIDE DEF S, T, b, f
  <2>4. SumFunctionOnSet(g, T) = SumFunctionOnSet(f, S)
      BY <2>1, <2>2, SumRenamed
  <2> QED
      BY <2>3, <2>4 DEF T, SumOfKinds
<1> HIDE DEF by
<1>7. SumFunctionOnSet(by, A) = SumFunctionOnSet(rate, A)
    BY <1>6, SumSame
<1> QED
    BY <1>3, <1>4, <1>5, <1>7

\* workerTotals: the totals of the workers add up to the rates of the accepted pay
\* containers, also when a worker unloads many of them.
THEOREM MonthPaidOut ==
    ASSUME NEW pays, IsFiniteSet(pays), \A p \in pays : Paid(p),
           NEW workers, IsFiniteSet(workers),
           \A p \in pays : \A i \in DOMAIN p.team : p.team[i] \in workers
    PROVE  MonthIsPaidOut(pays, workers)
<1> DEFINE A == Accepted(pays)
           P == Parts(pays)
           D == [p \in A |-> DOMAIN p.team]
           g == [q \in P |-> Shares(q[1])[q[2]]]
           h == [q \in P |-> q[1].team[q[2]]]
           rate == [p \in A |-> p.rate]
<1>1. IsFiniteSet(A) /\ \A p \in A : p \in pays /\ Paid(p) /\ Shares(p) # <<>>
    BY FS_Subset DEF Accepted
<1>2. ASSUME NEW p \in A
      PROVE  /\ D[p] = 1..Len(p.team) /\ Len(p.team) \in Nat
             /\ Shares(p) \in Seq(Int) /\ Len(Shares(p)) = Len(p.team)
             /\ SharesTotal(Shares(p)) = p.rate
  <2>1. Paid(p) /\ Shares(p) # <<>>
      BY <1>1
  <2>2. D[p] = 1..Len(p.team)
      BY <2>1 DEF Paid
  <2> QED
      BY <2>1, <2>2, SharesAre
<1>3. P = UNION {{p} \X D[p] : p \in A}
    BY DEF Parts
<1>4. \A q \in P : q[1] \in A /\ q[2] \in D[q[1]]
    BY <1>3
<1>5. \A p \in A : \A x \in D[p] : <<p, x>> \in P
    BY <1>3
<1>6. \A p \in A : IsFiniteSet(D[p])
    BY <1>2, FS_Interval
<1>7. g \in [P -> Int]
  <2> SUFFICES ASSUME NEW q \in P PROVE Shares(q[1])[q[2]] \in Int
      OBVIOUS
  <2> DEFINE p == q[1]  i == q[2]
  <2>1. p \in A /\ i \in D[p]
      BY <1>4
  <2> HIDE DEF p, i
  <2>2. Shares(p)[i] \in Int
      BY <1>2, <2>1
  <2> QED
      BY <2>2 DEF p, i
<1>8. h \in [P -> workers]
    BY <1>1, <1>4
<1>9. ASSUME NEW p \in A
      PROVE  SumFunctionOnSet(PartsOf(p, g, D[p]), D[p]) = rate[p]
  <2> DEFINE S == D[p]
             s == Shares(p)
             f == PartsOf(p, g, S)
  <2>1. IsFiniteSet(S) /\ \A x \in S : f[x] = s[x]
      BY <1>5, <1>6 DEF PartsOf
  <2>2. DOMAIN s = S
      BY <1>2
  <2>3. SumFunctionOnSet(s, S) = p.rate
      BY <1>2, <2>2 DEF SharesTotal, SumFunction
  <2> HIDE DEF S, s, f
  <2>4. SumFunctionOnSet(f, S) = SumFunctionOnSet(s, S)
      BY <2>1, SumSame
  <2> QED
      BY <2>3, <2>4 DEF f, S
<1> DEFINE by == SumOfKinds(g, h, P, workers)
<1>10. IsFiniteSet(P) /\ SumFunctionOnSet(by, workers) = SumFunctionOnSet(rate, A)
  <2>1. PartsAddUp(A, D, P, g, rate)
      BY <1>3, <1>6, <1>9 DEF PartsAddUp
  <2> HIDE DEF A, P, D, g, h, rate
  <2>2. /\ IsFiniteSet(P)
        /\ SumFunctionOnSet(SumOfKinds(g, h, P, workers), workers) = SumFunctionOnSet(rate, A)
      BY <1>1, <1>7, <1>8, <2>1, PartsPaid
  <2> QED
      BY <2>2
<1>11. ASSUME NEW w \in workers PROVE WorkerTotal(w, pays) = by[w]
  <2> DEFINE Q == {q \in P : q[1].team[q[2]] = w}
             f == [q \in Q |-> Shares(q[1])[q[2]]]
  <2>1. WorkerTotal(w, pays) = SumFunctionOnSet(f, Q)
      BY DEF WorkerTotal, SumFunction
  <2>2. IsFiniteSet(Q) /\ \A q \in Q : f[q] = g[q]
      BY <1>10, FS_Subset
  <2>3. Q = {q \in P : h[q] = w}
      OBVIOUS
  <2> HIDE DEF Q, f, g
  <2>4. SumFunctionOnSet(f, Q) = SumFunctionOnSet(g, Q)
      BY <2>2, SumSame
  <2> QED
      BY <2>1, <2>3, <2>4 DEF SumOfKinds
<1>12. SumFunction([w \in workers |-> WorkerTotal(w, pays)]) = SumFunctionOnSet(by, workers)
  <2> DEFINE f == [w \in workers |-> WorkerTotal(w, pays)]
  <2>1. \A w \in workers : f[w] = by[w]
      BY <1>11
  <2>2. SumFunction(f) = SumFunctionOnSet(f, workers)
      BY DEF SumFunction
  <2> HIDE DEF f, by
  <2>3. SumFunctionOnSet(f, workers) = SumFunctionOnSet(by, workers)
      BY <2>1, SumSame
  <2> QED
      BY <2>2, <2>3 DEF f
<1>13. MonthTotal(pays) = SumFunctionOnSet(rate, A)
    BY DEF MonthTotal, SumFunction
<1> QED
    BY <1>10, <1>12, <1>13 DEF MonthIsPaidOut

\* settlement.py and unloading-wage.service.ts give every worker of a pay container the
\* same amount, unless it is shared by percentages, which the script does not know.
THEOREM ScriptAndApiAgree ==
    ASSUME NEW pays, \A p \in pays : Paid(p)
    PROVE  ScriptAgrees(pays)
<1> SUFFICES ASSUME NEW p \in pays, p.method # "MANUAL_PERCENT"
             PROVE  LET manual == IF p.method = "EQUAL_SPLIT" THEN <<>>
                                  ELSE [i \in DOMAIN p.team |-> [worker |-> p.team[i],
                                                                 amount |-> p.given[i]]]
                        shares == Shares(p)
                    IN  ScriptShares([team |-> p.team, manual |-> manual], p.rate)
                        = {[worker |-> p.team[i], amount |-> shares[i]] : i \in DOMAIN shares}
    BY DEF ScriptAgrees
<1> DEFINE n == Len(p.team)
<1>1. n \in Nat /\ DOMAIN p.team = 1..n
    BY DEF Paid
<1>2. CASE p.method = "EQUAL_SPLIT"
  <2>1. Shares(p) = EqualShares(p.rate, n) /\ DOMAIN EqualShares(p.rate, n) = 1..n
      BY <1>2 DEF Shares, EqualShares
  <2> QED
      BY <1>1, <1>2, <2>1 DEF ScriptShares
<1>3. CASE p.method = "MANUAL_AMOUNT"
  <2>1. Shares(p) = AmountShares(p.rate, p.given) /\ p.given \in Seq(Int) /\ Len(p.given) = n
      BY <1>3 DEF Shares, Paid
  <2> DEFINE manual == [i \in 1..n |-> [worker |-> p.team[i], amount |-> p.given[i]]]
             item == [team |-> p.team, manual |-> manual]
  <2>2. CASE n = 0
    <3>1. p.given = <<>> /\ Shares(p) = <<>> /\ manual = <<>>
        BY <2>1, <2>2 DEF AmountShares
    <3>2. ScriptShares(item, p.rate) = {}
        BY <1>1, <2>2, <3>1 DEF ScriptShares
    <3> QED
        BY <1>1, <1>3, <3>1, <3>2
  <2>3. CASE n # 0
    <3>1. manual # <<>> /\ DOMAIN manual = 1..n
      <4>1. DOMAIN manual = 1..n /\ 1 \in 1..n
          BY <1>1, <2>3
      <4> HIDE DEF manual
      <4> QED
          BY <4>1
    <3>2. {manual[i].worker : i \in DOMAIN manual} = {p.team[i] : i \in DOMAIN p.team}
        BY <1>1
    <3>3. [i \in DOMAIN manual |-> manual[i].amount] = p.given
      <4>1. p.given \in [1..n -> Int]
          BY <2>1
      <4>2. [i \in DOMAIN manual |-> manual[i].amount] = [i \in 1..n |-> p.given[i]]
          OBVIOUS
      <4> QED
          BY <4>1, <4>2
    <3>4. ScriptShares(item, p.rate)
          = IF AmountShares(p.rate, p.given) # <<>> THEN {manual[i] : i \in 1..n} ELSE {}
      <4>1. item.manual = manual /\ item.team = p.team
          OBVIOUS
      <4> HIDE DEF manual, item
      <4>2. item.manual # <<>> /\ DOMAIN item.manual = 1..n
          BY <3>1, <4>1
      <4>3. {item.manual[i].worker : i \in DOMAIN item.manual}
            = {item.team[i] : i \in DOMAIN item.team}
          BY <3>2, <4>1
      <4>4. [i \in DOMAIN item.manual |-> item.manual[i].amount] = p.given
          BY <3>3, <4>1
      <4>5. ScriptShares(item, p.rate)
            = IF AmountShares(p.rate, p.given) # <<>>
              THEN {item.manual[i] : i \in DOMAIN item.manual} ELSE {}
        <5> DEFINE accepted == AmountShares(p.rate, p.given) # <<>>
        <5>1. ScriptShares(item, p.rate)
              = IF accepted THEN {item.manual[i] : i \in DOMAIN item.manual} ELSE {}
            BY <4>2, <4>3, <4>4, ZenonT(60) DEF ScriptShares
        <5> QED
            BY <5>1
      <4> QED
          BY <4>1, <4>2, <4>5
    <3>5. CASE AmountShares(p.rate, p.given) = <<>>
        BY <1>1, <1>3, <2>1, <3>4, <3>5
    <3>6. CASE AmountShares(p.rate, p.given) # <<>>
      <4>1. Shares(p) = p.given /\ DOMAIN p.given = 1..n
          BY <1>1, <2>1, <3>6 DEF AmountShares
      <4> QED
          BY <1>1, <1>3, <3>4, <3>6, <4>1
    <3> QED
        BY <3>5, <3>6
  <2> QED
      BY <2>2, <2>3
<1> QED
    BY <1>2, <1>3 DEF Paid

\* A work item that the script has read without an error: neither its unloaders nor its
\* manual amounts name a worker twice.
Read(item, workers) ==
    /\ item.team \in Seq(workers)
    /\ \A i, j \in DOMAIN item.team : item.team[i] = item.team[j] => i = j
    /\ item.manual \in Seq([worker : workers, amount : Int])
    /\ \A i, j \in DOMAIN item.manual : item.manual[i].worker = item.manual[j].worker => i = j

LEMMA EqualSharesInt ==
    ASSUME NEW rate \in Nat, NEW n \in Nat \ {0}
    PROVE  EqualShares(rate, n) \in [1..n -> Int]
<1>1. rate \div n \in Nat
    BY Division
<1> QED
    BY <1>1 DEF EqualShares

\* what the script shares is the rate
LEMMA ScriptSharesAre ==
    ASSUME NEW workers, NEW item, Read(item, workers), NEW rate \in Nat,
           ScriptShares(item, rate) # {}
    PROVE  LET S == ScriptShares(item, rate)
           IN  /\ IsFiniteSet(S)
               /\ \A s \in S : s.amount \in Int /\ s.worker \in workers
               /\ SumFunctionOnSet([s \in S |-> s.amount], S) = rate
<1> DEFINE S == ScriptShares(item, rate)
           g == [s \in S |-> s.amount]
<1>1. ASSUME NEW n \in Nat, NEW b \in Bijection(1..n, S), NEW f \in [1..n -> Int],
             \A i \in 1..n : b[i].amount = f[i], SumFunctionOnSet(f, 1..n) = rate
      PROVE  /\ IsFiniteSet(S)
             /\ \A s \in S : s.amount \in Int
             /\ SumFunctionOnSet(g, S) = rate
  <2>1. IsFiniteSet(1..n)
      BY FS_Interval
  <2>2. b \in [1..n -> S] /\ \A s \in S : \E i \in 1..n : b[i] = s
      BY DEF Bijection, Injection, Surjection
  <2> HIDE DEF S
  <2>3. IsFiniteSet(S)
      BY <2>1, FS_Surjection DEF Bijection
  <2>4. \A i \in 1..n : g[b[i]] = f[i]
      BY <1>1, <2>2
  <2> HIDE DEF g
  <2>5. SumFunctionOnSet(g, S) = SumFunctionOnSet(f, 1..n)
      BY <2>1, <2>4, SumRenamed
  <2> QED
      BY <1>1, <2>2, <2>3, <2>5
<1>2. CASE item.manual = <<>>
  <2> DEFINE n == Len(item.team)
             f == EqualShares(rate, n)
             b == [i \in 1..n |-> [worker |-> item.team[i], amount |-> f[i]]]
  <2>1. n \in Nat /\ DOMAIN item.team = 1..n
      BY DEF Read
  <2>2. S = {[worker |-> item.team[i], amount |-> f[i]] : i \in 1..n}
      BY <1>2, <2>1 DEF ScriptShares
  <2>3. n # 0
      BY <2>1, <2>2
  <2>4. f \in [1..n -> Int] /\ SumFunctionOnSet(f, 1..n) = rate
    <3>1. n \in Nat \ {0}
        BY <2>1, <2>3
    <3> HIDE DEF n
    <3>2. f \in [1..n -> Int]
        BY <3>1, EqualSharesInt
    <3>3. SharesTotal(f) = rate
        BY <3>1, EqualSharesAddUp
    <3> HIDE DEF f
    <3> QED
        BY <3>2, <3>3 DEF SharesTotal, SumFunction
  <2> HIDE DEF S, f, n
  <2>5. \A i, j \in 1..n : item.team[i] = item.team[j] => i = j
      BY <2>1 DEF Read
  <2>6. b \in Bijection(1..n, S)
    <3>1. \A i, j \in 1..n : b[i] = b[j] => i = j
      <4> SUFFICES ASSUME NEW i \in 1..n, NEW j \in 1..n, b[i] = b[j] PROVE i = j
          OBVIOUS
      <4>1. b[i].worker = item.team[i] /\ b[j].worker = item.team[j]
          OBVIOUS
      <4> QED
          BY <2>5, <4>1
    <3>2. b \in [1..n -> S] /\ \A s \in S : \E i \in 1..n : b[i] = s
        BY <2>2
    <3> QED
        BY <3>1, <3>2 DEF Bijection, Injection, Surjection, IsInjective
  <2>7. \A i \in 1..n : b[i].amount = f[i]
      OBVIOUS
  <2>8. \A s \in S : s.worker \in workers
      BY <2>1, <2>2 DEF Read
  <2> HIDE DEF b
  <2> QED
      BY <1>1, <2>1, <2>4, <2>6, <2>7, <2>8 DEF S
<1>3. CASE item.manual # <<>>
  <2> DEFINE b == item.manual
             n == Len(b)
             f == [i \in DOMAIN b |-> b[i].amount]
  <2>1. /\ S = {b[i] : i \in DOMAIN b} /\ AmountShares(rate, f) # <<>>
        /\ {b[i].worker : i \in DOMAIN b} = {item.team[i] : i \in DOMAIN item.team}
      BY <1>3 DEF ScriptShares
  <2>2. /\ n \in Nat /\ DOMAIN b = 1..n /\ f \in [1..n -> Int]
        /\ b \in [1..n -> [worker : workers, amount : Int]]
    <3> DEFINE R == [worker : workers, amount : Int]
    <3>1. b \in Seq(R)
        BY DEF Read
    <3> HIDE DEF b, R
    <3>2. n \in Nat /\ b \in [1..n -> R]
        BY <3>1
    <3> HIDE DEF n
    <3> USE DEF R
    <3>3. DOMAIN b = 1..n /\ \A i \in 1..n : b[i].amount \in Int
        BY <3>2
    <3> QED
        BY <3>2, <3>3
  <2>3. SumFunctionOnSet(f, 1..n) = rate
    <3>1. SharesTotal(f) = rate
        BY <2>1 DEF AmountShares
    <3>2. DOMAIN f = 1..n
        BY <2>2
    <3> QED
        BY <3>1, <3>2 DEF SharesTotal, SumFunction
  <2>4. \A i, j \in 1..n : b[i].worker = b[j].worker => i = j
      BY <2>2 DEF Read
  <2> HIDE DEF S, n
  <2>5. \A s \in S : s.worker \in workers
    <3>1. \A i \in DOMAIN b : b[i].worker \in {item.team[j] : j \in DOMAIN item.team}
        BY <2>1
    <3> QED
        BY <2>1, <3>1 DEF Read
  <2> HIDE DEF b
  <2>6. b \in Bijection(1..n, S)
    <3>1. b \in [1..n -> S] /\ \A s \in S : \E i \in 1..n : b[i] = s
        BY <2>1, <2>2
    <3> QED
        BY <2>4, <3>1 DEF Bijection, Injection, Surjection, IsInjective
  <2>7. \A i \in 1..n : b[i].amount = f[i]
      BY <2>2
  <2> HIDE DEF f
  <2> QED
      BY <1>1, <2>2, <2>3, <2>5, <2>6, <2>7 DEF S
<1> QED
    BY <1>2, <1>3

LEMMA FirstOfGroup ==
    ASSUME NEW items, DOMAIN items = 1..Len(items), NEW key, Group(items, key) # {}
    PROVE  \E i \in Group(items, key) : FirstItem(items, key) = items[i]
<1>1. Group(items, key) \subseteq Nat
    BY DEF Group
<1>2. \E i \in Group(items, key) : \A j \in Group(items, key) : i <= j
    BY <1>1, LeastOfNaturals
<1> DEFINE i == CHOOSE i \in Group(items, key) : \A j \in Group(items, key) : i <= j
<1>3. i \in Group(items, key)
    BY <1>2
<1> QED
    BY <1>3 DEF FirstItem

\* the same work items in some order
SameItems(items, other) ==
    /\ \A i \in DOMAIN other : \E j \in DOMAIN items : other[i] = items[j]
    /\ \A j \in DOMAIN items : \E i \in DOMAIN other : other[i] = items[j]

\* What the script pays does not depend on the order of the work items: of a group that is
\* consistent, any item has the same shares.
LEMMA GroupShares ==
    ASSUME NEW items, DOMAIN items = 1..Len(items),
           NEW other, DOMAIN other = 1..Len(other), SameItems(items, other),
           NEW key, Group(items, key) # {}, ConsistentGroup(items, key)
    PROVE  /\ ConsistentGroup(other, key)
           /\ \A rate : ScriptShares(FirstItem(other, key), rate)
                       = ScriptShares(FirstItem(items, key), rate)
<1> DEFINE first == FirstItem(items, key)
           last == FirstItem(other, key)
<1>1. \A i \in DOMAIN other : \E j \in DOMAIN items : other[i] = items[j]
    BY DEF SameItems
<1>2. \A j \in DOMAIN items : \E i \in DOMAIN other : other[i] = items[j]
    BY DEF SameItems
<1>3. Group(other, key) # {}
    BY <1>2 DEF Group
<1>4. PICK l \in Group(other, key) : last = other[l]
    BY <1>3, FirstOfGroup
<1>5. \A i \in Group(other, key) : \E j \in Group(items, key) : other[i] = items[j]
    BY <1>1 DEF Group
<1>6. \A i \in Group(items, key) : /\ items[i].completed = first.completed
                                  /\ items[i].team = first.team
                                  /\ items[i].manual = first.manual
    BY DEF ConsistentGroup
<1> HIDE DEF first, last
<1>7. \A i \in Group(other, key) : /\ other[i].completed = first.completed
                                  /\ other[i].team = first.team
                                  /\ other[i].manual = first.manual
    BY <1>5, <1>6
<1>8. /\ last.completed = first.completed /\ last.team = first.team
      /\ last.manual = first.manual
    BY <1>4, <1>7
<1>9. ConsistentGroup(other, key)
    BY <1>7, <1>8 DEF ConsistentGroup, last
<1>10. \A rate : ScriptShares(last, rate) = ScriptShares(first, rate)
    BY <1>8 DEF ScriptShares
<1> QED
    BY <1>9, <1>10 DEF first, last

PaidKeys(items, rates) ==
    {k \in {GroupKey(items[i]) : i \in DOMAIN items} :
        /\ k[1] \in DOMAIN rates
        /\ ConsistentGroup(items, k)
        /\ ScriptShares(FirstItem(items, k), rates[k[1]]) # {}}

PayOf(items, rates, key) ==
    [key |-> key, rate |-> rates[key[1]],
     shares |-> ScriptShares(FirstItem(items, key), rates[key[1]])]

LEMMA OrderIndependent ==
    ASSUME NEW items, DOMAIN items = 1..Len(items),
           NEW other, DOMAIN other = 1..Len(other), SameItems(items, other),
           NEW rates
    PROVE  ScriptPays(other, rates) = ScriptPays(items, rates)
<1>1. ASSUME NEW one, DOMAIN one = 1..Len(one), NEW two, DOMAIN two = 1..Len(two),
             SameItems(one, two),
             NEW k \in PaidKeys(one, rates)
      PROVE  k \in PaidKeys(two, rates) /\ PayOf(two, rates, k) = PayOf(one, rates, k)
  <2>1. PICK i \in DOMAIN one : k = GroupKey(one[i])
      BY DEF PaidKeys
  <2>2. Group(one, k) # {} /\ ConsistentGroup(one, k)
      BY <2>1 DEF Group, PaidKeys
  <2>3. /\ ConsistentGroup(two, k)
        /\ ScriptShares(FirstItem(two, k), rates[k[1]])
           = ScriptShares(FirstItem(one, k), rates[k[1]])
    <3>1. /\ ConsistentGroup(two, k)
          /\ \A rate : ScriptShares(FirstItem(two, k), rate)
                      = ScriptShares(FirstItem(one, k), rate)
        BY <1>1, <2>2, GroupShares
    <3> QED
        BY <3>1
  <2>4. PICK j \in DOMAIN two : two[j] = one[i]
      BY <1>1 DEF SameItems
  <2>5. k \in {GroupKey(two[m]) : m \in DOMAIN two}
      BY <2>1, <2>4
  <2> QED
      BY <2>3, <2>5 DEF PaidKeys, PayOf
<1>2. /\ ScriptPays(items, rates) = {PayOf(items, rates, k) : k \in PaidKeys(items, rates)}
      /\ ScriptPays(other, rates) = {PayOf(other, rates, k) : k \in PaidKeys(other, rates)}
    BY DEF ScriptPays, PaidKeys, PayOf
<1>3. /\ \A k \in PaidKeys(items, rates) :
            k \in PaidKeys(other, rates) /\ PayOf(other, rates, k) = PayOf(items, rates, k)
      /\ \A k \in PaidKeys(other, rates) :
            k \in PaidKeys(items, rates) /\ PayOf(items, rates, k) = PayOf(other, rates, k)
  <2>1. SameItems(other, items)
      BY DEF SameItems
  <2> QED
      BY <1>1, <2>1
<1> QED
    BY <1>2, <1>3

\* settlement.py: what the workers get adds up to the rates of the groups that are paid,
\* and the work items may be given in the opposite order.
THEOREM ScriptPaidOut ==
    ASSUME NEW workers, IsFiniteSet(workers),
           NEW items, Len(items) \in Nat, DOMAIN items = 1..Len(items),
           \A i \in DOMAIN items : Read(items[i], workers),
           NEW rates, \A k \in DOMAIN rates : rates[k] \in Nat
    PROVE  ScriptPaysRates(items, rates, workers)
<1> DEFINE A == ScriptPays(items, rates)
           K == PaidKeys(items, rates)
           D == [p \in A |-> p.shares]
           P == UNION {{p} \X p.shares : p \in A}
           g == [q \in P |-> q[2].amount]
           h == [q \in P |-> q[2].worker]
           rate == [p \in A |-> p.rate]
           backwards == [i \in DOMAIN items |-> items[Len(items) + 1 - i]]
<1>1. A = {PayOf(items, rates, k) : k \in K}
    BY DEF ScriptPays, PaidKeys, PayOf
<1>2. IsFiniteSet(A)
  <2> DEFINE I == {i \in DOMAIN items : GroupKey(items[i]) \in K}
             F == [i \in I |-> PayOf(items, rates, GroupKey(items[i]))]
  <2>1. IsFiniteSet(I)
    <3>1. IsFiniteSet(DOMAIN items)
        BY FS_Interval
    <3>2. I \in SUBSET DOMAIN items
        OBVIOUS
    <3> HIDE DEF I
    <3> QED
        BY <3>1, <3>2, FS_Subset
  <2>2. F \in Surjection(I, A)
    <3>1. \A k \in K : \E i \in I : k = GroupKey(items[i])
        BY DEF PaidKeys
    <3> HIDE DEF K
    <3>2. F \in [I -> A]
        BY <1>1
    <3>3. \A p \in A : \E i \in I : F[i] = p
        BY <1>1, <3>1
    <3> QED
        BY <3>2, <3>3 DEF Surjection
  <2> QED
      BY <2>1, <2>2, FS_Surjection
<1>3. ASSUME NEW p \in A
      PROVE  /\ IsFiniteSet(p.shares)
             /\ \A s \in p.shares : s.amount \in Int /\ s.worker \in workers
             /\ SumFunctionOnSet([s \in p.shares |-> s.amount], p.shares) = p.rate
  <2>1. PICK k \in K : p = PayOf(items, rates, k)
      BY <1>1
  <2> DEFINE item == FirstItem(items, k)
             r == rates[k[1]]
  <2>2. p.rate = r /\ p.shares = ScriptShares(item, r)
      BY <2>1 DEF PayOf
  <2>3. /\ r \in Nat /\ ScriptShares(item, r) # {}
        /\ \E i \in DOMAIN items : k = GroupKey(items[i])
      BY DEF PaidKeys
  <2>4. Group(items, k) # {}
      BY <2>3 DEF Group
  <2>5. \E i \in DOMAIN items : item = items[i]
      BY <2>4, FirstOfGroup DEF Group
  <2>6. Read(item, workers)
      BY <2>5
  <2> HIDE DEF item, r
  <2>7. /\ IsFiniteSet(ScriptShares(item, r))
        /\ \A s \in ScriptShares(item, r) : s.amount \in Int /\ s.worker \in workers
        /\ SumFunctionOnSet([s \in ScriptShares(item, r) |-> s.amount],
                            ScriptShares(item, r)) = r
      BY <2>3, <2>6, ScriptSharesAre
  <2> QED
      BY <2>2, <2>7
<1> HIDE DEF A, K
<1>4. \A q \in P : q[1] \in A /\ q[2] \in q[1].shares
    OBVIOUS
<1>5. \A p \in A : \A s \in p.shares : <<p, s>> \in P
    OBVIOUS
<1>6. g \in [P -> Int] /\ h \in [P -> workers]
    BY <1>3, <1>4
<1>7. PartsAddUp(A, D, P, g, rate)
  <2>1. P = UNION {{p} \X D[p] : p \in A}
      OBVIOUS
  <2>2. ASSUME NEW p \in A
        PROVE  /\ IsFiniteSet(D[p])
               /\ SumFunctionOnSet(PartsOf(p, g, D[p]), D[p]) = rate[p]
    <3> DEFINE S == p.shares
               f == [s \in S |-> s.amount]
    <3>1. D[p] = S /\ rate[p] = p.rate
        OBVIOUS
    <3>2. \A s \in S : PartsOf(p, g, S)[s] = f[s]
        BY <1>5 DEF PartsOf
    <3>3. IsFiniteSet(S) /\ SumFunctionOnSet(f, S) = p.rate
        BY <1>3
    <3> HIDE DEF S, f, g, D, rate
    <3>4. SumFunctionOnSet(PartsOf(p, g, S), S) = SumFunctionOnSet(f, S)
        BY <3>2, <3>3, SumSame
    <3> QED
        BY <3>1, <3>3, <3>4
  <2> HIDE DEF P, D, g, rate
  <2> QED
      BY <2>1, <2>2 DEF PartsAddUp
<1> DEFINE by == SumOfKinds(g, h, P, workers)
<1>8. IsFiniteSet(P) /\ SumFunctionOnSet(by, workers) = SumFunctionOnSet(rate, A)
  <2> HIDE DEF P, D, g, h, rate
  <2>1. /\ IsFiniteSet(P)
        /\ SumFunctionOnSet(SumOfKinds(g, h, P, workers), workers) = SumFunctionOnSet(rate, A)
      BY <1>2, <1>6, <1>7, PartsPaid
  <2> QED
      BY <2>1
<1>9. ASSUME NEW w \in workers PROVE ScriptWorker(w, A) = by[w]
  <2> DEFINE Q == {q \in P : q[2].worker = w}
             f == [q \in Q |-> q[2].amount]
  <2>1. ScriptWorker(w, A) = SumFunctionOnSet(f, Q)
      BY DEF ScriptWorker, SumFunction
  <2>2. IsFiniteSet(Q) /\ \A q \in Q : f[q] = g[q]
      BY <1>8, FS_Subset
  <2>3. Q = {q \in P : h[q] = w}
      OBVIOUS
  <2> HIDE DEF Q, f, g
  <2>4. SumFunctionOnSet(f, Q) = SumFunctionOnSet(g, Q)
      BY <2>2, SumSame
  <2> QED
      BY <2>1, <2>3, <2>4 DEF SumOfKinds
<1>10. SumFunction([w \in workers |-> ScriptWorker(w, A)]) = SumFunctionOnSet(by, workers)
  <2> DEFINE f == [w \in workers |-> ScriptWorker(w, A)]
  <2>1. \A w \in workers : f[w] = by[w]
      BY <1>9
  <2>2. SumFunction(f) = SumFunctionOnSet(f, workers)
      BY DEF SumFunction
  <2> HIDE DEF f, by
  <2>3. SumFunctionOnSet(f, workers) = SumFunctionOnSet(by, workers)
      BY <2>1, SumSame
  <2> QED
      BY <2>2, <2>3 DEF f
<1>11. SumFunction([p \in A |-> p.rate]) = SumFunctionOnSet(rate, A)
    BY DEF SumFunction
<1>12. ScriptPays(backwards, rates) = A
  <2> DEFINE n == Len(items)
  <2>1. backwards \in [1..n -> {items[i] : i \in 1..n}] /\ DOMAIN backwards = 1..n
      OBVIOUS
  <2>2. Len(backwards) = n
      BY <2>1
  <2>3. SameItems(items, backwards)
    <3>1. \A i \in 1..n : n + 1 - i \in 1..n /\ backwards[n + 1 - i] = items[i]
        OBVIOUS
    <3>2. \A i \in 1..n : \E j \in 1..n : backwards[i] = items[j]
        BY <3>1
    <3>3. \A j \in 1..n : \E i \in 1..n : backwards[i] = items[j]
        BY <3>1
    <3>4. DOMAIN items = 1..n /\ DOMAIN backwards = 1..n
        BY <2>1
    <3> HIDE DEF backwards, n
    <3> QED
        BY <3>2, <3>3, <3>4 DEF SameItems
  <2> HIDE DEF backwards
  <2> QED
      BY <2>1, <2>2, <2>3, OrderIndependent DEF A
<1> QED
    BY <1>8, <1>10, <1>11, <1>12 DEF ScriptPaysRates, A

-----------------------------------------------------------------------------
(***************************************************************************)
(* The hours.  The i-th punch of a day is the first time up to which there *)
(* are i punches; that these times are the punches in order is counting.   *)
(***************************************************************************)

\* Of finitely many times, one is the last.
LEMMA FiniteHasLast ==
    ASSUME NEW S \in SUBSET Int, S # {}, IsFiniteSet(S)
    PROVE  \E m \in S : \A k \in S : k <= m
<1> DEFINE Last(s) == \E m \in s : \A k \in s : k <= m
           W == {s \in SUBSET S : s # {} /\ ~Last(s)}
<1> SUFFICES ASSUME W # {} PROVE FALSE
    OBVIOUS
<1>1. PICK m \in W : \A s \in W : s \subseteq m => s = m
  <2>1. W # {} /\ \A s \in W : IsFiniteSet(s)
      BY FS_Subset
  <2> HIDE DEF W
  <2> QED
      BY <2>1, SmallestSet
<1>2. PICK x \in m : TRUE
    OBVIOUS
<1>3. CASE m \ {x} = {}
  <2>1. m = {x} /\ x \in Int
      BY <1>2, <1>3
  <2> QED
      BY <2>1
<1>4. CASE m \ {x} # {}
  <2>1. m \ {x} \notin W
      BY <1>1, <1>2
  <2>2. PICK y \in m \ {x} : \A k \in m \ {x} : k <= y
      BY <1>4, <2>1
  <2>3. x \in Int /\ y \in Int /\ \A k \in m : k \in Int
      BY <1>2
  <2>4. CASE x <= y
    <3>1. \A k \in m : k <= y
        BY <2>2, <2>4
    <3> QED
        BY <2>2, <3>1
  <2>5. CASE y <= x
    <3>1. \A k \in m : k <= x
        BY <2>2, <2>3, <2>5
    <3> QED
        BY <1>2, <3>1
  <2> QED
      BY <2>3, <2>4, <2>5
<1> QED
    BY <1>3, <1>4

\* and one the first
LEMMA FiniteHasFirst ==
    ASSUME NEW S \in SUBSET Int, S # {}, IsFiniteSet(S)
    PROVE  \E m \in S : \A k \in S : m <= k
<1> DEFINE b == [x \in S |-> -x]
           N == {-x : x \in S}
<1>1. b \in Surjection(S, N)
    BY DEF Surjection
<1>2. N \in SUBSET Int /\ N # {} /\ IsFiniteSet(N)
  <2>1. IsFiniteSet(N)
    <3> HIDE DEF b, N
    <3> QED
        BY <1>1, FS_Surjection
  <2>2. \A x \in S : -x \in Int
      OBVIOUS
  <2>3. N \subseteq Int
      BY <2>2
  <2>4. PICK x \in S : TRUE
      OBVIOUS
  <2>5. -x \in N
      OBVIOUS
  <2> QED
      BY <2>1, <2>3, <2>5
<1>3. PICK n \in N : \A k \in N : k <= n
  <2> HIDE DEF N
  <2> QED
      BY <1>2, FiniteHasLast
<1>4. PICK m \in S : n = -m
    OBVIOUS
<1>5. ASSUME NEW k \in S PROVE m <= k
  <2>1. -k <= -m /\ k \in Int /\ m \in Int
      BY <1>3, <1>4
  <2> QED
      BY <2>1
<1> QED
    BY <1>5

LEMMA CountUpTo ==
    ASSUME NEW n \in Nat
    PROVE  IsFiniteSet(1..n) /\ Cardinality(1..n) = n
<1>1. IsFiniteSet(1..n) /\ Cardinality(1..n) = IF 1 > n THEN 0 ELSE n - 1 + 1
    BY FS_Interval
<1> QED
    BY <1>1

\* the punches before a time, and those not after it
Before(punches, t) == {j \in DOMAIN punches : punches[j] < t}
UpTo(punches, t)   == {j \in DOMAIN punches : punches[j] <= t}

LEMMA PunchesFinite ==
    ASSUME NEW punches \in Seq(Int)
    PROVE  /\ IsFiniteSet(Range(punches)) /\ Range(punches) \subseteq Int
           /\ \A t : /\ IsFiniteSet(Before(punches, t)) /\ IsFiniteSet(UpTo(punches, t))
                     /\ Cardinality(Before(punches, t)) \in Nat
                     /\ Cardinality(UpTo(punches, t)) \in Nat
           /\ \A t, i : Placed(punches, i, t) <=> /\ Cardinality(Before(punches, t)) < i
                                                  /\ i <= Cardinality(UpTo(punches, t))
<1>1. DOMAIN punches = 1..Len(punches) /\ Len(punches) \in Nat
    OBVIOUS
<1>2. IsFiniteSet(DOMAIN punches)
    BY <1>1, FS_Interval
<1>3. punches \in Surjection(DOMAIN punches, Range(punches))
    BY DEF Surjection, Range
<1>4. IsFiniteSet(Range(punches)) /\ Range(punches) \subseteq Int
    BY <1>2, <1>3, FS_Surjection DEF Range
<1>5. \A t : /\ IsFiniteSet(Before(punches, t)) /\ IsFiniteSet(UpTo(punches, t))
             /\ Cardinality(Before(punches, t)) \in Nat
             /\ Cardinality(UpTo(punches, t)) \in Nat
    BY <1>2, FS_Subset, FS_CardinalityType DEF Before, UpTo
<1> QED
    BY <1>4, <1>5 DEF Placed, Before, UpTo

LEMMA PlacedOnce ==
    ASSUME NEW punches \in Seq(Int), NEW i \in Int, NEW s \in Int, NEW t \in Int,
           Placed(punches, i, s), Placed(punches, i, t)
    PROVE  s = t
<1>1. ASSUME NEW x \in Int, NEW y \in Int, Placed(punches, i, x), Placed(punches, i, y)
      PROVE  ~(x < y)
  <2> SUFFICES ASSUME x < y PROVE FALSE
      OBVIOUS
  <2>1. UpTo(punches, x) \subseteq Before(punches, y)
      BY DEF UpTo, Before
  <2>2. Cardinality(UpTo(punches, x)) <= Cardinality(Before(punches, y))
      BY <2>1, PunchesFinite, FS_Subset
  <2> DEFINE a == Cardinality(UpTo(punches, x))
             b == Cardinality(Before(punches, y))
  <2>3. a \in Nat /\ b \in Nat /\ a <= b /\ i <= a /\ b < i
      BY <1>1, <2>2, PunchesFinite
  <2> HIDE DEF a, b
  <2> QED
      BY <2>3
<1>2. ~(s < t) /\ ~(t < s)
    BY <1>1
<1> QED
    BY <1>2

LEMMA PlacedSome ==
    ASSUME NEW punches \in Seq(Int), NEW i \in 1..Len(punches)
    PROVE  \E t \in Range(punches) : Placed(punches, i, t)
<1> DEFINE S == {t \in Range(punches) : i <= Cardinality(UpTo(punches, t))}
<1>1. /\ IsFiniteSet(Range(punches)) /\ Range(punches) \subseteq Int
      /\ i \in Nat \ {0} /\ DOMAIN punches = 1..Len(punches) /\ Len(punches) \in Nat
    BY PunchesFinite
<1>2. S # {}
  <2>1. Range(punches) # {}
      BY <1>1 DEF Range
  <2>2. PICK t \in Range(punches) : \A k \in Range(punches) : k <= t
      BY <1>1, <2>1, FiniteHasLast
  <2>3. UpTo(punches, t) = 1..Len(punches)
      BY <1>1, <2>2 DEF UpTo, Range
  <2>4. Cardinality(1..Len(punches)) = Len(punches)
      BY <1>1, CountUpTo
  <2> QED
      BY <1>1, <2>3, <2>4
<1>3. PICK t \in S : \A k \in S : t <= k
  <2>1. S \in SUBSET Int /\ IsFiniteSet(S)
      BY <1>1, FS_Subset
  <2> HIDE DEF S
  <2> QED
      BY <1>2, <2>1, FiniteHasFirst
<1>4. t \in Int /\ t \in Range(punches) /\ i <= Cardinality(UpTo(punches, t))
    BY <1>1
<1>5. Cardinality(Before(punches, t)) < i
  <2> DEFINE L == {x \in Range(punches) : x < t}
  <2>1. CASE L = {}
    <3>1. Before(punches, t) = {}
        BY <2>1 DEF Before, Range
    <3>2. Cardinality({}) = 0
        BY FS_EmptySet
    <3> QED
        BY <1>1, <3>1, <3>2
  <2>2. CASE L # {}
    <3>1. L \in SUBSET Int /\ IsFiniteSet(L)
        BY <1>1, FS_Subset
    <3>2. PICK u \in L : \A k \in L : k <= u
      <4> HIDE DEF L
      <4> QED
          BY <2>2, <3>1, FiniteHasLast
    <3>3. u \in Range(punches) /\ u < t /\ u \in Int
        BY <1>1
    <3>4. \A j \in DOMAIN punches : punches[j] \in Int /\ (punches[j] < t <=> punches[j] <= u)
      <4> SUFFICES ASSUME NEW j \in DOMAIN punches
                   PROVE  punches[j] \in Int /\ (punches[j] < t <=> punches[j] <= u)
          OBVIOUS
      <4>1. punches[j] \in Range(punches) /\ punches[j] \in Int
          BY <1>1 DEF Range
      <4>2. punches[j] < t => punches[j] <= u
          BY <3>2, <4>1
      <4> QED
          BY <1>4, <3>3, <4>1, <4>2
    <3>5. Before(punches, t) = UpTo(punches, u)
        BY <3>4 DEF Before, UpTo
    <3>6. u \notin S
        BY <1>3, <1>4, <3>3
    <3> DEFINE n == Cardinality(UpTo(punches, u))
    <3>7. n \in Nat /\ ~(i <= n)
        BY <3>3, <3>6, PunchesFinite
    <3> HIDE DEF n
    <3>8. n < i
        BY <1>1, <3>7
    <3> QED
        BY <3>5, <3>8 DEF n
  <2> QED
      BY <2>1, <2>2
<1> QED
    BY <1>4, <1>5, PunchesFinite

\* the punches of a day, in order
LEMMA ChronologicalIs ==
    ASSUME NEW punches \in Seq(Int)
    PROVE  LET c == Chronological(punches)
           IN  /\ c \in Seq(Int) /\ Len(c) = Len(punches)
               /\ \A i \in 1..Len(punches) : c[i] \in Range(punches) /\ Placed(punches, i, c[i])
               /\ \A i, j \in 1..Len(punches) : i <= j => c[i] <= c[j]
<1> DEFINE c == Chronological(punches)
           n == Len(punches)
<1>1. DOMAIN punches = 1..n /\ n \in Nat /\ DOMAIN c = 1..n
    BY DEF Chronological
<1>2. ASSUME NEW i \in 1..n
      PROVE  c[i] \in Range(punches) /\ c[i] \in Int /\ Placed(punches, i, c[i])
  <2>1. c[i] = CHOOSE t \in Range(punches) : Placed(punches, i, t)
      BY <1>1 DEF Chronological
  <2>2. \E t \in Range(punches) : Placed(punches, i, t)
      BY PlacedSome
  <2>3. c[i] \in Range(punches) /\ Placed(punches, i, c[i])
      BY <2>1, <2>2
  <2> QED
      BY <2>3, PunchesFinite
<1>3. c \in Seq(Int) /\ Len(c) = n
  <2>1. c = [i \in 1..n |-> c[i]]
      BY <1>1 DEF Chronological
  <2> HIDE DEF c
  <2> QED
      BY <1>1, <1>2, <2>1
<1>4. ASSUME NEW i \in 1..n, NEW j \in 1..n, i <= j
      PROVE  c[i] <= c[j]
  <2> SUFFICES ASSUME c[j] < c[i] PROVE FALSE
      BY <1>2
  <2>1. UpTo(punches, c[j]) \subseteq Before(punches, c[i])
      BY <1>1, <1>2 DEF UpTo, Before
  <2> DEFINE x == Cardinality(UpTo(punches, c[j]))
             y == Cardinality(Before(punches, c[i]))
  <2>2. x <= y
      BY <2>1, PunchesFinite, FS_Subset
  <2>3. x \in Nat /\ y \in Nat /\ j <= x /\ y < i
      BY <1>2, PunchesFinite
  <2> HIDE DEF x, y
  <2> QED
      BY <1>4, <2>2, <2>3
<1> QED
    BY <1>2, <1>3, <1>4

\* Punches in order stay as they are.
LEMMA OrderedStays ==
    ASSUME NEW c \in Seq(Int), \A i, j \in 1..Len(c) : i <= j => c[i] <= c[j]
    PROVE  Chronological(c) = c
<1> DEFINE d == Chronological(c)
           n == Len(c)
<1>1. DOMAIN c = 1..n /\ n \in Nat
    OBVIOUS
<1>2. ASSUME NEW i \in 1..n PROVE d[i] = c[i]
  <2>1. Before(c, c[i]) \subseteq 1..(i - 1)
      BY <1>1 DEF Before
  <2>2. 1..i \subseteq UpTo(c, c[i])
      BY <1>1 DEF UpTo
  <2>3. /\ IsFiniteSet(1..(i - 1)) /\ Cardinality(1..(i - 1)) = i - 1
        /\ IsFiniteSet(1..i) /\ Cardinality(1..i) = i
      BY FS_Interval
  <2> DEFINE x == Cardinality(Before(c, c[i]))
             y == Cardinality(UpTo(c, c[i]))
  <2>4. x <= i - 1 /\ i <= y /\ x \in Nat /\ y \in Nat
      BY <2>1, <2>2, <2>3, PunchesFinite, FS_Subset
  <2> HIDE DEF x, y
  <2>5. x < i /\ i <= y
      BY <2>4
  <2>6. Placed(c, i, c[i])
      BY <2>5, PunchesFinite DEF x, y
  <2>7. Placed(c, i, d[i]) /\ d[i] \in Int /\ c[i] \in Int
      BY <1>1, ChronologicalIs, PunchesFinite
  <2> QED
      BY <2>6, <2>7, PlacedOnce
<1>3. d \in Seq(Int) /\ Len(d) = n
    BY ChronologicalIs
<1> HIDE DEF d
<1> QED
    BY <1>1, <1>2, <1>3 DEF d

\* the minutes of the pairs of punches c
Pairs(c) == [i \in 1..(Len(c) \div 2) |-> c[2*i] - c[2*i - 1]]

LEMMA Halves ==
    ASSUME NEW n \in Nat, n % 2 = 0
    PROVE  /\ n \div 2 \in Nat /\ n = 2 * (n \div 2)
           /\ \A i \in 1..(n \div 2) : 2*i \in 1..n /\ 2*i - 1 \in 1..n
<1> DEFINE h == n \div 2
<1>1. h \in Nat /\ n = 2 * h
    OBVIOUS
<1> HIDE DEF h
<1>2. \A i \in 1..h : 2*i \in 1..n /\ 2*i - 1 \in 1..n
    BY <1>1
<1> QED
    BY <1>1, <1>2 DEF h

LEMMA MinutesOfPairs ==
    ASSUME NEW day \in Seq(Int), Paired(day)
    PROVE  LET c == Chronological(day)
           IN  Minutes(Intervals(day)) = SumFunctionOnSet(Pairs(c), 1..(Len(c) \div 2))
<1> DEFINE c == Chronological(day)
<1>1. c \in Seq(Int) /\ Len(c) = Len(day)
    BY ChronologicalIs
<1>2. Intervals(day) = [i \in 1..(Len(c) \div 2) |-> [start |-> c[2*i - 1], end |-> c[2*i]]]
    BY <1>1 DEF Intervals, Paired
<1> HIDE DEF c
<1> DEFINE v == Intervals(day)
           f == [i \in DOMAIN v |-> v[i].end - v[i].start]
<1>3. f = Pairs(c)
    BY <1>2 DEF Pairs
<1>4. DOMAIN f = 1..(Len(c) \div 2)
    BY <1>2
<1> HIDE DEF f
<1>5. SumFunction(f) = SumFunctionOnSet(Pairs(c), 1..(Len(c) \div 2))
    BY <1>3, <1>4 DEF SumFunction
<1> QED
    BY <1>5 DEF Minutes, f, c

LEMMA MinutesOfOdd ==
    ASSUME NEW day \in Seq(Int), ~Paired(day)
    PROVE  LET c == Chronological(day)
           IN  Minutes(Intervals(day)) = c[Len(c)] - c[1]
<1> DEFINE c == Chronological(day)
<1>1. c \in Seq(Int) /\ Len(c) = Len(day)
    BY ChronologicalIs
<1>2. Intervals(day) = <<[start |-> c[1], end |-> c[Len(c)]]>>
    BY <1>1 DEF Intervals, Paired
<1>3. Len(c) \in Nat \ {0}
    BY <1>1 DEF Paired
<1> HIDE DEF c
<1>4. c[1] \in Int /\ c[Len(c)] \in Int
    BY <1>1, <1>3
<1> DEFINE v == Intervals(day)
           f == [i \in DOMAIN v |-> v[i].end - v[i].start]
           x == c[Len(c)] - c[1]
<1>5. DOMAIN f = {1} /\ f[1] = x /\ x \in Int
    BY <1>2, <1>4
<1> HIDE DEF f, x
<1>6. SumFunction(f) = x
    BY <1>5, SumOfOne DEF SumFunction
<1> QED
    BY <1>6 DEF Minutes, f, c, x

\* Pairs of punches in order take no longer than from the first to the last of them.
LEMMA PairsBounded ==
    ASSUME NEW c \in Seq(Int), Len(c) % 2 = 0,
           \A i, j \in 1..Len(c) : i <= j => c[i] <= c[j],
           NEW k \in 1..(Len(c) \div 2)
    PROVE  /\ SumFunctionOnSet(Pairs(c), 1..k) \in Int
           /\ SumFunctionOnSet(Pairs(c), 1..k) <= c[2*k] - c[1]
<1> DEFINE n == Len(c)
           h == n \div 2
           f == Pairs(c)
           Sum(j) == SumFunctionOnSet(f, 1..j)
           W == {j \in 1..h : ~(Sum(j) <= c[2*j] - c[1])}
<1>1. /\ n \in Nat /\ h \in Nat /\ n = 2 * h
      /\ \A i \in 1..h : 2*i \in 1..n /\ 2*i - 1 \in 1..n
    BY Halves
<1>2. \A i \in 1..n : c[i] \in Int
    OBVIOUS
<1>3. \A i \in 1..h : c[2*i] \in Int /\ c[2*i - 1] \in Int
    BY <1>1, <1>2
<1>4. \A i \in 1..h : f[i] = c[2*i] - c[2*i - 1] /\ f[i] \in Int
  <2> SUFFICES ASSUME NEW i \in 1..h
               PROVE  f[i] = c[2*i] - c[2*i - 1] /\ f[i] \in Int
      OBVIOUS
  <2>1. f[i] = c[2*i] - c[2*i - 1]
      BY DEF Pairs
  <2>2. c[2*i] \in Int /\ c[2*i - 1] \in Int
      BY <1>3
  <2> QED
      BY <2>1, <2>2
<1> HIDE DEF h, f, n
<1>5. \A j \in 1..h : Sum(j) = Sum(j - 1) + f[j] /\ Sum(j) \in Int /\ Sum(j - 1) \in Int
  <2> SUFFICES ASSUME NEW j \in 1..h
               PROVE  Sum(j) = Sum(j - 1) + f[j] /\ Sum(j) \in Int /\ Sum(j - 1) \in Int
      OBVIOUS
  <2>1. j \in Nat \ {0} /\ \A i \in 1..j : f[i] \in Int
      BY <1>1, <1>4
  <2> QED
      BY <2>1, SumUpTo
<1>6. W = {}
  <2> SUFFICES ASSUME W # {} PROVE FALSE
      OBVIOUS
  <2>1. W \in SUBSET Nat
      BY <1>1
  <2>2. PICK j \in W : \A i \in W : j <= i
    <3> HIDE DEF W
    <3> QED
        BY <2>1, LeastOfNaturals
  <2>3. j \in 1..h /\ ~(Sum(j) <= c[2*j] - c[1])
      OBVIOUS
  <2>4. Sum(j) = Sum(j - 1) + (c[2*j] - c[2*j - 1]) /\ Sum(j - 1) \in Int
      BY <1>4, <1>5, <2>3
  <2>5. c[2*j] \in Int /\ c[2*j - 1] \in Int /\ c[1] \in Int
    <3>1. 1 \in 1..n
        BY <1>1, <2>3
    <3> QED
        BY <1>2, <1>3, <2>3, <3>1
  <2>6. CASE j = 1
    <3>1. Sum(0) = 0
      <4>1. 1..0 = {}
          OBVIOUS
      <4> QED
          BY <4>1, SumOfNone
    <3>2. Sum(1) = 0 + (c[2*1] - c[2*1 - 1])
      <4>1. j - 1 = 0
          BY <2>6
      <4> QED
          BY <2>4, <2>6, <3>1, <4>1
    <3>3. 2*1 - 1 = 1
        OBVIOUS
    <3>4. Sum(1) = c[2*1] - c[1]
        BY <2>5, <2>6, <3>2, <3>3
    <3>5. c[2*1] \in Int /\ c[1] \in Int
        BY <2>5, <2>6
    <3> HIDE DEF Sum
    <3>6. Sum(1) <= c[2*1] - c[1]
        BY <3>4, <3>5
    <3> QED
        BY <2>3, <2>6, <3>6
  <2>7. CASE j # 1
    <3>1. j - 1 \in 1..h
        BY <1>1, <2>3, <2>7
    <3>2. j - 1 \notin W
        BY <2>2, <2>3
    <3>3. Sum(j - 1) <= c[2*(j - 1)] - c[1] /\ c[2*(j - 1)] \in Int
        BY <1>3, <3>1, <3>2
    <3>4. c[2*(j - 1)] <= c[2*j - 1]
      <4>1. 2*(j - 1) \in 1..n /\ 2*j - 1 \in 1..n
          BY <1>1, <2>3, <3>1
      <4>2. 2*(j - 1) <= 2*j - 1
          BY <1>1, <2>3
      <4> QED
          BY <4>1, <4>2 DEF n
    <3> DEFINE s == Sum(j - 1)
               t == Sum(j)
               x == c[2*(j - 1)]
               y == c[2*j - 1]
               z == c[2*j]
               w == c[1]
    <3>5. /\ s \in Int /\ x \in Int /\ y \in Int /\ z \in Int /\ w \in Int
          /\ t = s + (z - y) /\ s <= x - w /\ x <= y /\ ~(t <= z - w)
        BY <2>3, <2>4, <2>5, <3>3, <3>4
    <3> HIDE DEF s, t, x, y, z, w, W, Sum
    <3> QED
        BY <3>5
  <2> QED
      BY <2>6, <2>7
<1>7. k \in 1..h
    BY DEF h, n
<1>8. Sum(k) <= c[2*k] - c[1]
    BY <1>6, <1>7
<1> QED
    BY <1>5, <1>7, <1>8 DEF f

LEMMA MinutesBounded ==
    ASSUME NEW day \in Seq(Int)
    PROVE  LET c == Chronological(day)
           IN  /\ Minutes(Intervals(day)) \in Int
               /\ Len(c) = 0 => Minutes(Intervals(day)) = 0
               /\ Len(c) >= 1 => Minutes(Intervals(day)) <= c[Len(c)] - c[1]
<1> DEFINE c == Chronological(day)
           n == Len(c)
           m == Minutes(Intervals(day))
<1>1. /\ c \in Seq(Int) /\ n = Len(day) /\ n \in Nat
      /\ \A i, j \in 1..n : i <= j => c[i] <= c[j]
    BY ChronologicalIs
<1> HIDE DEF c
<1>2. CASE Paired(day) /\ n = 0
  <2>1. m = SumFunctionOnSet(Pairs(c), 1..(0 \div 2))
      BY <1>2, MinutesOfPairs DEF c
  <2>2. 1..(0 \div 2) = {}
      OBVIOUS
  <2>3. m = 0
      BY <2>1, <2>2, SumOfNone
  <2> QED
      BY <1>2, <2>3 DEF c
<1>3. CASE Paired(day) /\ n # 0
  <2> DEFINE h == n \div 2
  <2>1. n % 2 = 0
      BY <1>1, <1>3 DEF Paired
  <2>2. h \in Nat /\ n = 2 * h
      BY <1>1, <2>1, Halves
  <2>3. m = SumFunctionOnSet(Pairs(c), 1..h)
      BY <1>3, MinutesOfPairs DEF c
  <2> HIDE DEF h
  <2>4. h \in 1..h
      BY <1>3, <2>2
  <2>5. m \in Int /\ m <= c[2*h] - c[1]
      BY <1>1, <2>1, <2>3, <2>4, PairsBounded DEF h
  <2> QED
      BY <1>3, <2>2, <2>5 DEF c
<1>4. CASE ~Paired(day)
  <2>1. m = c[n] - c[1] /\ n # 0
      BY <1>1, <1>4, MinutesOfOdd DEF c, Paired
  <2>2. c[n] \in Int /\ c[1] \in Int
      BY <1>1, <2>1
  <2> DEFINE x == c[n]
             y == c[1]
  <2>3. m = x - y /\ x \in Int /\ y \in Int
      BY <2>1, <2>2
  <2> HIDE DEF m, x, y
  <2>4. m \in Int /\ m <= x - y
      BY <2>3
  <2> QED
      BY <2>1, <2>4 DEF c, m, x, y
<1> QED
    BY <1>2, <1>3, <1>4

\* What is paid, from what was worked.
LEMMA PaidFrom ==
    ASSUME NEW day \in Seq(Int)
    PROVE  LET m == Minutes(Intervals(day))
           IN  /\ m \in Int /\ PaidMinutes(day) \in Nat
               /\ Len(day) >= 2 => PaidMinutes(day) = IF m - 30 < 0 THEN 0 ELSE m - 30
               /\ Len(day) < 2 => PaidMinutes(day) = IF m < 0 THEN 0 ELSE m
<1> DEFINE m == Minutes(Intervals(day))
           n == Len(day)
<1>1. m \in Int /\ n \in Nat
    BY MinutesBounded
<1>2. PaidMinutes(day) = LET rest == m - (IF n >= 2 THEN 30 ELSE 0)
                         IN  IF rest < 0 THEN 0 ELSE rest
    BY DEF PaidMinutes, Lunch
<1> HIDE DEF m, n
<1>3. /\ n >= 2 => PaidMinutes(day) = IF m - 30 < 0 THEN 0 ELSE m - 30
      /\ n < 2 => PaidMinutes(day) = IF m < 0 THEN 0 ELSE m
    BY <1>1, <1>2
<1>4. PaidMinutes(day) \in Nat
    BY <1>1, <1>3
<1> QED
    BY <1>1, <1>3, <1>4 DEF m, n

\* calculate_attendance_hours: whatever the punches, a day pays no less than nothing and no
\* more than the time from the first punch to the last.
THEOREM HoursAreBounded ==
    ASSUME NEW days, \A day \in days : day \in Seq(Int)
    PROVE  HoursBounded(days)
<1> SUFFICES ASSUME NEW day \in days
             PROVE  LET p == Chronological(day)
                    IN  /\ PaidMinutes(day) >= 0
                        /\ Len(p) <= 1 => PaidMinutes(day) = 0
                        /\ Len(p) >= 1 => PaidMinutes(day) <= p[Len(p)] - p[1]
    BY DEF HoursBounded
<1> DEFINE p == Chronological(day)
           n == Len(p)
           m == Minutes(Intervals(day))
<1>1. /\ p \in Seq(Int) /\ n = Len(day) /\ n \in Nat
      /\ \A i, j \in 1..n : i <= j => p[i] <= p[j]
    BY ChronologicalIs
<1>2. /\ m \in Int
      /\ n = 0 => m = 0
      /\ n >= 1 => m <= p[n] - p[1]
    BY MinutesBounded
<1>3. /\ PaidMinutes(day) \in Nat
      /\ n >= 2 => PaidMinutes(day) = IF m - 30 < 0 THEN 0 ELSE m - 30
      /\ n < 2 => PaidMinutes(day) = IF m < 0 THEN 0 ELSE m
    BY <1>1, PaidFrom
<1> HIDE DEF p, m
<1>4. CASE n >= 1
  <2> DEFINE x == p[n]
             y == p[1]
  <2>1. x \in Int /\ y \in Int /\ y <= x
      BY <1>1, <1>4
  <2>2. n = 1 => x = y
      OBVIOUS
  <2>3. m <= x - y
      BY <1>2, <1>4
  <2> HIDE DEF n, x, y
  <2>4. /\ PaidMinutes(day) >= 0
        /\ n <= 1 => PaidMinutes(day) = 0
        /\ PaidMinutes(day) <= x - y
      BY <1>1, <1>2, <1>3, <1>4, <2>1, <2>2, <2>3
  <2> QED
      BY <2>4 DEF p, n, x, y
<1>5. CASE n = 0
  <2> HIDE DEF n
  <2>1. PaidMinutes(day) = 0
      BY <1>2, <1>3, <1>5
  <2> QED
      BY <1>5, <2>1 DEF p, n
<1> QED
    BY <1>1, <1>4, <1>5

\* Two later punches come last, in their order.
LEMMA LaterPunches ==
    ASSUME NEW day \in Seq(Int), NEW back \in Int, NEW gone \in Int, back <= gone,
           \A i \in DOMAIN day : day[i] <= back
    PROVE  Chronological(day \o <<gone, back>>) = Chronological(day) \o <<back, gone>>
<1> DEFINE q == day \o <<gone, back>>
           n == Len(day)
           c == Chronological(day)
           e == c \o <<back, gone>>
           d == Chronological(q)
<1>1. /\ n \in Nat /\ DOMAIN day = 1..n /\ q \in Seq(Int) /\ Len(q) = n + 2
      /\ DOMAIN q = 1..(n + 2)
      /\ \A j \in 1..n : q[j] = day[j] /\ day[j] \in Int
      /\ q[n + 1] = gone /\ q[n + 2] = back
    OBVIOUS
<1>2. /\ c \in Seq(Int) /\ Len(c) = n
      /\ \A i \in 1..n : c[i] \in Range(day) /\ Placed(day, i, c[i])
    BY ChronologicalIs
<1>3. /\ d \in Seq(Int) /\ Len(d) = n + 2
      /\ \A i \in 1..(n + 2) : Placed(q, i, d[i])
    BY <1>1, ChronologicalIs
<1> HIDE DEF c
<1>4. /\ e \in Seq(Int) /\ Len(e) = n + 2
      /\ \A i \in 1..n : e[i] = c[i]
      /\ e[n + 1] = back /\ e[n + 2] = gone
    BY <1>1, <1>2
<1> HIDE DEF q, d, e
<1>5. ASSUME NEW i \in 1..n PROVE Placed(q, i, e[i])
  <2>1. /\ e[i] = c[i] /\ c[i] \in Int /\ c[i] <= back /\ i \in Nat
    <3>1. PICK j \in DOMAIN day : c[i] = day[j]
        BY <1>2 DEF Range
    <3>2. day[j] \in Int /\ day[j] <= back
        BY <1>1
    <3>3. e[i] = c[i] /\ i \in Nat
        BY <1>4
    <3> QED
        BY <3>1, <3>2, <3>3
  <2> DEFINE t == c[i]
  <2>2. /\ Cardinality(Before(day, t)) < i /\ i <= Cardinality(UpTo(day, t))
      BY <1>2, PunchesFinite
  <2>3. t \in Int /\ t <= back
      BY <2>1
  <2> HIDE DEF t
  <2>4. Before(q, t) \subseteq Before(day, t)
    <3> SUFFICES ASSUME NEW j \in 1..(n + 2), q[j] < t PROVE j \in Before(day, t)
        BY <1>1 DEF Before
    <3> DEFINE v == q[j]
    <3>1. v < t /\ (j = n + 1 => v = gone) /\ (j = n + 2 => v = back)
        BY <1>1
    <3> HIDE DEF v
    <3>2. j # n + 1 /\ j # n + 2
        BY <2>3, <3>1
    <3>3. j \in 1..n
        BY <1>1, <3>2
    <3> QED
        BY <1>1, <3>3 DEF Before
  <2>5. UpTo(day, t) \subseteq UpTo(q, t)
      BY <1>1 DEF UpTo
  <2>6. /\ Cardinality(Before(q, t)) <= Cardinality(Before(day, t))
        /\ Cardinality(UpTo(day, t)) <= Cardinality(UpTo(q, t))
      BY <1>1, <2>4, <2>5, PunchesFinite, FS_Subset
  <2> DEFINE a1 == Cardinality(Before(q, t))
             a2 == Cardinality(Before(day, t))
             b1 == Cardinality(UpTo(day, t))
             b2 == Cardinality(UpTo(q, t))
  <2>7. a1 \in Nat /\ a2 \in Nat /\ b1 \in Nat /\ b2 \in Nat
      BY <1>1, PunchesFinite
  <2>8. a1 <= a2 /\ a2 < i /\ i <= b1 /\ b1 <= b2
      BY <2>2, <2>6
  <2> HIDE DEF a1, a2, b1, b2
  <2>9. a1 < i /\ i <= b2
      BY <2>1, <2>7, <2>8
  <2> QED
      BY <1>1, <2>1, <2>9, PunchesFinite DEF a1, b2, t
<1>6. Placed(q, n + 1, back)
  <2>1. Before(q, back) \subseteq 1..n
    <3> SUFFICES ASSUME NEW j \in 1..(n + 2), q[j] < back PROVE j \in 1..n
        BY <1>1 DEF Before
    <3>1. j # n + 1 /\ j # n + 2
        BY <1>1
    <3> QED
        BY <1>1, <3>1
  <2>2. (1..n) \cup {n + 2} \subseteq UpTo(q, back)
      BY <1>1 DEF UpTo
  <2>3. /\ IsFiniteSet(1..n) /\ Cardinality(1..n) = n
        /\ Cardinality((1..n) \cup {n + 2}) = n + 1
    <3>1. IsFiniteSet(1..n) /\ Cardinality(1..n) = n /\ n + 2 \notin 1..n
        BY <1>1, CountUpTo
    <3> QED
        BY <3>1, FS_AddElement
  <2> DEFINE x == Cardinality(Before(q, back))
             y == Cardinality(UpTo(q, back))
  <2>4. x <= n /\ n + 1 <= y /\ x \in Nat /\ y \in Nat
      BY <1>1, <2>1, <2>2, <2>3, PunchesFinite, FS_Subset
  <2> HIDE DEF x, y
  <2>5. x < n + 1
      BY <1>1, <2>4
  <2> QED
      BY <1>1, <2>4, <2>5, PunchesFinite DEF x, y
<1>7. Placed(q, n + 2, gone)
  <2>1. Before(q, gone) \subseteq (1..n) \cup {n + 2}
    <3> SUFFICES ASSUME NEW j \in 1..(n + 2), q[j] < gone PROVE j \in (1..n) \cup {n + 2}
        BY <1>1 DEF Before
    <3>1. j # n + 1
        BY <1>1
    <3> QED
        BY <1>1, <3>1
  <2>2. 1..(n + 2) \subseteq UpTo(q, gone)
    <3> SUFFICES ASSUME NEW j \in 1..(n + 2) PROVE q[j] <= gone
        BY <1>1 DEF UpTo
    <3>1. j \in 1..n \/ j = n + 1 \/ j = n + 2
        BY <1>1
    <3>2. ASSUME j \in 1..n PROVE q[j] <= gone
      <4> DEFINE v == day[j]
      <4>1. v \in Int /\ v <= back /\ q[j] = v
          BY <1>1, <3>2
      <4> HIDE DEF v
      <4>2. v <= gone
          BY <4>1
      <4> QED
          BY <4>1, <4>2
    <3> QED
        BY <1>1, <3>1, <3>2
  <2>3. /\ IsFiniteSet((1..n) \cup {n + 2}) /\ Cardinality((1..n) \cup {n + 2}) = n + 1
        /\ Cardinality(1..(n + 2)) = n + 2
    <3>1. IsFiniteSet(1..n) /\ Cardinality(1..n) = n /\ n + 2 \notin 1..n
        BY <1>1, CountUpTo
    <3>2. Cardinality(1..(n + 2)) = n + 2
        BY <1>1, CountUpTo
    <3> QED
        BY <3>1, <3>2, FS_AddElement
  <2> DEFINE x == Cardinality(Before(q, gone))
             y == Cardinality(UpTo(q, gone))
  <2>4. x <= n + 1 /\ n + 2 <= y /\ x \in Nat /\ y \in Nat
    <3>1. x \in Nat /\ y \in Nat /\ IsFiniteSet(UpTo(q, gone))
        BY <1>1, PunchesFinite
    <3>2. x <= Cardinality((1..n) \cup {n + 2})
        BY <2>1, <2>3, FS_Subset
    <3>3. Cardinality(1..(n + 2)) <= y
        BY <2>2, <3>1, FS_Subset
    <3> QED
        BY <2>3, <3>1, <3>2, <3>3
  <2> HIDE DEF x, y
  <2>5. x < n + 2
      BY <1>1, <2>4
  <2> QED
      BY <1>1, <2>4, <2>5, PunchesFinite DEF x, y
<1>8. ASSUME NEW i \in 1..(n + 2) PROVE d[i] = e[i]
  <2>1. Placed(q, i, e[i])
    <3>1. i \in 1..n \/ i = n + 1 \/ i = n + 2
        BY <1>1
    <3> QED
        BY <1>4, <1>5, <1>6, <1>7, <3>1
  <2>2. Placed(q, i, d[i]) /\ d[i] \in Int /\ e[i] \in Int
      BY <1>3, <1>4
  <2> QED
      BY <1>1, <2>1, <2>2, PlacedOnce
<1>9. d = e
    BY <1>1, <1>3, <1>4, <1>8
<1> QED
    BY <1>9 DEF d, e, q, c

LEMMA TwoMore ==
    ASSUME NEW c \in Seq(Int), NEW a \in Int, NEW b \in Int
    PROVE  LET e == c \o <<a, b>>
               n == Len(c)
           IN  /\ e \in Seq(Int) /\ Len(e) = n + 2
               /\ \A i \in 1..n : e[i] = c[i]
               /\ e[n + 1] = a /\ e[n + 2] = b
  OBVIOUS

\* calculate_attendance_hours: an interval after all others, whichever of its two punches
\* is first in the workbook, is paid in full; lunch is taken off once.
THEOREM NextIntervalIsPaid ==
    ASSUME NEW days, \A day \in days : day \in Seq(Int), NEW times \in SUBSET Int
    PROVE  NextIntervalPaid(days, times)
<1> SUFFICES ASSUME NEW day \in days, NEW back \in times, NEW gone \in times,
                    Paired(day), Minutes(Intervals(day)) >= 30,
                    back <= gone, \A i \in DOMAIN day : day[i] <= back
             PROVE  PaidMinutes(day \o <<gone, back>>) = PaidMinutes(day) + gone - back
    BY DEF NextIntervalPaid
<1> DEFINE q == day \o <<gone, back>>
           n == Len(day)
           c == Chronological(day)
           e == Chronological(q)
           h == n \div 2
           f == Pairs(c)
           g == Pairs(e)
           m == Minutes(Intervals(day))
           k == Minutes(Intervals(q))
<1>1. /\ back \in Int /\ gone \in Int /\ n \in Nat
      /\ q \in Seq(Int) /\ Len(q) = n + 2 /\ n % 2 = 0
    BY DEF Paired
<1>2. /\ c \in Seq(Int) /\ Len(c) = n
    BY ChronologicalIs
<1>3. e = c \o <<back, gone>>
    BY <1>1, LaterPunches
<1>4. /\ h \in Nat /\ n = 2 * h /\ (n + 2) \div 2 = h + 1 /\ (n + 2) % 2 = 0
  <2>1. h \in Nat /\ n = 2 * h
      BY <1>1, Halves
  <2> HIDE DEF h
  <2> QED
      BY <2>1
<1> HIDE DEF q, c, e, n
<1>5. /\ e \in Seq(Int) /\ Len(e) = n + 2
      /\ \A i \in 1..n : e[i] = c[i]
      /\ e[n + 1] = back /\ e[n + 2] = gone
  <2> DEFINE x == c \o <<back, gone>>
  <2>1. back \in Int /\ gone \in Int /\ c \in Seq(Int)
      BY <1>1, <1>2
  <2>2. /\ x \in Seq(Int) /\ Len(x) = Len(c) + 2
        /\ \A i \in 1..Len(c) : x[i] = c[i]
        /\ x[Len(c) + 1] = back /\ x[Len(c) + 2] = gone
      BY <2>1, TwoMore
  <2> HIDE DEF x
  <2>3. e = x
      BY <1>3 DEF x
  <2> QED
      BY <1>2, <2>2, <2>3
<1>6. Paired(q) /\ Paired(day)
    BY <1>1, <1>4 DEF Paired
<1>7. m = SumFunctionOnSet(f, 1..h) /\ k = SumFunctionOnSet(g, 1..(h + 1))
  <2>1. m = SumFunctionOnSet(f, 1..(Len(c) \div 2))
      BY <1>6, MinutesOfPairs DEF c
  <2>2. k = SumFunctionOnSet(g, 1..(Len(e) \div 2))
      BY <1>1, <1>6, MinutesOfPairs DEF e
  <2> QED
      BY <1>2, <1>4, <1>5, <2>1, <2>2
<1>8. \A i \in 1..(h + 1) : g[i] = e[2*i] - e[2*i - 1] /\ g[i] \in Int
  <2> SUFFICES ASSUME NEW i \in 1..(h + 1)
               PROVE  g[i] = e[2*i] - e[2*i - 1] /\ g[i] \in Int
      OBVIOUS
  <2>1. g[i] = e[2*i] - e[2*i - 1]
      BY <1>4, <1>5 DEF Pairs
  <2>2. 2*i \in 1..(n + 2) /\ 2*i - 1 \in 1..(n + 2)
      BY <1>4
  <2>3. e[2*i] \in Int /\ e[2*i - 1] \in Int
      BY <1>5, <2>2
  <2> HIDE DEF g
  <2> QED
      BY <2>1, <2>3
<1>9. \A i \in 1..h : g[i] = f[i]
  <2> SUFFICES ASSUME NEW i \in 1..h PROVE g[i] = f[i]
      OBVIOUS
  <2>1. f[i] = c[2*i] - c[2*i - 1]
      BY <1>2 DEF Pairs
  <2>2. i \in 1..(h + 1) /\ 2*i \in 1..n /\ 2*i - 1 \in 1..n
      BY <1>4
  <2>3. e[2*i] = c[2*i] /\ e[2*i - 1] = c[2*i - 1]
      BY <1>5, <2>2
  <2>4. g[i] = e[2*i] - e[2*i - 1]
      BY <1>8, <2>2
  <2> HIDE DEF f, g
  <2> QED
      BY <2>1, <2>3, <2>4
<1>10. g[h + 1] = gone - back
  <2>1. h + 1 \in 1..(h + 1) /\ 2*(h + 1) = n + 2 /\ 2*(h + 1) - 1 = n + 1
    <3> HIDE DEF h
    <3> QED
        BY <1>4
  <2>2. g[h + 1] = e[2*(h + 1)] - e[2*(h + 1) - 1]
      BY <1>8, <2>1
  <2> HIDE DEF g
  <2> QED
      BY <1>5, <2>1, <2>2
<1> HIDE DEF f, g, h
<1>11. /\ k = SumFunctionOnSet(g, 1..h) + g[h + 1]
       /\ SumFunctionOnSet(g, 1..h) \in Int
  <2>1. h + 1 \in Nat \ {0} /\ (h + 1) - 1 = h
      BY <1>4
  <2> QED
      BY <1>7, <1>8, <2>1, SumUpTo
<1>12. SumFunctionOnSet(g, 1..h) = SumFunctionOnSet(f, 1..h)
  <2>1. IsFiniteSet(1..h)
      BY <1>4, CountUpTo
  <2> QED
      BY <1>9, <2>1, SumSame
<1>13. k = m + (gone - back)
    BY <1>7, <1>10, <1>11, <1>12
<1>14. m \in Int /\ m >= 30
    BY PaidFrom
<1>15. n # 0
  <2>1. n = 0 => m = 0
      BY <1>2, MinutesBounded DEF c
  <2> HIDE DEF m
  <2> QED
      BY <1>14, <2>1
<1>16. n >= 2
    BY <1>1, <1>4, <1>15
<1>17. /\ PaidMinutes(day) = IF m - 30 < 0 THEN 0 ELSE m - 30
       /\ PaidMinutes(q) = IF k - 30 < 0 THEN 0 ELSE k - 30
  <2>1. Len(q) >= 2 /\ Len(day) >= 2
      BY <1>1, <1>16 DEF n
  <2> QED
      BY <1>1, <2>1, PaidFrom
<1> HIDE DEF m, k
<1>18. PaidMinutes(q) = PaidMinutes(day) + gone - back
    BY <1>1, <1>13, <1>14, <1>17
<1> QED
    BY <1>18 DEF q

\* calculate_attendance_hours, FIRST_LAST_FALLBACK: a day in which a punch between the first
\* and the last is missing is paid from the first to the last, with the same lunch, and
\* gets a warning.
THEOREM ForgottenPunchIsKept ==
    ASSUME NEW days, \A day \in days : day \in Seq(Int)
    PROVE  ForgottenPunchKeeps(days)
<1> SUFFICES ASSUME NEW day \in days, Paired(day), NEW i \in 2..(Len(day) - 1)
             PROVE  LET c == Chronological(day)
                        p == SubSeq(c, 1, i - 1) \o SubSeq(c, i + 1, Len(c))
                    IN  PaidMinutes(p) >= PaidMinutes(day) /\ ForReview(p)
    BY DEF ForgottenPunchKeeps
<1> DEFINE c == Chronological(day)
           n == Len(day)
           p == SubSeq(c, 1, i - 1) \o SubSeq(c, i + 1, Len(c))
           m == Minutes(Intervals(day))
           k == Minutes(Intervals(p))
<1>1. /\ c \in Seq(Int) /\ Len(c) = n /\ n \in Nat /\ n % 2 = 0
      /\ \A a, b \in 1..n : a <= b => c[a] <= c[b]
    BY ChronologicalIs DEF Paired
<1>2. i \in Nat /\ 2 <= i /\ i <= n - 1 /\ n >= 4
    BY <1>1
<1> HIDE DEF n, c
<1>3. /\ p \in Seq(Int) /\ Len(p) = n - 1
      /\ \A j \in 1..(n - 1) : p[j] = IF j < i THEN c[j] ELSE c[j + 1]
    BY <1>1, <1>2
<1> HIDE DEF p
<1>4. \A a, b \in 1..(n - 1) : a <= b => p[a] <= p[b]
  <2> SUFFICES ASSUME NEW a \in 1..(n - 1), NEW b \in 1..(n - 1), a <= b
               PROVE  p[a] <= p[b]
      OBVIOUS
  <2> DEFINE x == IF a < i THEN a ELSE a + 1
             y == IF b < i THEN b ELSE b + 1
  <2>1. x \in 1..n /\ y \in 1..n /\ x <= y
      BY <1>1, <1>2
  <2>2. p[a] = c[x] /\ p[b] = c[y]
      BY <1>3
  <2> QED
      BY <1>1, <2>1, <2>2
<1>5. Chronological(p) = p
    BY <1>3, <1>4, OrderedStays
<1>6. ~Paired(p)
  <2>1. (n - 1) % 2 # 0
      BY <1>1, <1>2
  <2> QED
      BY <1>3, <2>1 DEF Paired
<1>7. k = p[n - 1] - p[1] /\ p[n - 1] = c[n] /\ p[1] = c[1]
  <2>1. k = p[Len(p)] - p[1]
      BY <1>3, <1>5, <1>6, MinutesOfOdd
  <2>2. ~(n - 1 < i) /\ n - 1 \in 1..(n - 1) /\ (n - 1) + 1 = n /\ 1 \in 1..(n - 1) /\ 1 < i
      BY <1>1, <1>2
  <2> QED
      BY <1>3, <2>1, <2>2
<1>8. m \in Int /\ m <= c[n] - c[1]
    BY <1>1, <1>2, MinutesBounded DEF c
<1>9. m <= k
    BY <1>7, <1>8
<1>10. k \in Int
    BY <1>3, PaidFrom
<1>11. /\ PaidMinutes(day) = IF m - 30 < 0 THEN 0 ELSE m - 30
       /\ PaidMinutes(p) = IF k - 30 < 0 THEN 0 ELSE k - 30
  <2>1. Len(p) >= 2 /\ Len(day) >= 2
      BY <1>2, <1>3 DEF n
  <2> QED
      BY <1>3, <2>1, PaidFrom
<1> HIDE DEF m, k
<1>12. PaidMinutes(p) >= PaidMinutes(day)
    BY <1>8, <1>9, <1>10, <1>11
<1>13. ForReview(p)
    BY <1>6 DEF ForReview, Method
<1> QED
    BY <1>12, <1>13 DEF p, c

\* _hours_from_minutes rounds each day by a third of a hundredth of an hour at most, and
\* _employee_summaries adds up the rounded days.
THEOREM RoundingIsBounded ==
    ASSUME NEW employees,
           \A days \in employees : days \in Seq(Seq(Int))
    PROVE  RoundingBounded(employees)
<1> SUFFICES ASSUME NEW days \in employees
             PROVE  3 * TotalHours(days)
                        - 5 * SumFunction([d \in DOMAIN days |-> PaidMinutes(days[d])])
                      \in -Len(days)..Len(days)
    BY DEF RoundingBounded
<1> DEFINE n == Len(days)
           f == [d \in 1..n |-> DayHours(days[d])]
           g == [d \in 1..n |-> PaidMinutes(days[d])]
<1>1. days \in Seq(Seq(Int)) /\ n \in Nat /\ DOMAIN days = 1..n
    OBVIOUS
<1>2. ASSUME NEW d \in 1..n
      PROVE  /\ f[d] \in Int /\ g[d] \in Int
             /\ 3 * f[d] - 5 * g[d] <= 1 /\ 5 * g[d] - 3 * f[d] <= 1
  <2>1. days[d] \in Seq(Int)
      BY <1>1
  <2>2. g[d] \in Nat
      BY <2>1, PaidFrom
  <2> DEFINE v == g[d]
  <2>3. f[d] = (10 * v + 3) \div 6
      BY DEF DayHours, Hours
  <2>4. v \in Nat
      BY <2>2
  <2> HIDE DEF f, g, v
  <2> DEFINE u == f[d]
  <2>5. u = (10 * v + 3) \div 6
      BY <2>3
  <2> HIDE DEF u
  <2>6. u \in Int /\ 3 * u - 5 * v <= 1 /\ 5 * v - 3 * u <= 1
      BY <2>4, <2>5, SMT
  <2> QED
      BY <2>4, <2>6 DEF u, v
<1>3. TotalHours(days) = SumFunctionOnSet(f, 1..n)
  <2>1. f = [d \in DOMAIN days |-> DayHours(days[d])] /\ DOMAIN f = 1..n
      BY <1>1
  <2> HIDE DEF f
  <2>2. SumFunction(f) = SumFunctionOnSet(f, 1..n)
      BY <2>1 DEF SumFunction
  <2> QED
      BY <2>1, <2>2 DEF TotalHours
<1>4. SumFunction([d \in DOMAIN days |-> PaidMinutes(days[d])]) = SumFunctionOnSet(g, 1..n)
  <2>1. g = [d \in DOMAIN days |-> PaidMinutes(days[d])] /\ DOMAIN g = 1..n
      BY <1>1
  <2> HIDE DEF g
  <2>2. SumFunction(g) = SumFunctionOnSet(g, 1..n)
      BY <2>1 DEF SumFunction
  <2> QED
      BY <2>1, <2>2
<1> HIDE DEF f, g, n
<1> DEFINE a == SumFunctionOnSet(f, 1..n)
           b == SumFunctionOnSet(g, 1..n)
<1>5. a \in Int /\ b \in Int /\ 3 * a - 5 * b <= 1 * n /\ 5 * b - 3 * a <= 1 * n
  <2>1. \A d \in 1..n : f[d] \in Int /\ g[d] \in Int
      BY <1>2
  <2>2. \A d \in 1..n : 3 * f[d] - 5 * g[d] <= 1 /\ 5 * g[d] - 3 * f[d] <= 1
      BY <1>2
  <2> DEFINE c == 3
             h == 5
             one == 1
  <2>3. c \in Int /\ h \in Int /\ one \in Int
      OBVIOUS
  <2>4. \A d \in 1..n : c * f[d] - h * g[d] <= one /\ h * g[d] - c * f[d] <= one
      BY <2>2
  <2> HIDE DEF c, h, one
  <2>5. /\ SumFunctionOnSet(f, 1..n) \in Int /\ SumFunctionOnSet(g, 1..n) \in Int
        /\ c * SumFunctionOnSet(f, 1..n) - h * SumFunctionOnSet(g, 1..n) <= one * n
        /\ h * SumFunctionOnSet(g, 1..n) - c * SumFunctionOnSet(f, 1..n) <= one * n
      BY <1>1, <2>1, <2>3, <2>4, SumsApart
  <2> QED
      BY <2>5 DEF c, h, one
<1> HIDE DEF a, b
<1>6. 3 * a - 5 * b \in -n..n
    BY <1>1, <1>5
<1> QED
    BY <1>3, <1>4, <1>6 DEF a, b, n

\* _day_columns: of a header with the numbers 1 to 31, a period within the month takes its
\* days and no other, however long the month.
THEOREM PeriodIsCovered ==
    ASSUME NEW last \in 1..31
    PROVE  PeriodCovered(last)
<1> SUFFICES ASSUME NEW from \in 1..last, NEW until \in 1..last, from <= until
             PROVE  DayColumns(1..31, [month |-> 1, day |-> from],
                               [month |-> 1, day |-> until], last)
                        = [month : {1}, day : from..until]
    BY DEF PeriodCovered
<1> DEFINE D == {n \in 1..31 : n \in 1..last /\ from <= n /\ n <= until}
<1>1. DayColumns(1..31, [month |-> 1, day |-> from], [month |-> 1, day |-> until], last)
        = {[month |-> 1, day |-> n] : n \in D}
    BY DEF DayColumns, NotAfter
<1>2. D = from..until
    OBVIOUS
<1> HIDE DEF D
<1>3. {[month |-> 1, day |-> n] : n \in from..until} = [month : {1}, day : from..until]
  <2> DEFINE R == {[month |-> 1, day |-> n] : n \in from..until}
  <2>1. ASSUME NEW r \in R PROVE r \in [month : {1}, day : from..until]
      OBVIOUS
  <2>2. ASSUME NEW r \in [month : {1}, day : from..until] PROVE r \in R
    <3>1. r = [month |-> 1, day |-> r.day] /\ r.day \in from..until
        OBVIOUS
    <3> QED
        BY <3>1
  <2> QED
      BY <2>1, <2>2
<1> QED
    BY <1>1, <1>2, <1>3
=============================================================================
