----------------------- MODULE ContainerInventoryProofs -----------------------
(***************************************************************************)
(* What holds of ContainerInventory for every number of requests,          *)
(* destinations, pallets and counts: labels, synchronisations, reports and *)
(* depletions never touch a loaded or an adjusted pallet, and what they    *)
(* commit agrees with the counts.  At the end, what holds of the           *)
(* calculation of the counts (PalletCalculation).                          *)
(***************************************************************************)
EXTENDS ContainerInventory, PalletCalculation, FiniteSetTheorems, TLAPS

DestType   == [state : {"absent", "here", "deleted"}, calc : Counts \cup {0},
               manual : Manual, final : Final]
PalletType == [status : PalletStates, index : Nat, printed : 0..MaxId]
MemType    == [op : Endpoints \cup {"none"}, dest : Dests \cup {0},
               slot : Slots \cup {<<0, 0>>}, status : ContStates \cup {"none"},
               mark : BOOLEAN, drafts : SUBSET (Dests \X Nat \X Nat),
               previous : SUBSET Tx, active : Nat, loaded : Nat,
               calc : Counts \cup {Keep}, manual : Manual \cup {Keep},
               final : Final \cup {Keep}]

\* A scan, a reversal or a depletion holds the lock of a pallet that is still
\* as it was accepted.
Held == {"readStatus", "count", "scanCommit", "depleteWrite"}

SlotHeld == \A t \in Tx : pc[t] \in Held =>
    /\ mem[t].slot \in Slots
    /\ rowOwner[mem[t].slot] = t
    /\ pallet[mem[t].slot].status \in
          IF pc[t] = "depleteWrite" THEN Reusable ELSE Reusable \cup {"LOADED"}

\* An activation holds the advisory lock, and has seen the current reports.
FileHeld == \A t \in Tx : pc[t] = "fileWrite" =>
    fileOwner = t /\ mem[t].previous = reports

\* A label that was printed is on the one current label PDF; one current report.
PrintedKept ==
    /\ \A s \in Slots : pallet[s].printed # 0 => pallet[s].printed \in labels
    /\ \A f, g \in labels : f = g
    /\ \A f, g \in reports : f = g

\* The numbers of a destination leave no gap.
Contiguous == \A d \in Dests : \E k \in 0..MaxNo[d] : OccupiedNos(d) = 1..k

IInv == TypeOK /\ SlotHeld /\ FileHeld /\ PrintedKept /\ Contiguous

-----------------------------------------------------------------------------
\* Finite sets

\* A container has finitely many pallets, so every set of them has a size.
LEMMA SlotsFinite == IsFiniteSet(Slots)
<1> DEFINE Part(d) == {d} \X (1..MaxNo[d])
           Parts   == {Part(d) : d \in Dests}
           f       == [d \in Dests |-> Part(d)]
<1>1. f \in Surjection(Dests, Parts)
  BY DEF Surjection
<1>2. IsFiniteSet(Parts)
  BY <1>1, FS_Surjection, ContainerInventoryAssumption
<1>3. ASSUME NEW d \in Dests
      PROVE  IsFiniteSet(Part(d))
  <2>1. IsFiniteSet({d})
    BY FS_Singleton
  <2>2. MaxNo[d] \in Int /\ 1 \in Int
    BY ContainerInventoryAssumption
  <2>3. IsFiniteSet(1..MaxNo[d])
    BY <2>2, FS_Interval
  <2> QED
    BY <2>1, <2>3, FS_Product
<1>4. \A T \in Parts : IsFiniteSet(T)
  BY <1>3
<1> HIDE DEF Parts
<1>5. IsFiniteSet(UNION Parts)
  BY <1>2, <1>4, FS_UNION
<1> QED
  BY <1>5 DEF Slots, Parts

LEMMA SlotCount ==
    ASSUME NEW S \in SUBSET Slots
    PROVE  IsFiniteSet(S) /\ Cardinality(S) \in Nat
  BY SlotsFinite, FS_Subset, FS_CardinalityType

LEMMA SlotsAre ==
    \A s : s \in Slots <=> s \in Dests \X Nat /\ s[2] \in 1..MaxNo[s[1]]
<1>1. \A d \in Dests : MaxNo[d] \in Nat /\ d \in Nat
  BY ContainerInventoryAssumption
<1> QED
  BY <1>1 DEF Slots

LEMMA IndexType == \A d : Index(d) \in Nat
<1> SUFFICES ASSUME NEW d
             PROVE  Index(d) \in Nat
  OBVIOUS
<1>1. {e \in Here : e <= d} \in SUBSET Dests
  BY DEF Here
<1>2. IsFiniteSet({e \in Here : e <= d})
  BY <1>1, FS_Subset, ContainerInventoryAssumption
<1> QED
  BY <1>2, FS_CardinalityType DEF Index

-----------------------------------------------------------------------------
\* Types

LEMMA IdleType == Idle \in MemType
  BY DEF Idle, MemType

LEMMA TypesOfMem ==
    TypeOK <=>
        /\ contStatus \in ContStates
        /\ dest \in [Dests -> DestType]
        /\ pallet \in [Slots -> PalletType]
        /\ labels \subseteq 1..MaxId /\ reports \subseteq Tx
        /\ contOwner \in Tx \cup {Nobody}
        /\ rowOwner \in [Slots -> Tx \cup {Nobody}]
        /\ fileOwner \in Tx \cup {Nobody}
        /\ pc \in [Tx -> Steps]
        /\ mem \in [Tx -> MemType]
  BY DEF TypeOK, DestType, PalletType, MemType

\* What ends, begins or goes on keeps the types of what it moves.
LEMMA FinishMoves ==
    ASSUME TypeOK, NEW t \in Tx, Finish(t)
    PROVE  /\ contOwner' \in Tx \cup {Nobody}
           /\ rowOwner' \in [Slots -> Tx \cup {Nobody}]
           /\ fileOwner' \in Tx \cup {Nobody}
           /\ pc' \in [Tx -> Steps] /\ mem' \in [Tx -> MemType]
           /\ pc'[t] = "idle"
           /\ \A u \in Tx \ {t} : pc'[u] = pc[u] /\ mem'[u] = mem[u]
           /\ \A s \in Slots : rowOwner[s] # t => rowOwner'[s] = rowOwner[s]
           /\ fileOwner # t => fileOwner' = fileOwner
  BY IdleType, TypesOfMem DEF Finish, Steps

LEMMA BeginMoves ==
    ASSUME TypeOK, NEW t \in Tx, NEW op, NEW step \in Steps, NEW m \in MemType,
           Begin(t, op, step, m)
    PROVE  /\ pc' \in [Tx -> Steps] /\ mem' \in [Tx -> MemType]
           /\ pc'[t] = step /\ pc[t] = "idle" /\ op \in Ops
           /\ mem'[t].slot = m.slot
           /\ \A u \in Tx \ {t} : pc'[u] = pc[u] /\ mem'[u] = mem[u]
<1>1. op \in Endpoints
  BY ContainerInventoryAssumption DEF Begin
<1>2. [m EXCEPT !.op = op] \in MemType /\ [m EXCEPT !.op = op].slot = m.slot
  BY <1>1 DEF MemType
<1> QED
  BY <1>2, TypesOfMem DEF Begin

LEMMA GotoMoves ==
    ASSUME TypeOK, NEW t \in Tx, NEW step \in Steps, Goto(t, step)
    PROVE  /\ pc' \in [Tx -> Steps]
           /\ pc'[t] = step
           /\ \A u \in Tx \ {t} : pc'[u] = pc[u]
  BY DEF Goto, TypeOK

LEMMA RowIs ==
    ASSUME NEW status, NEW index, NEW printed
    PROVE  /\ Row(status, index, printed).status = status
           /\ Row(status, index, printed).printed = printed
  BY DEF Row

LEMMA RowType ==
    ASSUME NEW status \in PalletStates, NEW index \in Nat, NEW printed \in 0..MaxId
    PROVE  Row(status, index, printed) \in PalletType
  BY DEF Row, PalletType

LEMMA NoRowType == NoRow \in PalletType /\ NoRow.printed = 0 /\ NoRow.status = "NONE"
  BY ContainerInventoryAssumption DEF NoRow, PalletType, PalletStates

\* Only the status of a pallet is changed.
LEMMA StatusType ==
    ASSUME TypeOK, NEW s \in Slots, NEW status \in PalletStates
    PROVE  [pallet[s] EXCEPT !.status = status] \in PalletType
  BY TypesOfMem DEF PalletType

\* An id that nothing refers to is there, and is not 0.
LEMMA NewIdType ==
    ASSUME ~(1..MaxId \subseteq IdsInUse)
    PROVE  NewId \in 1..MaxId /\ NewId \notin IdsInUse
  BY DEF NewId

\* The types of the next state, from those of what a step writes.
LEMMA TypesNext ==
    TypeOK' <=>
        /\ contStatus' \in ContStates
        /\ dest' \in [Dests -> DestType]
        /\ pallet' \in [Slots -> PalletType]
        /\ labels' \subseteq 1..MaxId /\ reports' \subseteq Tx
        /\ contOwner' \in Tx \cup {Nobody}
        /\ rowOwner' \in [Slots -> Tx \cup {Nobody}]
        /\ fileOwner' \in Tx \cup {Nobody}
        /\ pc' \in [Tx -> Steps]
        /\ mem' \in [Tx -> MemType]
  BY DEF TypeOK, DestType, PalletType, MemType

\* Reads that begin a request write nothing else.
LEMMA BeginTypes ==
    ASSUME TypeOK, NEW t \in Tx, NEW op, NEW step \in Steps, NEW m \in MemType,
           Begin(t, op, step, m), UNCHANGED <<inventory, files>>,
           contOwner' \in Tx \cup {Nobody}, fileOwner' = fileOwner,
           rowOwner' \in [Slots -> Tx \cup {Nobody}]
    PROVE  TypeOK'
  BY BeginMoves, TypesNext, TypesOfMem DEF inventory, files

LEMMA FinishTypes ==
    ASSUME TypeOK, NEW t \in Tx, Finish(t), contStatus' \in ContStates,
           dest' \in [Dests -> DestType], pallet' \in [Slots -> PalletType],
           labels' \subseteq 1..MaxId, reports' \subseteq Tx
    PROVE  TypeOK'
  BY FinishMoves, TypesNext, TypesOfMem

LEMMA CountsAre ==
    /\ DestType = [state : {"absent", "here", "deleted"}, calc : Counts \cup {0},
                   manual : Overrides \cup {Null}, final : Counts \cup Overrides \cup {0}]
    /\ Counts \subseteq Nat /\ Overrides \subseteq Nat
    /\ \A d \in Dests : MaxNo[d] \in Nat /\ \A n \in Final : n \in Nat /\ n <= MaxNo[d]
    /\ Null \notin Nat /\ Keep \notin Nat /\ Keep # Null
  BY ContainerInventoryAssumption DEF DestType, Manual, Final

LEMMA FinalIsNat ==
    ASSUME TypeOK, NEW d \in Dests
    PROVE  dest[d].final \in Nat /\ dest[d].final <= MaxNo[d] /\ dest[d].final \in Final
<1>1. dest[d].final \in Final
  BY TypesOfMem DEF DestType
<1> QED
  BY <1>1, CountsAre

LEMMA DraftsType == TypeOK => Drafts \in SUBSET (Dests \X Nat \X Nat)
<1> SUFFICES ASSUME TypeOK
             PROVE  Drafts \in SUBSET (Dests \X Nat \X Nat)
  OBVIOUS
<1>1. ASSUME NEW d \in Here
      PROVE  {d} \X (1..dest[d].final) \X {Index(d)} \in SUBSET (Dests \X Nat \X Nat)
  BY FinalIsNat, IndexType DEF Here
<1> QED
  BY <1>1 DEF Drafts

\* Every request that begins, has a memory of the type of memories.
LEMMA MemoryTypes ==
    ASSUME TypeOK
    PROVE  /\ [Idle EXCEPT !.drafts = Drafts] \in MemType
           /\ \A b \in BOOLEAN : [Idle EXCEPT !.mark = b] \in MemType
           /\ [Idle EXCEPT !.status = contStatus] \in MemType
           /\ \A d \in Dests : [Idle EXCEPT !.dest = d] \in MemType
           /\ \A s \in Slots : [Idle EXCEPT !.slot = s, !.dest = s[1]] \in MemType
<1>1. [Idle EXCEPT !.drafts = Drafts] \in MemType
  BY IdleType, DraftsType DEF MemType
<1>2. \A b \in BOOLEAN : [Idle EXCEPT !.mark = b] \in MemType
  BY IdleType DEF MemType
<1>3. [Idle EXCEPT !.status = contStatus] \in MemType
  BY IdleType, TypesOfMem DEF MemType
<1>4. \A d \in Dests : [Idle EXCEPT !.dest = d] \in MemType
  BY IdleType DEF MemType
<1>5. \A s \in Slots : s[1] \in Dests
  BY SlotsAre
<1>6. \A s \in Slots : [Idle EXCEPT !.slot = s, !.dest = s[1]] \in MemType
  BY <1>5, IdleType DEF MemType
<1> QED
  BY <1>1, <1>2, <1>3, <1>4, <1>6

LEMMA EditReadTypes ==
    ASSUME TypeOK, NEW t \in Tx, NEW d \in Dests, NEW edit \in Edits, EditRead(t, d, edit)
    PROVE  TypeOK'
<1> DEFINE c == IF edit.calc = Keep THEN dest[d].calc ELSE edit.calc
           m == IF edit.manual = Keep THEN dest[d].manual ELSE edit.manual
           f == FinalOf(m, c)
           Changed(old, new) == IF old = new THEN Keep ELSE new
           memory == [Idle EXCEPT !.dest = d, !.calc = Changed(dest[d].calc, c),
                                  !.manual = Changed(dest[d].manual, m),
                                  !.final = Changed(dest[d].final, f)]
<1>1. edit.calc \in Counts \cup {Keep} /\ edit.manual \in Manual \cup {Keep}
  BY ContainerInventoryAssumption
<1>2. dest[d].calc \in Counts \cup {0} /\ dest[d].manual \in Manual
  BY TypesOfMem DEF DestType
<1>3. Changed(dest[d].calc, c) \in Counts \cup {Keep}
  BY <1>1
<1>4. m \in Manual /\ Changed(dest[d].manual, m) \in Manual \cup {Keep}
  BY <1>1, <1>2
<1>5. f \in Final
  BY <1>1, <1>2, <1>4 DEF FinalOf, Final, Manual
<1>6. Changed(dest[d].final, f) \in Final \cup {Keep}
  BY <1>5
<1> HIDE DEF c, m, f, Changed
<1>7. memory \in MemType
  BY <1>3, <1>4, <1>6, IdleType DEF MemType
<1>8. Begin(t, "edit", "edit", memory) /\ UNCHANGED <<inventory, files, locks>>
  BY DEF EditRead, c, m, f, Changed
<1> HIDE DEF memory
<1> QED
  BY <1>7, <1>8, BeginTypes, TypesOfMem DEF Steps, locks

LEMMA EditWriteTypes ==
    ASSUME TypeOK, NEW t \in Tx, EditWrite(t)
    PROVE  TypeOK' /\ mem[t].dest \in Dests
           /\ \A d \in Dests : dest'[d].state = dest[d].state
<1> DEFINE New(old, new) == IF new = Keep THEN old ELSE new
           d == mem[t].dest
           written == [dest[d] EXCEPT !.calc = New(@, mem[t].calc),
                                      !.manual = New(@, mem[t].manual),
                                      !.final = New(@, mem[t].final)]
<1>1. mem[t] \in MemType /\ d \in Dests /\ dest[d] \in DestType
  BY TypesOfMem DEF EditWrite, EditAllowed, Here
<1>2. /\ mem[t].calc \in Counts \cup {Keep}
      /\ mem[t].manual \in Manual \cup {Keep}
      /\ mem[t].final \in Final \cup {Keep}
  BY <1>1 DEF MemType
<1>3. written \in DestType /\ written.state = dest[d].state
  BY <1>1, <1>2 DEF DestType
<1>4. dest' = [dest EXCEPT ![d] = written]
  BY <1>1, TypesOfMem DEF EditWrite
<1> HIDE DEF written
<1>5. dest' \in [Dests -> DestType] /\ \A e \in Dests : dest'[e].state = dest[e].state
  BY <1>1, <1>3, <1>4, TypesOfMem
<1>6. Finish(t) /\ contStatus' = "CORRECTED" /\ UNCHANGED <<pallet, files>>
  BY DEF EditWrite
<1>7. TypeOK'
  BY <1>5, <1>6, FinishTypes, TypesOfMem DEF files, ContStates
<1> QED
  BY <1>1, <1>5, <1>7

\* New labels: every number up to the final count of a destination that is here
\* has a printed pallet, no other has one, and none was loaded or adjusted.
LEMMA LabelsWriteDoes ==
    ASSUME TypeOK, NEW t \in Tx, LabelsWrite(t)
    PROVE  /\ NewId \in 1..MaxId
           /\ \A s \in Slots : pallet'[s] =
                 IF s[1] \in Here /\ s[2] <= dest[s[1]].final
                 THEN Row("LABEL_PRINTED", Index(s[1]), NewId) ELSE NoRow
           /\ pallet' \in [Slots -> PalletType]
           /\ \A s \in Slots : pallet[s].status \in Reusable \cup {"NONE"}
           /\ \A s \in Rows : rowOwner[s] \in {t, Nobody}
           /\ TypeOK'
<1>1. NewId \in 1..MaxId /\ MaxId \in Nat
  BY NewIdType, ContainerInventoryAssumption DEF LabelsWrite
<1>2. Drafts = mem[t].drafts /\ CanRegenerate
  BY DEF LabelsWrite, LabelsCurrent
<1>3. ASSUME NEW s \in Slots
      PROVE  <<s[1], s[2], Index(s[1])>> \in Drafts <=>
                s[1] \in Here /\ s[2] <= dest[s[1]].final
  <2>1. s[1] \in Dests /\ s[2] \in Nat \ {0}
    BY SlotsAre, CountsAre
  <2>2. dest[s[1]].final \in Nat
    BY <2>1, FinalIsNat
  <2> QED
    BY <2>1, <2>2 DEF Drafts
<1>4. pallet' = DraftRows(Drafts)
  BY <1>2 DEF LabelsWrite
<1>5. ASSUME NEW s \in Slots
      PROVE  /\ pallet'[s] = IF s[1] \in Here /\ s[2] <= dest[s[1]].final
                             THEN Row("LABEL_PRINTED", Index(s[1]), NewId) ELSE NoRow
             /\ pallet'[s] \in PalletType
  <2>1. pallet'[s] = IF s[1] \in Here /\ s[2] <= dest[s[1]].final
                     THEN Row("LABEL_PRINTED", Index(s[1]), NewId) ELSE NoRow
    BY <1>3, <1>4 DEF DraftRows
  <2>2. "LABEL_PRINTED" \in PalletStates /\ NewId \in 0..MaxId
    BY <1>1 DEF PalletStates, Reusable
  <2>3. Row("LABEL_PRINTED", Index(s[1]), NewId) \in PalletType
    BY <2>2, IndexType, RowType
  <2> QED
    BY <2>1, <2>3, NoRowType
<1>6. pallet' \in [Slots -> PalletType]
  BY <1>4, <1>5 DEF DraftRows
<1>7. \A s \in Slots : pallet[s].status \in Reusable \cup {"NONE"}
  BY <1>2 DEF CanRegenerate, Rows
<1>8. \A s \in Rows : rowOwner[s] \in {t, Nobody}
  BY DEF LabelsWrite, RowsFree
<1>9. /\ Finish(t) /\ labels' = {NewId} /\ contStatus' = "LABELS_GENERATED"
      /\ UNCHANGED <<dest, reports>>
  BY DEF LabelsWrite
<1>10. TypeOK'
  BY <1>1, <1>6, <1>9, FinishTypes, TypesOfMem DEF ContStates
<1> QED
  BY <1>1, <1>5, <1>6, <1>7, <1>8, <1>10

\* The pallets that a synchronisation creates and cancels.
SyncNew     == UNION {Missing(d) : d \in Here}
SyncSurplus == UNION {Surplus(d) : d \in Here}

LEMMA SyncWriteDoes ==
    ASSUME TypeOK, NEW t \in Tx, SyncWrite(t)
    PROVE  /\ SyncNew \subseteq Slots
           /\ \A s \in SyncSurplus : s \in Active /\ pallet[s].status \in Reusable
           /\ \A s \in Slots :
                 /\ s \in SyncNew => pallet'[s] = Row("PLANNED", Index(s[1]), 0)
                 /\ s \notin SyncNew /\ s \in SyncSurplus =>
                       pallet'[s] = [pallet[s] EXCEPT !.status = "CANCELLED"]
                 /\ s \notin SyncNew /\ s \notin SyncSurplus => pallet'[s] = pallet[s]
           /\ \A s \in Rows : rowOwner[s] \in {t, Nobody}
           /\ contStatus \notin {"LOADING_IN_PROGRESS", "LOADED"}
           /\ TypeOK'
<1>1. /\ pc[t] = "rows" /\ RowsFree(t, Rows) /\ SyncAllowed(t) /\ SyncNew \subseteq Slots
      /\ pallet' = [s \in Slots |->
             IF s \in SyncNew THEN Row("PLANNED", Index(s[1]), 0)
             ELSE IF s \in SyncSurplus THEN [pallet[s] EXCEPT !.status = "CANCELLED"]
             ELSE pallet[s]]
      /\ contStatus' \in {contStatus, "UNLOADED"} /\ Finish(t) /\ UNCHANGED <<dest, files>>
  BY DEF SyncWrite, SyncNew, SyncSurplus
<1>2. \A s \in SyncSurplus : s \in Active /\ pallet[s].status \in Reusable
  BY <1>1 DEF SyncSurplus, SyncAllowed, Surplus, ActiveOf
<1>3. contStatus \notin {"LOADING_IN_PROGRESS", "LOADED"}
  BY <1>1 DEF SyncAllowed, EffectiveStatus
<1>4. {"PLANNED", "CANCELLED"} \subseteq PalletStates /\ 0 \in 0..MaxId
  BY ContainerInventoryAssumption DEF PalletStates, Reusable, Removed
<1>5. ASSUME NEW s \in Slots
      PROVE  pallet'[s] \in PalletType
  <2>1. Row("PLANNED", Index(s[1]), 0) \in PalletType
    BY <1>4, IndexType, RowType
  <2>2. [pallet[s] EXCEPT !.status = "CANCELLED"] \in PalletType
    BY <1>4, StatusType
  <2>3. pallet[s] \in PalletType
    BY TypesOfMem
  <2>4. \/ pallet'[s] = Row("PLANNED", Index(s[1]), 0)
        \/ pallet'[s] = [pallet[s] EXCEPT !.status = "CANCELLED"]
        \/ pallet'[s] = pallet[s]
    BY <1>1, Zenon
  <2> QED
    BY <2>1, <2>2, <2>3, <2>4, Zenon
<1>6. pallet' \in [Slots -> PalletType]
  BY <1>1, <1>5
<1>7. TypeOK'
  BY <1>1, <1>6, FinishTypes, TypesOfMem DEF ContStates, Locked, files
<1>8. \A s \in Slots :
         /\ s \in SyncNew => pallet'[s] = Row("PLANNED", Index(s[1]), 0)
         /\ s \notin SyncNew /\ s \in SyncSurplus =>
               pallet'[s] = [pallet[s] EXCEPT !.status = "CANCELLED"]
         /\ s \notin SyncNew /\ s \notin SyncSurplus => pallet'[s] = pallet[s]
  BY <1>1, Zenon
<1> QED
  BY <1>1, <1>2, <1>3, <1>7, <1>8 DEF RowsFree

\* The status that a scan writes, when it is a new one.
LEMMA NewContainerStatus ==
    ASSUME NEW active \in Nat, NEW loaded \in Nat, NEW current
    PROVE  LET next == StatusFromCounts(active, loaded, current)
           IN  next # current => next \in {"LOADED", "LOADING_IN_PROGRESS", "LABELS_GENERATED"}
  BY DEF StatusFromCounts

\* A write of one status.
OnlyStatus(s, status) ==
    /\ \A u \in Slots \ {s} : pallet'[u] = pallet[u]
    /\ s \in Slots => pallet'[s] = [pallet[s] EXCEPT !.status = status]

LEMMA OneStatusWritten ==
    ASSUME TypeOK, NEW s, NEW status \in PalletStates,
           pallet' = [pallet EXCEPT ![s].status = status]
    PROVE  OnlyStatus(s, status) /\ pallet' \in [Slots -> PalletType]
<1>1. \A u \in Slots \ {s} : pallet'[u] = pallet[u]
  BY TypesOfMem
<1>2. s \in Slots => pallet'[s] = [pallet[s] EXCEPT !.status = status]
  BY TypesOfMem
<1>3. pallet' \in [Slots -> PalletType]
  BY <1>1, <1>2, StatusType, TypesOfMem
<1> QED
  BY <1>1, <1>2, <1>3 DEF OnlyStatus

LEMMA ScanCommitDoes ==
    ASSUME TypeOK, NEW t \in Tx, ScanCommit(t)
    PROVE  /\ TypeOK'
           /\ OnlyStatus(mem[t].slot, NewStatus(t))
           /\ contStatus' # contStatus => contStatus' # "UNLOADED"
<1>1. mem[t].active \in Nat /\ mem[t].loaded \in Nat
  BY TypesOfMem DEF MemType
<1>2. contStatus' \in ContStates /\ (contStatus' # contStatus => contStatus' # "UNLOADED")
  BY <1>1, NewContainerStatus, TypesOfMem DEF ScanCommit, ContStates, Locked
<1>3. PICK s, status : s = mem[t].slot /\ status = NewStatus(t)
  OBVIOUS
<1>4. status \in PalletStates
  BY <1>3 DEF NewStatus, PalletStates, Reusable
<1>5. pallet' = [pallet EXCEPT ![s].status = status]
  BY <1>3 DEF ScanCommit
<1>6. OnlyStatus(s, status) /\ pallet' \in [Slots -> PalletType]
  BY <1>4, <1>5, OneStatusWritten
<1>7. Finish(t) /\ UNCHANGED <<dest, files>>
  BY DEF ScanCommit
<1>8. TypeOK'
  BY <1>2, <1>6, <1>7, FinishTypes, TypesOfMem DEF files
<1> QED
  BY <1>2, <1>3, <1>6, <1>8

LEMMA DepleteWriteDoes ==
    ASSUME TypeOK, NEW t \in Tx, DepleteWrite(t)
    PROVE  /\ TypeOK'
           /\ OnlyStatus(mem[t].slot, "ADJUSTED_OUT")
           /\ contStatus' = contStatus
<1>1. PICK s, status : s = mem[t].slot /\ status = "ADJUSTED_OUT"
  OBVIOUS
<1>2. status \in PalletStates
  BY <1>1 DEF PalletStates, Removed
<1>3. pallet' = [pallet EXCEPT ![s].status = status]
  BY <1>1 DEF DepleteWrite
<1>4. OnlyStatus(s, status) /\ pallet' \in [Slots -> PalletType]
  BY <1>2, <1>3, OneStatusWritten
<1>5. Finish(t) /\ UNCHANGED <<contStatus, dest, files>>
  BY DEF DepleteWrite
<1>6. TypeOK'
  BY <1>4, <1>5, FinishTypes, TypesOfMem DEF files
<1> QED
  BY <1>1, <1>4, <1>5, <1>6

LEMMA DeleteWriteDoes ==
    ASSUME TypeOK, NEW t \in Tx, DeleteWrite(t)
    PROVE  /\ TypeOK'
           /\ \A s \in Slots : pallet'[s] = IF s[1] = mem[t].dest THEN NoRow ELSE pallet[s]
           /\ \A s \in RowsOf(mem[t].dest) :
                 rowOwner[s] \in {t, Nobody} /\ pallet[s].status # "ADJUSTED_OUT"
           /\ mem[t].dest \in Dests => dest'[mem[t].dest].state = "deleted"
<1>1. /\ pallet' = [s \in Slots |-> IF s[1] = mem[t].dest THEN NoRow ELSE pallet[s]]
      /\ dest' = [dest EXCEPT ![mem[t].dest].state = "deleted"]
      /\ contStatus' = "CORRECTED" /\ Finish(t) /\ UNCHANGED files
      /\ \A s \in RowsOf(mem[t].dest) :
            rowOwner[s] \in {t, Nobody} /\ pallet[s].status # "ADJUSTED_OUT"
  BY DEF DeleteWrite, RowsFree
<1>2. \A d \in Dests : [dest[d] EXCEPT !.state = "deleted"] \in DestType
  BY TypesOfMem DEF DestType
<1>3. dest' \in [Dests -> DestType]
  BY <1>1, <1>2, TypesOfMem
<1>4. pallet' \in [Slots -> PalletType]
  BY <1>1, NoRowType, TypesOfMem
<1>5. TypeOK'
  BY <1>1, <1>3, <1>4, FinishTypes, TypesOfMem DEF files, ContStates
<1>6. mem[t].dest \in Dests => dest'[mem[t].dest].state = "deleted"
  BY <1>1, TypesOfMem DEF DestType
<1> QED
  BY <1>1, <1>5, <1>6

LEMMA CreateTypes ==
    ASSUME TypeOK, NEW d \in Dests, NEW calc \in Counts, NEW manual \in Manual,
           CreateDestination(d, calc, manual)
    PROVE  TypeOK'
<1> DEFINE new == [state |-> "here", calc |-> calc, manual |-> manual,
                   final |-> FinalOf(manual, calc)]
<1>1. new \in DestType
  BY DEF DestType, FinalOf, Final, Manual
<1>2. dest' = [dest EXCEPT ![d] = new] /\ contStatus' = "CORRECTED"
      /\ UNCHANGED <<pallet, files, locks, pc, mem>>
  BY DEF CreateDestination
<1> HIDE DEF new
<1> QED
  BY <1>1, <1>2, TypesOfMem, TypesNext DEF files, locks, ContStates

\* The steps that write neither the inventory nor a file, by what they lock.
Reads(t) ==
    \/ LabelsRead(t) \/ ReportRead(t) \/ OfficeComplete(t) \/ WageComplete(t) \/ StartRead(t)
    \/ \E d \in Dests, edit \in Edits : EditRead(t, d, edit)
    \/ \E d \in Dests : DeleteLock(t, d)

Locks(t) == \E s \in Slots : ScanPallet(t, s) \/ ReversePallet(t, s) \/ DepletePallet(t, s)

Moves(t) == LockContainer(t) \/ ActivateReport(t) \/ ReadStatus(t) \/ CountPallets(t)

Quiet(t) == Reads(t) \/ Locks(t) \/ Moves(t) \/ Abort(t)

\* The steps that write, and what the office writes in one step.
Writes(t) ==
    \/ LabelsWrite(t) \/ ReportWrite(t) \/ SyncWrite(t) \/ EditWrite(t) \/ DeleteWrite(t)
    \/ ScanCommit(t) \/ StartWrite(t) \/ DepleteWrite(t)

AtOnce ==
    \/ \E d \in Dests, calc \in Counts, manual \in Manual : CreateDestination(d, calc, manual)
    \/ EditFields
    \/ \E status \in SetTo : SetStatus(status)

LEMMA NextIs == Next <=> (\E t \in Tx : Quiet(t) \/ Writes(t)) \/ AtOnce
  BY DEF Next, Quiet, Writes, AtOnce, Reads, Locks, Moves

LEMMA QuietKeeps ==
    ASSUME NEW t \in Tx, Quiet(t)
    PROVE  UNCHANGED <<inventory, files>>
<1>1. CASE Reads(t)
  BY <1>1 DEF Reads, LabelsRead, ReportRead, OfficeComplete, WageComplete, StartRead,
              EditRead, DeleteLock
<1>2. CASE Locks(t)
  BY <1>2 DEF Locks, ScanPallet, ReversePallet, DepletePallet, LockPallet
<1>3. CASE Moves(t)
  BY <1>3 DEF Moves, LockContainer, ActivateReport, ReadStatus, CountPallets
<1>4. CASE Abort(t)
  BY <1>4 DEF Abort
<1> QED
  BY <1>1, <1>2, <1>3, <1>4 DEF Quiet

\* What reads: the request is not at a pallet or at the file, no pallet is locked.
LEMMA ReadsDo ==
    ASSUME TypeOK, NEW t \in Tx, Reads(t)
    PROVE  /\ TypeOK'
           /\ pc'[t] \in Steps \ (Held \cup {"fileWrite"})
           /\ \A u \in Tx \ {t} : pc'[u] = pc[u] /\ mem'[u] = mem[u]
           /\ UNCHANGED <<rowOwner, fileOwner>>
<1> USE DEF Steps, Held
<1>1. CASE LabelsRead(t)
  BY <1>1, MemoryTypes, BeginMoves, BeginTypes, TypesOfMem DEF LabelsRead, locks
<1>2. CASE ReportRead(t)
  <2>1. Editable \in BOOLEAN
    BY DEF Editable
  <2> QED
    BY <1>2, <2>1, MemoryTypes, BeginMoves, BeginTypes, TypesOfMem DEF ReportRead, locks
<1>3. CASE OfficeComplete(t)
  BY <1>3, MemoryTypes, BeginMoves, BeginTypes, TypesOfMem DEF OfficeComplete, locks
<1>4. CASE WageComplete(t)
  BY <1>4, MemoryTypes, BeginMoves, BeginTypes, TypesOfMem DEF WageComplete, locks
<1>5. CASE StartRead(t)
  BY <1>5, IdleType, BeginMoves, BeginTypes, TypesOfMem DEF StartRead, locks
<1>6. ASSUME NEW d \in Dests, NEW edit \in Edits, EditRead(t, d, edit)
      PROVE  /\ TypeOK'
             /\ pc'[t] \in Steps \ (Held \cup {"fileWrite"})
             /\ \A u \in Tx \ {t} : pc'[u] = pc[u] /\ mem'[u] = mem[u]
             /\ UNCHANGED <<rowOwner, fileOwner>>
  <2>1. pc' = [pc EXCEPT ![t] = "edit"] /\ \A u \in Tx \ {t} : mem'[u] = mem[u]
    BY <1>6, TypesOfMem DEF EditRead, Begin
  <2> QED
    BY <1>6, <2>1, EditReadTypes, TypesOfMem DEF EditRead, locks
<1>7. ASSUME NEW d \in Dests, DeleteLock(t, d)
      PROVE  /\ TypeOK'
             /\ pc'[t] \in Steps \ (Held \cup {"fileWrite"})
             /\ \A u \in Tx \ {t} : pc'[u] = pc[u] /\ mem'[u] = mem[u]
             /\ UNCHANGED <<rowOwner, fileOwner>>
  BY <1>7, MemoryTypes, BeginMoves, BeginTypes, TypesOfMem DEF DeleteLock, locks
<1> QED
  BY <1>1, <1>2, <1>3, <1>4, <1>5, <1>6, <1>7 DEF Reads

LEMMA LocksDo ==
    ASSUME TypeOK, NEW t \in Tx, Locks(t)
    PROVE  /\ TypeOK'
           /\ \A u \in Tx \ {t} : pc'[u] = pc[u] /\ mem'[u] = mem[u]
           /\ UNCHANGED fileOwner
           /\ \E s \in Slots :
                 /\ mem'[t].slot = s /\ rowOwner[s] = Nobody
                 /\ rowOwner' = [rowOwner EXCEPT ![s] = t]
                 /\ pc'[t] \in {"readStatus", "depleteWrite"}
                 /\ pallet[s].status \in
                       IF pc'[t] = "depleteWrite" THEN Reusable ELSE Reusable \cup {"LOADED"}
<1>1. PICK s \in Slots, op \in {"scan", "reverse", "deplete"},
           step \in {"readStatus", "depleteWrite"} :
          /\ LockPallet(t, op, step, s)
          /\ pallet[s].status \in
                IF step = "depleteWrite" THEN Reusable ELSE Reusable \cup {"LOADED"}
  BY DEF Locks, ScanPallet, ReversePallet, DepletePallet
<1> DEFINE m == [Idle EXCEPT !.slot = s, !.dest = s[1]]
<1>2. m \in MemType /\ m.slot = s
  BY MemoryTypes DEF Idle
<1>3. Begin(t, op, step, m) /\ rowOwner[s] = Nobody
      /\ rowOwner' = [rowOwner EXCEPT ![s] = t]
      /\ UNCHANGED <<inventory, files, contOwner, fileOwner>>
  BY <1>1 DEF LockPallet
<1> HIDE DEF m
<1>4. step \in Steps
  BY DEF Steps
<1>5. /\ pc'[t] = step /\ mem'[t].slot = m.slot
      /\ \A u \in Tx \ {t} : pc'[u] = pc[u] /\ mem'[u] = mem[u]
  BY <1>2, <1>3, <1>4, BeginMoves
<1>6. mem'[t].slot = s
  BY <1>2, <1>5
<1>7. rowOwner' \in [Slots -> Tx \cup {Nobody}]
  BY <1>3, TypesOfMem
<1>8. TypeOK'
  BY <1>2, <1>3, <1>4, <1>7, BeginTypes, TypesOfMem
<1> QED
  BY <1>1, <1>3, <1>5, <1>6, <1>8

\* What goes on: its pallet stays the same one; only an activation reaches the
\* file, under its lock and with the current reports before it.
LEMMA MovesDo ==
    ASSUME TypeOK, NEW t \in Tx, Moves(t)
    PROVE  /\ TypeOK'
           /\ \A u \in Tx \ {t} : pc'[u] = pc[u] /\ mem'[u] = mem[u]
           /\ mem'[t].slot = mem[t].slot
           /\ UNCHANGED rowOwner
           /\ pc'[t] \in Held => pc[t] \in Held /\ "depleteWrite" \notin {pc[t], pc'[t]}
           /\ \/ pc'[t] # "fileWrite" /\ fileOwner' = fileOwner
              \/ /\ pc'[t] = "fileWrite" /\ fileOwner = Nobody /\ fileOwner' = t
                 /\ mem'[t].previous = reports
<1> USE DEF Steps, Held
<1>1. mem[t] \in MemType
  BY TypesOfMem
<1>2. CASE LockContainer(t)
  <2>1. contOwner' = t /\ Goto(t, "rows")
        /\ UNCHANGED <<inventory, files, rowOwner, fileOwner, mem>>
    BY <1>2 DEF LockContainer
  <2> QED
    BY <2>1, GotoMoves, TypesOfMem, TypesNext DEF inventory, files
<1>3. CASE ActivateReport(t)
  <2> DEFINE m == [mem[t] EXCEPT !.previous = reports]
  <2>1. m \in MemType /\ m.slot = mem[t].slot /\ m.previous = reports
    BY <1>1, TypesOfMem DEF MemType
  <2>2. /\ fileOwner = Nobody /\ fileOwner' = t /\ mem' = [mem EXCEPT ![t] = m]
        /\ Goto(t, "fileWrite") /\ UNCHANGED <<inventory, files, contOwner, rowOwner>>
    BY <1>3 DEF ActivateReport
  <2> HIDE DEF m
  <2> QED
    BY <2>1, <2>2, GotoMoves, TypesOfMem, TypesNext DEF inventory, files
<1>4. CASE ReadStatus(t)
  <2> DEFINE m == [mem[t] EXCEPT !.status = contStatus]
  <2>1. m \in MemType /\ m.slot = mem[t].slot
    BY <1>1, TypesOfMem DEF MemType
  <2>2. /\ pc[t] = "readStatus" /\ mem' = [mem EXCEPT ![t] = m]
        /\ Goto(t, "count") /\ UNCHANGED <<inventory, files, locks>>
    BY <1>4 DEF ReadStatus
  <2> HIDE DEF m
  <2> QED
    BY <2>1, <2>2, GotoMoves, TypesOfMem, TypesNext DEF inventory, files, locks
<1>5. CASE CountPallets(t)
  <2> DEFINE s      == mem[t].slot
             loaded == Cardinality((Loaded \ {s}) \cup
                                   (IF mem[t].op = "scan" THEN {s} ELSE {}))
             active == Cardinality(Active)
             m      == [mem[t] EXCEPT !.active = active, !.loaded = loaded]
  <2>1. IsFiniteSet(Loaded) /\ active \in Nat
    <3>1. Loaded \in SUBSET Slots /\ Active \in SUBSET Slots
      BY DEF Loaded, Active, Rows
    <3> QED
      BY <3>1, SlotCount
  <2>2. loaded \in Nat
    <3>1. IsFiniteSet(Loaded \ {s})
      BY <2>1, FS_RemoveElement
    <3>2. IsFiniteSet((Loaded \ {s}) \cup {s})
      BY <3>1, FS_AddElement
    <3>3. (Loaded \ {s}) \cup {} = Loaded \ {s}
      OBVIOUS
    <3> QED
      BY <3>1, <3>2, <3>3, FS_CardinalityType
  <2> HIDE DEF active, loaded
  <2>3. m \in MemType /\ m.slot = mem[t].slot
    BY <1>1, <2>1, <2>2 DEF MemType
  <2>4. /\ pc[t] = "count" /\ mem' = [mem EXCEPT ![t] = m]
        /\ Goto(t, "scanCommit") /\ UNCHANGED <<inventory, files, locks>>
    BY <1>5 DEF CountPallets, active, loaded
  <2> HIDE DEF m
  <2> QED
    BY <2>3, <2>4, GotoMoves, TypesOfMem, TypesNext DEF inventory, files, locks
<1> QED
  BY <1>2, <1>3, <1>4, <1>5 DEF Moves

LEMMA AbortTypes ==
    ASSUME TypeOK, NEW t \in Tx, Abort(t)
    PROVE  TypeOK' /\ Finish(t)
  BY FinishTypes, TypesOfMem DEF Abort, inventory, files

LEMMA AtOnceTypes ==
    ASSUME TypeOK, AtOnce
    PROVE  TypeOK' /\ UNCHANGED <<pallet, files, locks, pc, mem>> /\ contStatus' # "UNLOADED"
<1>1. ASSUME NEW d \in Dests, NEW calc \in Counts, NEW manual \in Manual,
             CreateDestination(d, calc, manual)
      PROVE  TypeOK' /\ UNCHANGED <<pallet, files, locks, pc, mem>> /\ contStatus' # "UNLOADED"
  BY <1>1, CreateTypes DEF CreateDestination
<1>2. CASE EditFields
  BY <1>2, TypesOfMem, TypesNext DEF EditFields, ContStates, files, locks
<1>3. ASSUME NEW status \in SetTo, SetStatus(status)
      PROVE  TypeOK' /\ UNCHANGED <<pallet, files, locks, pc, mem>> /\ contStatus' # "UNLOADED"
  <2>1. status \in ContStates \ {"UNLOADED"}
    BY ContainerInventoryAssumption
  <2> QED
    BY <1>3, <2>1, TypesOfMem, TypesNext DEF SetStatus, files, locks
<1> QED
  BY <1>1, <1>2, <1>3 DEF AtOnce

LEMMA WritesDo ==
    ASSUME TypeOK, NEW t \in Tx, Writes(t)
    PROVE  TypeOK' /\ Finish(t)
<1>1. CASE LabelsWrite(t)
  BY <1>1, LabelsWriteDoes DEF LabelsWrite
<1>2. CASE ReportWrite(t)
  <2>1. /\ contStatus' \in ContStates /\ reports' \subseteq Tx /\ Finish(t)
        /\ UNCHANGED <<dest, pallet, labels>>
    BY <1>2, TypesOfMem DEF ReportWrite, ContStates
  <2> QED
    BY <2>1, FinishTypes, TypesOfMem
<1>3. CASE SyncWrite(t)
  BY <1>3, SyncWriteDoes DEF SyncWrite
<1>4. CASE EditWrite(t)
  BY <1>4, EditWriteTypes DEF EditWrite
<1>5. CASE DeleteWrite(t)
  BY <1>5, DeleteWriteDoes DEF DeleteWrite
<1>6. CASE ScanCommit(t)
  BY <1>6, ScanCommitDoes DEF ScanCommit
<1>7. CASE StartWrite(t)
  BY <1>7, FinishTypes, TypesOfMem DEF StartWrite, ContStates, Locked, files
<1>8. CASE DepleteWrite(t)
  BY <1>8, DepleteWriteDoes DEF DepleteWrite
<1> QED
  BY <1>1, <1>2, <1>3, <1>4, <1>5, <1>6, <1>7, <1>8 DEF Writes

LEMMA TypeInit == Init => TypeOK
<1> SUFFICES ASSUME Init
             PROVE  TypeOK
  OBVIOUS
<1>1. PICK calc \in [Dests -> Counts] :
          dest = [d \in Dests |->
              [state |-> IF d \in Parsed THEN "here" ELSE "absent",
               calc |-> IF d \in Parsed THEN calc[d] ELSE 0, manual |-> Null,
               final |-> IF d \in Parsed THEN calc[d] ELSE 0]]
  BY DEF Init
<1>2. dest \in [Dests -> DestType]
  BY <1>1 DEF DestType, Manual, Final
<1>3. pallet \in [Slots -> PalletType]
  BY NoRowType DEF Init
<1>4. mem \in [Tx -> MemType]
  BY IdleType DEF Init
<1> QED
  BY <1>2, <1>3, <1>4, TypesOfMem DEF Init, ContStates, Steps

LEMMA TypeStep ==
    ASSUME TypeOK, [Next]_vars
    PROVE  TypeOK'
<1>1. ASSUME NEW t \in Tx, Quiet(t)
      PROVE  TypeOK'
  BY <1>1, ReadsDo, LocksDo, MovesDo, AbortTypes DEF Quiet
<1>2. ASSUME NEW t \in Tx, Writes(t)
      PROVE  TypeOK'
  BY <1>2, WritesDo
<1>3. CASE AtOnce
  BY <1>3, AtOnceTypes
<1>4. CASE UNCHANGED vars
  BY <1>4, TypesOfMem, TypesNext DEF vars, inventory, files, locks
<1> QED
  BY <1>1, <1>2, <1>3, <1>4, NextIs

-----------------------------------------------------------------------------
\* Every variable has its type, whatever the requests do: a request writes what
\* its endpoint computes, and refuses what does not fit.
THEOREM TypeCorrect == Spec => []TypeOK
<1>1. Init => TypeOK
  BY TypeInit
<1>2. TypeOK /\ [Next]_vars => TypeOK'
  BY TypeStep
<1> QED
  BY <1>1, <1>2, PTL DEF Spec

-----------------------------------------------------------------------------
\* The invariant

LEMMA InitHolds == Init => IInv
<1> SUFFICES ASSUME Init
             PROVE  IInv
  OBVIOUS
<1>1. TypeOK
  BY TypeInit
<1>2. SlotHeld /\ FileHeld
  BY DEF Init, SlotHeld, FileHeld, Held
<1>3. PrintedKept
  BY NoRowType DEF Init, PrintedKept
<1>4. ASSUME NEW d \in Dests
      PROVE  0 \in 0..MaxNo[d] /\ OccupiedNos(d) = 1..0
  <2>1. OccupiedNos(d) = {}
    BY NoRowType DEF Init, OccupiedNos, RowsOf, Rows
  <2> QED
    BY <2>1, CountsAre
<1> QED
  BY <1>1, <1>2, <1>3, <1>4 DEF IInv, Contiguous

\* Nobody but its holder changes a pallet whose lock is held.
HeldStay(t) == \A s \in Rows : rowOwner[s] \notin {t, Nobody} => pallet'[s] = pallet[s]

LEMMA HeldIsRow ==
    ASSUME TypeOK, SlotHeld, NEW t \in Tx, pc[t] \in Held
    PROVE  mem[t].slot \in Rows /\ rowOwner[mem[t].slot] = t /\ t # Nobody
  BY ContainerInventoryAssumption DEF SlotHeld, Rows, Reusable

LEMMA WritesSpareHeld ==
    ASSUME IInv, NEW t \in Tx, Writes(t)
    PROVE  HeldStay(t)
<1> USE DEF IInv
<1>1. CASE LabelsWrite(t)
  BY <1>1, LabelsWriteDoes DEF HeldStay
<1>2. CASE SyncWrite(t)
  BY <1>2, SyncWriteDoes DEF HeldStay
<1>3. CASE ReportWrite(t) \/ EditWrite(t) \/ StartWrite(t)
  BY <1>3 DEF ReportWrite, EditWrite, StartWrite, HeldStay
<1>4. CASE DeleteWrite(t)
  <2>1. ASSUME NEW s \in Rows, rowOwner[s] \notin {t, Nobody}
        PROVE  s \in Slots /\ s[1] # mem[t].dest
    BY <1>4, <2>1, DeleteWriteDoes DEF Rows, RowsOf
  <2> QED
    BY <1>4, <2>1, DeleteWriteDoes DEF HeldStay
<1>5. CASE ScanCommit(t)
  <2>1. rowOwner[mem[t].slot] = t
    BY <1>5 DEF ScanCommit, SlotHeld, Held
  <2> QED
    BY <1>5, <2>1, ScanCommitDoes DEF HeldStay, OnlyStatus, Rows
<1>6. CASE DepleteWrite(t)
  <2>1. rowOwner[mem[t].slot] = t
    BY <1>6 DEF DepleteWrite, SlotHeld, Held
  <2> QED
    BY <1>6, <2>1, DepleteWriteDoes DEF HeldStay, OnlyStatus, Rows
<1> QED
  BY <1>1, <1>2, <1>3, <1>4, <1>5, <1>6 DEF Writes

\* Ending a request leaves the others what they hold.
LEMMA FinishSpares ==
    ASSUME TypeOK, SlotHeld, NEW t \in Tx, Finish(t), HeldStay(t)
    PROVE  SlotHeld'
<1> SUFFICES ASSUME NEW u \in Tx, pc'[u] \in Held
             PROVE  /\ mem'[u].slot \in Slots
                    /\ rowOwner'[mem'[u].slot] = u
                    /\ pallet'[mem'[u].slot].status \in
                          IF pc'[u] = "depleteWrite" THEN Reusable ELSE Reusable \cup {"LOADED"}
  BY DEF SlotHeld
<1>1. u # t
  BY FinishMoves DEF Held
<1>2. pc'[u] = pc[u] /\ mem'[u] = mem[u]
  BY <1>1, FinishMoves
<1>3. mem[u].slot \in Rows /\ rowOwner[mem[u].slot] = u /\ u # Nobody
  BY <1>2, HeldIsRow
<1>4. mem[u].slot \in Slots
  BY <1>3 DEF Rows
<1>5. rowOwner'[mem[u].slot] = u
  BY <1>1, <1>3, <1>4, FinishMoves
<1>6. pallet'[mem[u].slot] = pallet[mem[u].slot]
  BY <1>1, <1>3 DEF HeldStay
<1> QED
  BY <1>2, <1>4, <1>5, <1>6 DEF SlotHeld

LEMMA SlotHeldStep ==
    ASSUME IInv, [Next]_vars
    PROVE  SlotHeld'
<1> USE DEF IInv
<1>1. ASSUME NEW t \in Tx, Reads(t)
      PROVE  SlotHeld'
  BY <1>1, ReadsDo, QuietKeeps DEF Quiet, SlotHeld, inventory
<1>2. ASSUME NEW t \in Tx, Locks(t)
      PROVE  SlotHeld'
  <2>1. pallet' = pallet
    BY <1>2, QuietKeeps DEF Quiet, inventory
  <2>2. PICK s \in Slots :
           /\ mem'[t].slot = s /\ rowOwner[s] = Nobody
           /\ rowOwner' = [rowOwner EXCEPT ![s] = t]
           /\ pc'[t] \in {"readStatus", "depleteWrite"}
           /\ pallet[s].status \in
                 IF pc'[t] = "depleteWrite" THEN Reusable ELSE Reusable \cup {"LOADED"}
    BY <1>2, LocksDo
  <2>3. ASSUME NEW u \in Tx \ {t}, pc'[u] \in Held
        PROVE  /\ pc'[u] = pc[u] /\ mem'[u] = mem[u]
               /\ mem[u].slot \in Slots \ {s}
               /\ rowOwner'[mem[u].slot] = u
    <3>1. pc'[u] = pc[u] /\ mem'[u] = mem[u]
      BY <1>2, LocksDo
    <3>2. mem[u].slot \in Rows /\ rowOwner[mem[u].slot] = u /\ u # Nobody
      BY <2>3, <3>1, HeldIsRow
    <3>3. mem[u].slot \in Slots \ {s}
      BY <2>2, <3>2 DEF Rows
    <3> QED
      BY <2>2, <3>1, <3>2, <3>3, TypesOfMem
  <2>4. rowOwner'[s] = t
    BY <2>2, TypesOfMem
  <2> QED
    BY <2>1, <2>2, <2>3, <2>4 DEF SlotHeld
<1>3. ASSUME NEW t \in Tx, Moves(t)
      PROVE  SlotHeld'
  <2>1. pallet' = pallet
    BY <1>3, QuietKeeps DEF Quiet, inventory
  <2> QED
    BY <1>3, <2>1, MovesDo DEF SlotHeld
<1>4. ASSUME NEW t \in Tx, Abort(t) \/ Writes(t)
      PROVE  SlotHeld'
  <2>1. Finish(t)
    BY <1>4, AbortTypes, WritesDo
  <2>2. HeldStay(t)
    BY <1>4, WritesSpareHeld DEF Abort, HeldStay, inventory
  <2> QED
    BY <2>1, <2>2, FinishSpares
<1>5. CASE AtOnce
  BY <1>5, AtOnceTypes DEF SlotHeld, locks
<1>6. CASE UNCHANGED vars
  BY <1>6 DEF vars, inventory, locks, SlotHeld
<1> QED
  BY <1>1, <1>2, <1>3, <1>4, <1>5, <1>6, NextIs DEF Quiet

LEMMA FileHeldStep ==
    ASSUME IInv, [Next]_vars
    PROVE  FileHeld'
<1> USE DEF IInv
<1>1. ASSUME NEW t \in Tx, Reads(t)
      PROVE  FileHeld'
  BY <1>1, ReadsDo, QuietKeeps DEF Quiet, FileHeld, files
<1>2. ASSUME NEW t \in Tx, Locks(t)
      PROVE  FileHeld'
  <2>1. pc'[t] # "fileWrite"
    BY <1>2, LocksDo
  <2> QED
    BY <1>2, <2>1, LocksDo, QuietKeeps DEF Quiet, FileHeld, files
<1>3. ASSUME NEW t \in Tx, Moves(t)
      PROVE  FileHeld'
  <2>1. reports' = reports
    BY <1>3, QuietKeeps DEF Quiet, files
  <2>2. \A u \in Tx : u # Nobody
    BY ContainerInventoryAssumption
  <2> QED
    BY <1>3, <2>1, <2>2, MovesDo DEF FileHeld
<1>4. ASSUME NEW t \in Tx, Abort(t) \/ Writes(t)
      PROVE  FileHeld'
  <2>1. Finish(t)
    BY <1>4, AbortTypes, WritesDo
  <2>2. reports' = reports \/ fileOwner = t
    <3>1. CASE Abort(t)
      BY <3>1 DEF Abort, files
    <3>2. CASE ReportWrite(t)
      BY <3>2 DEF ReportWrite, FileHeld
    <3>3. CASE Writes(t) /\ ~ReportWrite(t)
      BY <3>3 DEF Writes, LabelsWrite, SyncWrite, EditWrite, DeleteWrite, ScanCommit,
                  StartWrite, DepleteWrite, files
    <3> QED
      BY <1>4, <3>1, <3>2, <3>3
  <2> SUFFICES ASSUME NEW u \in Tx, pc'[u] = "fileWrite"
               PROVE  fileOwner' = u /\ mem'[u].previous = reports'
    BY DEF FileHeld
  <2>3. u # t
    BY <2>1, FinishMoves
  <2>4. fileOwner = u /\ mem[u].previous = reports /\ mem'[u] = mem[u]
    BY <2>1, <2>3, FinishMoves DEF FileHeld
  <2> QED
    BY <2>1, <2>2, <2>3, <2>4, FinishMoves
<1>5. CASE AtOnce
  BY <1>5, AtOnceTypes DEF FileHeld, locks, files
<1>6. CASE UNCHANGED vars
  BY <1>6 DEF vars, files, locks, FileHeld
<1> QED
  BY <1>1, <1>2, <1>3, <1>4, <1>5, <1>6, NextIs DEF Quiet

LEMMA PrintedStep ==
    ASSUME IInv, [Next]_vars
    PROVE  PrintedKept'
<1> USE DEF IInv
<1>1. ASSUME UNCHANGED <<pallet, files>>
      PROVE  PrintedKept'
  BY <1>1 DEF PrintedKept, files
<1>2. ASSUME NEW t \in Tx, LabelsWrite(t)
      PROVE  PrintedKept'
  <2>1. labels' = {NewId} /\ reports' = reports
    BY <1>2 DEF LabelsWrite
  <2>2. \A s \in Slots : pallet'[s] = Row("LABEL_PRINTED", Index(s[1]), NewId)
                         \/ pallet'[s] = NoRow
    BY <1>2, LabelsWriteDoes
  <2>3. \A s \in Slots : pallet'[s].printed \in {0, NewId}
    BY <2>2, RowIs, NoRowType
  <2> QED
    BY <2>1, <2>3 DEF PrintedKept
<1>3. ASSUME NEW t \in Tx, ReportWrite(t)
      PROVE  PrintedKept'
  <2>1. reports' = {t} /\ UNCHANGED <<pallet, labels>>
    BY <1>3 DEF ReportWrite, FileHeld
  <2> QED
    BY <2>1 DEF PrintedKept
<1>4. ASSUME \A s \in Slots : pallet'[s].printed \in {0, pallet[s].printed}, UNCHANGED files
      PROVE  PrintedKept'
  BY <1>4 DEF PrintedKept, files
<1>5. ASSUME NEW t \in Tx, SyncWrite(t)
      PROVE  PrintedKept'
  <2>1. ASSUME NEW s \in Slots
        PROVE  pallet'[s].printed \in {0, pallet[s].printed}
    <3>1. \/ pallet'[s] = Row("PLANNED", Index(s[1]), 0)
          \/ pallet'[s] = [pallet[s] EXCEPT !.status = "CANCELLED"]
          \/ pallet'[s] = pallet[s]
      BY <1>5, SyncWriteDoes, Zenon
    <3>2. [pallet[s] EXCEPT !.status = "CANCELLED"].printed = pallet[s].printed
      BY TypesOfMem DEF PalletType
    <3>3. Row("PLANNED", Index(s[1]), 0).printed = 0
      BY DEF Row
    <3> QED
      BY <3>1, <3>2, <3>3
  <2> QED
    BY <1>4, <1>5, <2>1 DEF SyncWrite
<1>6. ASSUME NEW t \in Tx, DeleteWrite(t)
      PROVE  PrintedKept'
  BY <1>4, <1>6, DeleteWriteDoes, NoRowType DEF DeleteWrite
<1>7. ASSUME NEW s, NEW status, OnlyStatus(s, status), UNCHANGED files
      PROVE  PrintedKept'
  <2>1. s \in Slots => [pallet[s] EXCEPT !.status = status].printed = pallet[s].printed
    BY TypesOfMem DEF PalletType
  <2>2. \A u \in Slots : pallet'[u].printed = pallet[u].printed
    BY <1>7, <2>1 DEF OnlyStatus
  <2> QED
    BY <1>4, <1>7, <2>2
<1>8. ASSUME NEW t \in Tx, ScanCommit(t)
      PROVE  PrintedKept'
  BY <1>7, <1>8, ScanCommitDoes DEF ScanCommit
<1>9. ASSUME NEW t \in Tx, DepleteWrite(t)
      PROVE  PrintedKept'
  BY <1>7, <1>9, DepleteWriteDoes DEF DepleteWrite
<1>10. ASSUME NEW t \in Tx, EditWrite(t) \/ StartWrite(t)
       PROVE  PrintedKept'
  BY <1>1, <1>10 DEF EditWrite, StartWrite
<1>11. ASSUME NEW t \in Tx, Quiet(t)
       PROVE  PrintedKept'
  BY <1>1, <1>11, QuietKeeps DEF inventory
<1>12. CASE AtOnce
  BY <1>1, <1>12, AtOnceTypes
<1>13. CASE UNCHANGED vars
  BY <1>1, <1>13 DEF vars, inventory
<1> QED
  BY <1>2, <1>3, <1>5, <1>6, <1>8, <1>9, <1>10, <1>11, <1>12, <1>13, NextIs DEF Writes

\* One current file of a type.
LEMMA AtMostOne ==
    ASSUME NEW S, \A f, g \in S : f = g
    PROVE  Cardinality(S) <= 1
<1>1. CASE S = {}
  BY <1>1, FS_EmptySet
<1>2. ASSUME NEW x \in S
      PROVE  Cardinality(S) <= 1
  <2>1. S = {x}
    BY <1>2
  <2> QED
    BY <2>1, FS_Singleton
<1> QED
  BY <1>1, <1>2

-----------------------------------------------------------------------------
\* Numbers of pallets

LEMMA FirstNumbers ==
    ASSUME NEW n \in Nat
    PROVE  /\ IsFiniteSet(0..(n-1)) /\ Cardinality(0..(n-1)) = n
           /\ IsFiniteSet(1..n) /\ Cardinality(1..n) = n
<1>1. 0 \in Int /\ n - 1 \in Int /\ 1 \in Int /\ n \in Int
  OBVIOUS
<1>2. IsFiniteSet(0..(n-1)) /\ Cardinality(0..(n-1)) = IF 0 > n - 1 THEN 0 ELSE (n-1) - 0 + 1
  BY <1>1, FS_Interval
<1>3. IsFiniteSet(1..n) /\ Cardinality(1..n) = IF 1 > n THEN 0 ELSE n - 1 + 1
  BY <1>1, FS_Interval
<1> QED
  BY <1>2, <1>3

\* Where the numbers leave no gap, the new ones are those that follow them.
LEMMA NextNumbers ==
    ASSUME NEW k \in Nat, NEW e \in Nat, NEW c \in Nat, c > 0 \/ k >= 1 \/ e = 0
    PROVE  NextPalletNos(1..k, e, c) = (k+1)..(k+c)
<1> DEFINE free == (1..e) \ (1..k)
           used == (1..k) \cup free
           top  == CHOOSE n \in used \cup {0} : \A m \in used : m <= n
<1>1. free = (k+1)..e
  OBVIOUS
<1>2. NextPalletNos(1..k, e, c) =
          IF c = 0 THEN (IF 1 \in free THEN free ELSE {})
          ELSE IF Cardinality(free) >= c THEN LowestOf(free, c)
          ELSE free \cup (top + 1 .. top + c - Cardinality(free))
  BY DEF NextPalletNos
<1>3. top = IF e > k THEN e ELSE k
  <2> DEFINE n0 == IF e > k THEN e ELSE k
  <2>1. used = 1..n0
    BY <1>1
  <2>2. n0 \in used \cup {0} /\ \A m \in used : m <= n0
    BY <2>1
  <2>3. ASSUME NEW n \in used \cup {0}, \A m \in used : m <= n
        PROVE  n = n0
    BY <2>1, <2>3
  <2> HIDE DEF n0, used
  <2>4. top = n0
    BY <2>2, <2>3
  <2> QED
    BY <2>4 DEF n0
<1> HIDE DEF free, used, top
<1>7. Cardinality(free) = IF k + 1 > e THEN 0 ELSE e - k
  <2>1. k + 1 \in Int /\ e \in Int
    OBVIOUS
  <2>2. Cardinality((k+1)..e) = IF k + 1 > e THEN 0 ELSE e - (k + 1) + 1
    BY <2>1, FS_Interval
  <2> QED
    BY <1>1, <2>2
<1>4. CASE c = 0
  BY <1>1, <1>2, <1>4
<1>5. CASE c > 0 /\ Cardinality(free) >= c
  <2>2. k + c <= e
    BY <1>5, <1>7
  <2>3. ASSUME NEW n \in free
        PROVE  Cardinality({m \in free : m < n}) = n - (k + 1)
    <3>1. {m \in free : m < n} = (k+1)..(n-1) /\ n \in Int /\ n >= k + 1
      BY <1>1
    <3>2. k + 1 \in Int /\ n - 1 \in Int
      BY <3>1
    <3>3. Cardinality((k+1)..(n-1)) = IF k + 1 > n - 1 THEN 0 ELSE (n - 1) - (k + 1) + 1
      BY <3>2, FS_Interval
    <3>4. Cardinality((k+1)..(n-1)) = n - (k + 1)
      BY <3>1, <3>3
    <3> QED
      BY <3>1, <3>4, Zenon
  <2>4. LowestOf(free, c) = (k+1)..(k+c)
    BY <1>1, <2>2, <2>3 DEF LowestOf
  <2> QED
    BY <1>2, <1>5, <2>4
<1>6. CASE c > 0 /\ ~(Cardinality(free) >= c)
  <2>1. NextPalletNos(1..k, e, c) = free \cup (top + 1 .. top + c - Cardinality(free))
    BY <1>2, <1>6
  <2>2. CASE e > k
    <3>1. Cardinality(free) = e - k /\ top = e /\ e - k < c
      BY <1>3, <1>6, <1>7, <2>2
    <3>2. NextPalletNos(1..k, e, c) = ((k+1)..e) \cup (e + 1 .. e + c - (e - k))
      BY <1>1, <2>1, <3>1
    <3> HIDE DEF NextPalletNos
    <3>3. ((k+1)..e) \cup (e + 1 .. e + c - (e - k)) = (k+1)..(k+c)
      BY <2>2, <3>1
    <3> QED
      BY <3>2, <3>3
  <2>3. CASE e <= k
    <3>1. Cardinality(free) = 0 /\ top = k /\ free = {}
      BY <1>1, <1>3, <1>7, <2>3
    <3>2. NextPalletNos(1..k, e, c) = (k + 1) .. (k + c - 0)
      BY <2>1, <3>1
    <3> QED
      BY <3>2
  <2> QED
    BY <2>2, <2>3
<1> QED
  BY <1>4, <1>5, <1>6

\* Of a finite set of pallets of one destination, the k lowest are k.
LEMMA LowestCount ==
    ASSUME NEW A, IsFiniteSet(A), \A s \in A : s[2] \in Nat,
           \A s, u \in A : s[2] = u[2] => s = u,
           NEW k \in Nat
    PROVE  LET rank(s) == Cardinality({u \in A : u[2] < s[2]})
           IN  /\ \A s \in A : rank(s) \in Nat /\ rank(s) < Cardinality(A)
               /\ k <= Cardinality(A) => Cardinality({s \in A : rank(s) < k}) = k
<1> DEFINE below(s) == {u \in A : u[2] < s[2]}
           rank(s)  == Cardinality(below(s))
           n        == Cardinality(A)
           f        == [s \in A |-> rank(s)]
           L        == {s \in A : rank(s) < k}
           g        == [s \in L |-> rank(s)]
<1>1. n \in Nat
  BY FS_CardinalityType
<1>2. ASSUME NEW s \in A
      PROVE  IsFiniteSet(below(s)) /\ rank(s) \in Nat /\ rank(s) < n
  <2>1. IsFiniteSet(A \ {s}) /\ Cardinality(A \ {s}) = n - 1
    BY FS_RemoveElement
  <2>2. below(s) \in SUBSET (A \ {s})
    OBVIOUS
  <2>3. IsFiniteSet(below(s)) /\ rank(s) <= n - 1
    BY <2>1, <2>2, FS_Subset
  <2>4. rank(s) \in Nat
    BY <2>3, FS_CardinalityType
  <2> QED
    BY <1>1, <2>3, <2>4
<1>3. ASSUME NEW s \in A, NEW u \in A, s[2] < u[2]
      PROVE  rank(s) < rank(u)
  <2>1. IsFiniteSet(below(s) \cup {s}) /\ Cardinality(below(s) \cup {s}) = rank(s) + 1
    <3>1. s \notin below(s)
      OBVIOUS
    <3> QED
      BY <1>2, <3>1, FS_AddElement
  <2>2. below(s) \cup {s} \in SUBSET below(u)
    BY <1>3
  <2>3. rank(s) + 1 <= rank(u)
    <3> HIDE DEF below
    <3> QED
      BY <1>2, <2>1, <2>2, FS_Subset
  <2>4. rank(s) \in Nat /\ rank(u) \in Nat
    BY <1>2
  <2> HIDE DEF rank
  <2> QED
    BY <2>3, <2>4
<1> HIDE DEF below, rank
<1>4. ASSUME NEW s \in A, NEW u \in A, rank(s) = rank(u)
      PROVE  s = u
  <2>1. ~(rank(s) < rank(u)) /\ ~(rank(u) < rank(s))
    BY <1>2, <1>4
  <2>2. ~(s[2] < u[2]) /\ ~(u[2] < s[2])
    BY <1>3, <2>1
  <2> QED
    BY <2>2
<1>5. f \in Injection(A, 0..(n-1))
  <2>1. \A s \in A : rank(s) \in 0..(n-1)
    BY <1>1, <1>2
  <2> QED
    BY <1>4, <2>1 DEF Injection, IsInjective
<1>6. IsFiniteSet(0..(n-1)) /\ Cardinality(0..(n-1)) = n
  BY <1>1, FirstNumbers
<1>7. f \in Surjection(A, 0..(n-1))
  BY <1>5, <1>6, FS_Injection
<1>8. ASSUME k <= n
      PROVE  Cardinality(L) = k
  <2>1. IsFiniteSet(0..(k-1)) /\ Cardinality(0..(k-1)) = k
    BY FirstNumbers
  <2>2. g \in Injection(L, 0..(k-1))
    <3>1. \A s \in L : rank(s) \in 0..(k-1)
      BY <1>2
    <3> QED
      BY <1>4, <3>1 DEF Injection, IsInjective
  <2>3. g \in Surjection(L, 0..(k-1))
    <3>1. ASSUME NEW i \in 0..(k-1)
          PROVE  \E s \in L : g[s] = i
      <4>1. i \in 0..(n-1)
        BY <1>1, <1>8
      <4>2. PICK s \in A : f[s] = i
        BY <1>7, <4>1 DEF Surjection
      <4> QED
        BY <4>2
    <3> QED
      BY <2>2, <3>1 DEF Injection, IsInjective, Surjection
  <2> QED
    BY <2>1, <2>2, <2>3, FS_Injection
<1> QED
  BY <1>2, <1>8 DEF rank, below

\* The rows of a destination, by number, now and after a step.
LEMMA Numbers ==
    ASSUME NEW d \in Dests
    PROVE  /\ OccupiedNos(d) = {n \in 1..MaxNo[d] : pallet[<<d, n>>].status # "NONE"}
           /\ OccupiedNos(d)' = {n \in 1..MaxNo[d] : pallet'[<<d, n>>].status # "NONE"}
<1>1. RowsOf(d) = {s \in Slots : s[1] = d /\ pallet[s].status # "NONE"}
  BY DEF RowsOf, Rows
<1>2. RowsOf(d)' = {s \in Slots : s[1] = d /\ pallet'[s].status # "NONE"}
  BY DEF RowsOf, Rows
<1>3. \A s \in Slots : s[1] = d => s = <<d, s[2]>> /\ s[2] \in 1..MaxNo[d]
  BY SlotsAre
<1>4. \A n \in 1..MaxNo[d] : <<d, n>> \in Slots
  BY SlotsAre, CountsAre
<1>5. OccupiedNos(d) = {n \in 1..MaxNo[d] : pallet[<<d, n>>].status # "NONE"}
  BY <1>1, <1>3, <1>4 DEF OccupiedNos
<1>6. OccupiedNos(d)' = {n \in 1..MaxNo[d] : pallet'[<<d, n>>].status # "NONE"}
  BY <1>2, <1>3, <1>4 DEF OccupiedNos
<1> QED
  BY <1>5, <1>6

LEMMA ActiveRows ==
    ASSUME NEW d \in Dests
    PROVE  /\ ActiveOf(d) \in SUBSET Slots
           /\ IsFiniteSet(ActiveOf(d)) /\ Cardinality(ActiveOf(d)) \in Nat
           /\ \A s \in ActiveOf(d) : s = <<d, s[2]>> /\ s[2] \in Nat
           /\ \A s \in ActiveOf(d) : s[2] \in OccupiedNos(d)
           /\ \A s, u \in ActiveOf(d) : s[2] = u[2] => s = u
<1>1. ActiveOf(d) \in SUBSET Slots /\ \A s \in ActiveOf(d) : s[1] = d /\ s \in RowsOf(d)
  BY DEF ActiveOf, Active, Rows, RowsOf
<1>2. IsFiniteSet(ActiveOf(d)) /\ Cardinality(ActiveOf(d)) \in Nat
  BY <1>1, SlotCount
<1>3. \A s \in ActiveOf(d) : s = <<d, s[2]>> /\ s[2] \in Nat
  BY <1>1, SlotsAre
<1>4. \A s \in ActiveOf(d) : s[2] \in OccupiedNos(d)
  BY <1>1 DEF OccupiedNos
<1> QED
  BY <1>1, <1>2, <1>3, <1>4

\* A synchronisation creates the numbers that follow, as many as are short.
LEMMA MissingFollow ==
    ASSUME TypeOK, NEW d \in Dests, NEW k \in 0..MaxNo[d], OccupiedNos(d) = 1..k
    PROVE  /\ Shortage(d) \in Nat
           /\ Missing(d) = {d} \X ((k+1)..(k + Shortage(d)))
<1>1. dest[d].final \in Nat /\ Cardinality(ActiveOf(d)) \in Nat /\ k \in Nat
  BY FinalIsNat, ActiveRows, CountsAre
<1>2. Shortage(d) \in Nat
      /\ (Shortage(d) = 0 => dest[d].final <= Cardinality(ActiveOf(d)))
  BY <1>1 DEF Shortage
<1>3. k = 0 => ActiveOf(d) = {}
  BY ActiveRows
<1>4. k = 0 => Cardinality(ActiveOf(d)) = 0
  BY <1>3, FS_EmptySet
<1>5. Shortage(d) > 0 \/ k >= 1 \/ dest[d].final = 0
  BY <1>1, <1>2, <1>4
<1>6. NextPalletNos(1..k, dest[d].final, Shortage(d)) = (k+1)..(k + Shortage(d))
  BY <1>1, <1>2, <1>5, NextNumbers
<1> QED
  BY <1>2, <1>6 DEF Missing

LEMMA SyncNewIs ==
    ASSUME TypeOK, Contiguous, SyncNew \subseteq Slots, NEW d \in Dests
    PROVE  \E k \in 0..MaxNo[d] :
              /\ OccupiedNos(d) = 1..k
              /\ Shortage(d) \in Nat
              /\ d \in Here => k + Shortage(d) <= MaxNo[d]
              /\ \A n \in Nat : <<d, n>> \in SyncNew <=>
                                   d \in Here /\ n \in (k+1)..(k + Shortage(d))
<1>1. PICK k \in 0..MaxNo[d] : OccupiedNos(d) = 1..k
  BY DEF Contiguous
<1>2. Shortage(d) \in Nat /\ Missing(d) = {d} \X ((k+1)..(k + Shortage(d)))
  BY <1>1, MissingFollow
<1>3. \A n \in Nat : <<d, n>> \in SyncNew <=> d \in Here /\ <<d, n>> \in Missing(d)
  BY DEF SyncNew, Missing
<1>4. \A n \in Nat : <<d, n>> \in SyncNew <=>
                        d \in Here /\ n \in (k+1)..(k + Shortage(d))
  BY <1>2, <1>3
<1>5. d \in Here /\ Shortage(d) > 0 => <<d, k + Shortage(d)>> \in Slots
  BY <1>2, <1>4
<1>6. d \in Here => k + Shortage(d) <= MaxNo[d]
  BY <1>2, <1>5, SlotsAre, CountsAre
<1> QED
  BY <1>1, <1>2, <1>4, <1>6

\* A synchronisation creates no pallet where there is one.
LEMMA SyncNewIsFree ==
    ASSUME TypeOK, Contiguous, SyncNew \subseteq Slots
    PROVE  \A s \in SyncNew : s \in Slots /\ pallet[s].status = "NONE"
<1> SUFFICES ASSUME NEW s \in SyncNew
             PROVE  s \in Slots /\ pallet[s].status = "NONE"
  OBVIOUS
<1>1. s \in Slots /\ s = <<s[1], s[2]>> /\ s[1] \in Dests /\ s[2] \in 1..MaxNo[s[1]]
  BY SlotsAre
<1>2. MaxNo[s[1]] \in Nat /\ s[2] \in Nat
  BY <1>1, CountsAre
<1>3. PICK k \in 0..MaxNo[s[1]] :
         OccupiedNos(s[1]) = 1..k /\ Shortage(s[1]) \in Nat
         /\ \A n \in Nat : <<s[1], n>> \in SyncNew <=>
                              s[1] \in Here /\ n \in (k+1)..(k + Shortage(s[1]))
  BY <1>1, SyncNewIs
<1>4. s[2] \notin OccupiedNos(s[1])
  BY <1>1, <1>2, <1>3
<1> QED
  BY <1>1, <1>4, Numbers

\* A pallet that gets a new status is a row before and after.
LEMMA StatusOfRow ==
    ASSUME TypeOK, NEW s \in Rows, NEW status \in PalletStates \ {"NONE"},
           OnlyStatus(s, status)
    PROVE  \A u \in Slots : pallet'[u].status = "NONE" <=> pallet[u].status = "NONE"
<1>1. s \in Slots /\ pallet[s].status # "NONE"
  BY DEF Rows
<1>2. [pallet[s] EXCEPT !.status = status].status = status
  BY <1>1, TypesOfMem DEF PalletType
<1>3. pallet'[s].status = status
  BY <1>1, <1>2 DEF OnlyStatus
<1> QED
  BY <1>1, <1>3 DEF OnlyStatus

\* The numbers after a step, from those that have a row.
LEMMA NumbersUpTo ==
    ASSUME NEW d \in Dests, NEW k \in 0..MaxNo[d],
           \A n \in 1..MaxNo[d] : pallet'[<<d, n>>].status # "NONE" <=> n <= k
    PROVE  OccupiedNos(d)' = 1..k
<1> DEFINE has(n) == pallet'[<<d, n>>].status # "NONE"
<1>1. OccupiedNos(d)' = {n \in 1..MaxNo[d] : has(n)}
  BY Numbers
<1>2. \A n \in 1..MaxNo[d] : has(n) <=> n <= k
  OBVIOUS
<1> HIDE DEF has
<1>3. {n \in 1..MaxNo[d] : has(n)} = 1..k
  BY <1>2, CountsAre
<1> QED
  BY <1>1, <1>3

LEMMA NumbersKept ==
    ASSUME NEW d \in Dests,
           \A n \in 1..MaxNo[d] : pallet'[<<d, n>>] = pallet[<<d, n>>]
    PROVE  OccupiedNos(d)' = OccupiedNos(d)
<1> DEFINE has(n)  == pallet'[<<d, n>>].status # "NONE"
           had(n)  == pallet[<<d, n>>].status # "NONE"
<1>1. OccupiedNos(d)' = {n \in 1..MaxNo[d] : has(n)}
      /\ OccupiedNos(d) = {n \in 1..MaxNo[d] : had(n)}
  BY Numbers
<1>2. \A n \in 1..MaxNo[d] : has(n) <=> had(n)
  OBVIOUS
<1> HIDE DEF has, had
<1> QED
  BY <1>1, <1>2

LEMMA ContiguousStep ==
    ASSUME IInv, [Next]_vars
    PROVE  Contiguous'
<1> USE DEF IInv
<1>1. ASSUME \A u \in Slots : pallet'[u].status = "NONE" <=> pallet[u].status = "NONE"
      PROVE  Contiguous'
  <2>1. ASSUME NEW d \in Dests
        PROVE  OccupiedNos(d)' = OccupiedNos(d)
    <3>1. \A n \in 1..MaxNo[d] : <<d, n>> \in Slots
      BY SlotsAre, CountsAre
    <3> QED
      BY <1>1, <3>1, Numbers
  <2> QED
    BY <2>1 DEF Contiguous
<1>2. ASSUME UNCHANGED pallet
      PROVE  Contiguous'
  BY <1>1, <1>2
<1>3. ASSUME NEW t \in Tx, LabelsWrite(t)
      PROVE  Contiguous'
  <2> SUFFICES ASSUME NEW d \in Dests
               PROVE  \E k \in 0..MaxNo[d] : OccupiedNos(d)' = 1..k
    BY DEF Contiguous
  <2> DEFINE k == IF d \in Here THEN dest[d].final ELSE 0
  <2>1. k \in 0..MaxNo[d] /\ k \in Nat /\ MaxNo[d] \in Nat
    BY FinalIsNat, CountsAre
  <2>2. ASSUME NEW n \in 1..MaxNo[d]
        PROVE  pallet'[<<d, n>>].status # "NONE" <=> n <= k
    <3>1. <<d, n>> \in Slots
      BY SlotsAre, CountsAre
    <3>2. pallet'[<<d, n>>] = IF d \in Here /\ n <= dest[d].final
                              THEN Row("LABEL_PRINTED", Index(d), NewId) ELSE NoRow
      BY <1>3, <3>1, LabelsWriteDoes
    <3>3. Row("LABEL_PRINTED", Index(d), NewId).status # "NONE" /\ NoRow.status = "NONE"
      BY RowIs, NoRowType
    <3> QED
      BY <2>1, <3>2, <3>3
  <2>3. OccupiedNos(d)' = 1..k
    <3> HIDE DEF k
    <3> QED
      BY <2>1, <2>2, NumbersUpTo
  <2> QED
    BY <2>1, <2>3
<1>4. ASSUME NEW t \in Tx, SyncWrite(t)
      PROVE  Contiguous'
  <2> SUFFICES ASSUME NEW d \in Dests
               PROVE  \E k \in 0..MaxNo[d] : OccupiedNos(d)' = 1..k
    BY DEF Contiguous
  <2>1. SyncNew \subseteq Slots /\ MaxNo[d] \in Nat
    BY <1>4, SyncWriteDoes, CountsAre
  <2>2. PICK k \in 0..MaxNo[d] :
           /\ OccupiedNos(d) = 1..k
           /\ Shortage(d) \in Nat
           /\ d \in Here => k + Shortage(d) <= MaxNo[d]
           /\ \A n \in Nat : <<d, n>> \in SyncNew <=>
                                d \in Here /\ n \in (k+1)..(k + Shortage(d))
    BY <2>1, SyncNewIs
  <2> DEFINE l == IF d \in Here THEN k + Shortage(d) ELSE k
  <2>3. l \in 0..MaxNo[d]
    BY <2>1, <2>2
  <2>4. ASSUME NEW n \in 1..MaxNo[d]
        PROVE  /\ <<d, n>> \in SyncNew => pallet'[<<d, n>>].status # "NONE"
               /\ <<d, n>> \notin SyncNew =>
                     (pallet'[<<d, n>>].status = "NONE" <=> pallet[<<d, n>>].status = "NONE")
    <3>1. <<d, n>> \in Slots
      BY SlotsAre, CountsAre
    <3>2. <<d, n>> \in SyncNew => pallet'[<<d, n>>].status = "PLANNED"
      <4>1. <<d, n>> \in SyncNew =>
               pallet'[<<d, n>>] = Row("PLANNED", Index((<<d, n>>)[1]), 0)
        BY <1>4, <3>1, SyncWriteDoes
      <4>2. Row("PLANNED", Index((<<d, n>>)[1]), 0).status = "PLANNED"
        BY DEF Row
      <4> QED
        BY <4>1, <4>2
    <3>3. [pallet[<<d, n>>] EXCEPT !.status = "CANCELLED"].status = "CANCELLED"
      BY <3>1, TypesOfMem DEF PalletType
    <3>4. <<d, n>> \in SyncSurplus => pallet[<<d, n>>].status # "NONE"
      BY <1>4, SyncWriteDoes DEF Reusable
    <3> QED
      BY <1>4, <3>1, <3>2, <3>3, <3>4, SyncWriteDoes
  <2>5. \A n \in 1..MaxNo[d] : pallet[<<d, n>>].status # "NONE" <=> n <= k
    BY <2>1, <2>2, Numbers
  <2>6. \A n \in 1..MaxNo[d] : pallet'[<<d, n>>].status # "NONE" <=> n <= l
    BY <2>1, <2>2, <2>4, <2>5
  <2>7. OccupiedNos(d)' = 1..l
    <3> HIDE DEF l
    <3> QED
      BY <2>3, <2>6, NumbersUpTo
  <2> QED
    BY <2>3, <2>7
<1>5. ASSUME NEW t \in Tx, DeleteWrite(t)
      PROVE  Contiguous'
  <2> SUFFICES ASSUME NEW d \in Dests
               PROVE  \E k \in 0..MaxNo[d] : OccupiedNos(d)' = 1..k
    BY DEF Contiguous
  <2>1. \A n \in 1..MaxNo[d] : <<d, n>> \in Slots
    BY SlotsAre, CountsAre
  <2>2. CASE d = mem[t].dest
    <3>1. \A n \in 1..MaxNo[d] : pallet'[<<d, n>>].status = "NONE"
      BY <1>5, <2>1, <2>2, DeleteWriteDoes, NoRowType
    <3>2. 0 \in 0..MaxNo[d] /\ \A n \in 1..MaxNo[d] : ~(n <= 0)
      BY CountsAre
    <3>3. OccupiedNos(d)' = 1..0
      BY <3>1, <3>2, NumbersUpTo
    <3> QED
      BY <3>2, <3>3
  <2>3. CASE d # mem[t].dest
    <3>1. \A n \in 1..MaxNo[d] : pallet'[<<d, n>>] = pallet[<<d, n>>]
      BY <1>5, <2>1, <2>3, DeleteWriteDoes
    <3>2. OccupiedNos(d)' = OccupiedNos(d)
      BY <3>1, NumbersKept
    <3> QED
      BY <3>2 DEF Contiguous
  <2> QED
    BY <2>2, <2>3
<1>6. ASSUME NEW t \in Tx, ScanCommit(t)
      PROVE  Contiguous'
  <2>1. mem[t].slot \in Rows
    BY <1>6, HeldIsRow DEF ScanCommit, Held
  <2>2. NewStatus(t) \in PalletStates \ {"NONE"}
    BY DEF NewStatus, PalletStates, Reusable
  <2> QED
    BY <1>1, <1>6, <2>1, <2>2, ScanCommitDoes, StatusOfRow
<1>7. ASSUME NEW t \in Tx, DepleteWrite(t)
      PROVE  Contiguous'
  <2>1. mem[t].slot \in Rows
    BY <1>7, HeldIsRow DEF DepleteWrite, Held
  <2>2. "ADJUSTED_OUT" \in PalletStates \ {"NONE"}
    BY DEF PalletStates, Removed
  <2> QED
    BY <1>1, <1>7, <2>1, <2>2, DepleteWriteDoes, StatusOfRow
<1>8. ASSUME NEW t \in Tx, ReportWrite(t) \/ EditWrite(t) \/ StartWrite(t)
      PROVE  Contiguous'
  BY <1>2, <1>8 DEF ReportWrite, EditWrite, StartWrite
<1>9. ASSUME NEW t \in Tx, Quiet(t)
      PROVE  Contiguous'
  BY <1>2, <1>9, QuietKeeps DEF inventory
<1>10. CASE AtOnce
  BY <1>2, <1>10, AtOnceTypes
<1>11. CASE UNCHANGED vars
  BY <1>2, <1>11 DEF vars, inventory
<1> QED
  BY <1>3, <1>4, <1>5, <1>6, <1>7, <1>8, <1>9, <1>10, <1>11, NextIs DEF Writes

LEMMA InvariantStep == IInv /\ [Next]_vars => IInv'
<1>1. IInv /\ [Next]_vars => TypeOK'
  BY TypeStep DEF IInv
<1> QED
  BY <1>1, SlotHeldStep, FileHeldStep, PrintedStep, ContiguousStep DEF IInv

LEMMA Invariant == Spec => []IInv
  BY InitHolds, InvariantStep, PTL DEF Spec

-----------------------------------------------------------------------------
\* Every pallet with a printed label is on the label PDF that is current, and a
\* container has at most one current file of each type: regenerated labels
\* supersede the old PDF and every old pallet with it, and no pallet that they
\* delete is held by a scan, which would bring it back; activations of reports
\* exclude each other.
THEOREM LabelsAreCurrent == Spec => []PrintedOnCurrentFile
<1>1. IInv => PrintedOnCurrentFile
  BY AtMostOne DEF IInv, PrintedKept, PrintedOnCurrentFile, Rows
<1> QED
  BY <1>1, Invariant, PTL

\* What a step may do to the history of pallets and of the container.
HistoryKept ==
    /\ \A s \in Slots :
          /\ pallet[s].status = "LOADED" =>
                \/ pallet'[s] = pallet[s]
                \/ pallet'[s] = [pallet[s] EXCEPT !.status = "LABEL_PRINTED"]
                \/ dest'[s[1]].state = "deleted"
          /\ pallet[s].status = "ADJUSTED_OUT" => pallet'[s] = pallet[s]
    /\ contStatus \in {"LOADING_IN_PROGRESS", "LOADED"} => contStatus' # "UNLOADED"

LEMMA HistoryStep ==
    ASSUME IInv, [Next]_vars
    PROVE  HistoryKept
<1> USE DEF IInv
<1>1. ASSUME UNCHANGED pallet,
             contStatus \in {"LOADING_IN_PROGRESS", "LOADED"} => contStatus' # "UNLOADED"
      PROVE  HistoryKept
  BY <1>1 DEF HistoryKept
<1>2. ASSUME NEW t \in Tx, LabelsWrite(t)
      PROVE  HistoryKept
  <2>1. \A s \in Slots : pallet[s].status \notin {"LOADED", "ADJUSTED_OUT"}
    BY <1>2, LabelsWriteDoes DEF Reusable
  <2>2. contStatus' = "LABELS_GENERATED"
    BY <1>2 DEF LabelsWrite
  <2> QED
    BY <2>1, <2>2 DEF HistoryKept
<1>3. ASSUME NEW t \in Tx, SyncWrite(t)
      PROVE  HistoryKept
  <2>1. SyncNew \subseteq Slots /\ contStatus \notin {"LOADING_IN_PROGRESS", "LOADED"}
    BY <1>3, SyncWriteDoes
  <2>2. ASSUME NEW s \in Slots, pallet[s].status \in {"LOADED", "ADJUSTED_OUT"}
        PROVE  pallet'[s] = pallet[s]
    <3>1. s \notin SyncNew
      BY <2>1, <2>2, SyncNewIsFree
    <3>2. s \notin SyncSurplus
      BY <1>3, <2>2, SyncWriteDoes DEF Reusable
    <3> QED
      BY <1>3, <3>1, <3>2, SyncWriteDoes
  <2> QED
    BY <2>1, <2>2 DEF HistoryKept
<1>4. ASSUME NEW t \in Tx, DeleteWrite(t)
      PROVE  HistoryKept
  <2>1. contStatus' = "CORRECTED"
    BY <1>4 DEF DeleteWrite
  <2>2. ASSUME NEW s \in Slots, pallet[s].status \in {"LOADED", "ADJUSTED_OUT"}
        PROVE  \/ pallet'[s] = pallet[s]
               \/ pallet[s].status = "LOADED" /\ dest'[s[1]].state = "deleted"
    <3>1. CASE s[1] # mem[t].dest
      BY <1>4, <3>1, DeleteWriteDoes
    <3>2. CASE s[1] = mem[t].dest
      <4>1. s \in RowsOf(mem[t].dest) /\ mem[t].dest \in Dests
        BY <2>2, <3>2, SlotsAre DEF RowsOf, Rows
      <4> QED
        BY <1>4, <2>2, <3>2, <4>1, DeleteWriteDoes
    <3> QED
      BY <3>1, <3>2
  <2> QED
    BY <2>1, <2>2 DEF HistoryKept
<1>5. ASSUME NEW t \in Tx, ScanCommit(t)
      PROVE  HistoryKept
  <2>1. pallet[mem[t].slot].status # "ADJUSTED_OUT"
    BY <1>5 DEF ScanCommit, SlotHeld, Held, Reusable
  <2>2. NewStatus(t) \in {"LOADED", "LABEL_PRINTED"}
    BY DEF NewStatus
  <2>3. ASSUME NEW s \in Slots, pallet[s].status = "LOADED"
        PROVE  \/ pallet'[s] = pallet[s]
               \/ pallet'[s] = [pallet[s] EXCEPT !.status = "LABEL_PRINTED"]
    <3>1. [pallet[s] EXCEPT !.status = "LOADED"] = pallet[s]
      BY <2>3, TypesOfMem DEF PalletType
    <3>2. \/ pallet'[s] = pallet[s]
          \/ pallet'[s] = [pallet[s] EXCEPT !.status = NewStatus(t)]
      BY <1>5, ScanCommitDoes DEF OnlyStatus
    <3> QED
      BY <2>2, <3>1, <3>2
  <2>4. \A s \in Slots : pallet[s].status = "ADJUSTED_OUT" => pallet'[s] = pallet[s]
    BY <1>5, <2>1, ScanCommitDoes DEF OnlyStatus
  <2>5. contStatus \in {"LOADING_IN_PROGRESS", "LOADED"} => contStatus' # "UNLOADED"
    BY <1>5, ScanCommitDoes
  <2> QED
    BY <2>3, <2>4, <2>5 DEF HistoryKept
<1>6. ASSUME NEW t \in Tx, DepleteWrite(t)
      PROVE  HistoryKept
  <2>1. pallet[mem[t].slot].status \notin {"LOADED", "ADJUSTED_OUT"}
    BY <1>6 DEF DepleteWrite, SlotHeld, Held, Reusable
  <2>2. \A s \in Slots : pallet[s].status \in {"LOADED", "ADJUSTED_OUT"} =>
                            pallet'[s] = pallet[s]
    BY <1>6, <2>1, DepleteWriteDoes DEF OnlyStatus
  <2> QED
    BY <1>6, <2>2, DepleteWriteDoes DEF HistoryKept
<1>7. ASSUME NEW t \in Tx, ReportWrite(t) \/ EditWrite(t) \/ StartWrite(t)
      PROVE  HistoryKept
  BY <1>1, <1>7 DEF ReportWrite, EditWrite, StartWrite
<1>8. ASSUME NEW t \in Tx, Quiet(t)
      PROVE  HistoryKept
  BY <1>1, <1>8, QuietKeeps DEF inventory
<1>9. CASE AtOnce
  BY <1>1, <1>9, AtOnceTypes
<1>10. CASE UNCHANGED vars
  BY <1>1, <1>10 DEF vars, inventory
<1> QED
  BY <1>2, <1>3, <1>4, <1>5, <1>6, <1>7, <1>8, <1>9, <1>10, NextIs DEF Writes

\* A pallet that is loaded stays loaded until its scan is reversed or its
\* destination is deleted, one that is adjusted out stays so, and a container that
\* is being loaded does not become UNLOADED: labels and synchronisations decide
\* again under the locks, and scans and depletions hold the pallet they write.
THEOREM HistoryIsKept == Spec => HistoryStays
<1>1. IInv /\ [Next]_vars => [HistoryKept]_vars
  BY HistoryStep
<1> QED
  BY <1>1, Invariant, PTL DEF Spec, HistoryStays, HistoryKept

-----------------------------------------------------------------------------
\* The active pallets after a step, by what becomes of each.
LEMMA ActiveNext ==
    ASSUME NEW d \in Dests
    PROVE  ActiveOf(d)' = {s \in Slots : s[1] = d /\ pallet'[s].status \notin Removed \cup {"NONE"}}
  BY DEF ActiveOf, Active, RowsOf, Rows

\* What is here after new labels or a synchronisation was here before.
CountsMatch == \A d \in Dests :
    dest'[d].state = "here" => Cardinality(ActiveOf(d)') = dest'[d].final

LEMMA LabelsMatch ==
    ASSUME IInv, NEW t \in Tx, LabelsWrite(t)
    PROVE  CountsMatch
<1> USE DEF IInv
<1> SUFFICES ASSUME NEW d \in Dests, dest'[d].state = "here"
             PROVE  Cardinality(ActiveOf(d)') = dest'[d].final
  BY DEF CountsMatch
<1> DEFINE n == dest[d].final
           f == [i \in 1..n |-> <<d, i>>]
<1>1. dest' = dest /\ d \in Here
  BY DEF LabelsWrite, Here
<1>2. n \in Nat /\ n <= MaxNo[d] /\ MaxNo[d] \in Nat
  BY FinalIsNat, CountsAre
<1>3. ASSUME NEW s \in Slots, s[1] = d
      PROVE  pallet'[s].status \notin Removed \cup {"NONE"} <=> s[2] <= n
  <2>1. pallet'[s] = IF s[2] <= n THEN Row("LABEL_PRINTED", Index(d), NewId) ELSE NoRow
    BY <1>1, <1>3, LabelsWriteDoes
  <2>2. Row("LABEL_PRINTED", Index(d), NewId).status = "LABEL_PRINTED"
    BY DEF Row
  <2>3. "LABEL_PRINTED" \notin Removed \cup {"NONE"}
    BY DEF Removed
  <2> QED
    BY <2>1, <2>2, <2>3, NoRowType
<1>4. ActiveOf(d)' = {s \in Slots : s[1] = d /\ s[2] <= n}
  BY <1>3, ActiveNext
<1> HIDE DEF n
<1>5. {s \in Slots : s[1] = d /\ s[2] <= n} = {<<d, i>> : i \in 1..n}
  BY <1>2, SlotsAre
<1>6. f \in Bijection(1..n, {<<d, i>> : i \in 1..n})
  BY DEF Bijection, Injection, IsInjective, Surjection
<1>7. ExistsBijection(1..n, {<<d, i>> : i \in 1..n})
  BY <1>6 DEF ExistsBijection
<1>8. Cardinality({<<d, i>> : i \in 1..n}) = n
  BY <1>2, <1>7, FS_CountingElements
<1>9. Cardinality(ActiveOf(d)') = n
  BY <1>4, <1>5, <1>8
<1> QED
  BY <1>1, <1>9 DEF n

LEMMA SyncMatches ==
    ASSUME IInv, NEW t \in Tx, SyncWrite(t)
    PROVE  CountsMatch
<1> USE DEF IInv
<1> SUFFICES ASSUME NEW d \in Dests, dest'[d].state = "here"
             PROVE  Cardinality(ActiveOf(d)') = dest'[d].final
  BY DEF CountsMatch
<1> DEFINE n     == dest[d].final
           A     == ActiveOf(d)
           rank(s) == Cardinality({u \in A : u[2] < s[2]})
           kept  == {s \in A : rank(s) < n}
           new   == Missing(d)
<1>1. dest' = dest /\ d \in Here
  BY DEF SyncWrite, Here
<1>2. n \in Nat /\ IsFiniteSet(A) /\ Cardinality(A) \in Nat
  BY FinalIsNat, ActiveRows
<1>3. SyncNew \subseteq Slots
  BY SyncWriteDoes
<1>4. PICK k \in 0..MaxNo[d] : OccupiedNos(d) = 1..k
  BY DEF Contiguous
<1>5. k \in Nat /\ Shortage(d) \in Nat /\ new = {d} \X ((k+1)..(k + Shortage(d)))
  BY <1>4, MissingFollow, CountsAre
<1>6. IsFiniteSet(new) /\ Cardinality(new) = Shortage(d)
  <2> DEFINE c == Shortage(d)
             f == [i \in 1..c |-> <<d, k + i>>]
  <2>1. c \in Nat /\ k \in Nat /\ new = {d} \X ((k+1)..(k + c))
    BY <1>5
  <2> HIDE DEF c, new
  <2>2. f \in Injection(1..c, new)
    BY <2>1 DEF Injection, IsInjective
  <2>3. ASSUME NEW s \in new
        PROVE  \E i \in 1..c : f[i] = s
    <3>1. s = <<d, s[2]>> /\ s[2] \in (k+1)..(k + c)
      BY <2>1
    <3>2. s[2] - k \in 1..c /\ k + (s[2] - k) = s[2]
      BY <2>1, <3>1
    <3> QED
      BY <3>1, <3>2
  <2>4. f \in Bijection(1..c, new)
    BY <2>2, <2>3 DEF Bijection, Injection, Surjection
  <2>5. IsFiniteSet(1..c) /\ Cardinality(1..c) = c
    BY <2>1, FirstNumbers
  <2>6. ExistsBijection(1..c, new)
    BY <2>4 DEF ExistsBijection
  <2>7. IsFiniteSet(new) /\ Cardinality(new) = c
    BY <2>5, <2>6, FS_Bijection
  <2> QED
    BY <2>7 DEF c
<1>7. \A s \in new : s \in SyncNew /\ s[1] = d /\ s \in Slots
  BY <1>1, <1>3, <1>5 DEF SyncNew
<1>8. \A s \in A : s \in Slots /\ s[1] = d /\ pallet[s].status \notin Removed \cup {"NONE"}
  BY DEF ActiveOf, Active, RowsOf, Rows
<1>9. \A s \in Slots : s[1] = d /\ s \in SyncSurplus <=> s \in A /\ ~(rank(s) < n)
  <2>1. \A e \in Dests : \A s \in Surplus(e) : s[1] = e
    BY DEF Surplus, ActiveOf, RowsOf
  <2>2. \A s \in Surplus(d) : s \in A /\ ~(rank(s) < n)
    <3>1. \A s \in A : rank(s) \in Nat
      BY <1>2, ActiveRows, LowestCount
    <3> HIDE DEF rank
    <3>2. \A s \in Surplus(d) : s \in A /\ rank(s) >= n
      BY DEF Surplus, rank
    <3> QED
      BY <1>2, <3>1, <3>2
  <2>3. \A s \in A : ~(rank(s) < n) => s \in Surplus(d)
    <3>1. \A s \in A : rank(s) \in Nat
      BY <1>2, ActiveRows, LowestCount
    <3> HIDE DEF rank
    <3>2. \A s \in A : rank(s) >= n => s \in Surplus(d)
      BY DEF Surplus, rank
    <3> QED
      BY <1>2, <3>1, <3>2
  <2>4. \A e \in Here : e \in Dests
    BY DEF Here
  <2> HIDE DEF rank, A
  <2> QED
    BY <1>1, <1>8, <2>1, <2>2, <2>3, <2>4 DEF SyncSurplus
<1>10. ASSUME NEW s \in Slots, s[1] = d
       PROVE  pallet'[s].status \notin Removed \cup {"NONE"} <=> s \in new \cup kept
  <2>1. s \in SyncNew <=> s \in new
    BY <1>1, <1>10 DEF SyncNew, Missing
  <2>2. s \in SyncNew => pallet'[s].status = "PLANNED"
    <3>1. Row("PLANNED", Index(s[1]), 0).status = "PLANNED"
      BY DEF Row
    <3> QED
      BY <3>1, SyncWriteDoes
  <2>3. [pallet[s] EXCEPT !.status = "CANCELLED"].status = "CANCELLED"
    BY TypesOfMem DEF PalletType
  <2>4. s \notin SyncNew =>
           pallet'[s].status = IF s \in SyncSurplus THEN "CANCELLED" ELSE pallet[s].status
    BY <2>3, SyncWriteDoes
  <2>5. s \in A <=> pallet[s].status \notin Removed \cup {"NONE"}
    BY <1>10 DEF ActiveOf, Active, RowsOf, Rows
  <2>6. {"CANCELLED"} \subseteq Removed /\ "PLANNED" \notin Removed \cup {"NONE"}
    BY DEF Removed
  <2>7. s \in SyncSurplus <=> s \in A /\ ~(rank(s) < n)
    BY <1>9, <1>10
  <2> HIDE DEF A, rank, new
  <2> QED
    BY <2>1, <2>2, <2>4, <2>5, <2>6, <2>7
<1>11. ActiveOf(d)' = new \cup kept
  <2>1. \A s \in new \cup kept : s \in Slots /\ s[1] = d
    BY <1>7, <1>8
  <2> HIDE DEF new, kept
  <2> QED
    BY <1>10, <2>1, ActiveNext
<1>12. new \cap kept = {}
  <2>1. \A s \in new : pallet[s].status = "NONE"
    BY <1>3, <1>7, SyncNewIsFree
  <2> HIDE DEF new, A
  <2> QED
    BY <1>8, <2>1
<1>13. IsFiniteSet(kept)
  BY <1>2, FS_Subset
<1>14. Cardinality(ActiveOf(d)') = Cardinality(new) + Cardinality(kept)
  <2> HIDE DEF new, kept
  <2>1. Cardinality(new \cup kept) =
            Cardinality(new) + Cardinality(kept) - Cardinality(new \cap kept)
    BY <1>6, <1>13, FS_Union
  <2>2. Cardinality(new \cap kept) = 0
    BY <1>12, FS_EmptySet
  <2>3. Cardinality(new) \in Nat /\ Cardinality(kept) \in Nat
    BY <1>6, <1>13, FS_CardinalityType
  <2> QED
    BY <1>11, <2>1, <2>2, <2>3
<1>15. /\ \A s \in A : rank(s) \in Nat /\ rank(s) < Cardinality(A)
       /\ n <= Cardinality(A) => Cardinality(kept) = n
  BY <1>2, ActiveRows, LowestCount
<1> HIDE DEF rank
<1>16. CASE n <= Cardinality(A)
  <2>1. Shortage(d) = 0
    BY <1>2, <1>16 DEF Shortage
  <2> HIDE DEF kept, A, n, new
  <2> QED
    BY <1>1, <1>2, <1>6, <1>14, <1>15, <1>16, <2>1 DEF n
<1>17. CASE ~(n <= Cardinality(A))
  <2>1. Shortage(d) = n - Cardinality(A)
    BY <1>2, <1>17 DEF Shortage
  <2>2. kept = A
    <3> HIDE DEF A, n
    <3> QED
      BY <1>2, <1>15, <1>17
  <2> HIDE DEF kept, A, n, new
  <2> QED
    BY <1>1, <1>2, <1>6, <1>14, <1>17, <2>1, <2>2 DEF n
<1> QED
  BY <1>16, <1>17

\* Only new labels and a synchronisation make a container UNLOADED, or a new
\* label PDF current.
Committing == (contStatus # "UNLOADED" /\ contStatus' = "UNLOADED") \/ ~(labels' \subseteq labels)

LEMMA CountsStep ==
    ASSUME IInv, [Next]_vars
    PROVE  Committing => CountsMatch
<1> USE DEF IInv
<1>1. ASSUME UNCHANGED labels, contStatus' # contStatus => contStatus' # "UNLOADED"
      PROVE  ~Committing
  BY <1>1 DEF Committing
<1>2. ASSUME NEW t \in Tx, LabelsWrite(t)
      PROVE  CountsMatch
  BY <1>2, LabelsMatch
<1>3. ASSUME NEW t \in Tx, SyncWrite(t)
      PROVE  CountsMatch
  BY <1>3, SyncMatches
<1>4. ASSUME NEW t \in Tx, ScanCommit(t)
      PROVE  ~Committing
  BY <1>1, <1>4, ScanCommitDoes DEF ScanCommit, files
<1>5. ASSUME NEW t \in Tx, ReportWrite(t) \/ EditWrite(t) \/ DeleteWrite(t)
                           \/ StartWrite(t) \/ DepleteWrite(t)
      PROVE  ~Committing
  BY <1>1, <1>5 DEF ReportWrite, EditWrite, DeleteWrite, StartWrite, DepleteWrite, files
<1>6. ASSUME NEW t \in Tx, Quiet(t)
      PROVE  ~Committing
  BY <1>1, <1>6, QuietKeeps DEF inventory, files
<1>7. CASE AtOnce
  BY <1>1, <1>7, AtOnceTypes DEF files
<1>8. CASE UNCHANGED vars
  BY <1>1, <1>8 DEF vars, inventory, files
<1> QED
  BY <1>2, <1>3, <1>4, <1>5, <1>6, <1>7, <1>8, NextIs DEF Writes

\* When a container becomes UNLOADED, or a new label PDF becomes current, every
\* destination has exactly its final count of active pallets: the numbers never
\* leave a gap, so a synchronisation fills a shortage with as many new numbers,
\* and it cancels as many of the highest as there are too many.
THEOREM CommitsMatchCounts == Spec => CommittedCountsMatch
<1>1. IInv /\ [Next]_vars => [Committing => CountsMatch]_vars
  BY CountsStep
<1> QED
  BY <1>1, Invariant, PTL DEF Spec, CommittedCountsMatch, Committing, CountsMatch

-----------------------------------------------------------------------------
(* The two pallet calculations agree for all capacities, extra pallets and *)
(* lines.  Neither rounding can round differently from the other because   *)
(* each gives the one number q with c * (q - 1) < v <= c * q (Quotient,    *)
(* Unique); lines of one kind add up because products do (Distributes).    *)

USE PalletCalculationAssumption

\* what the division of integers gives
LEMMA Quotient ==
    ASSUME NEW a \in Int, NEW c \in Nat \ {0}
    PROVE  a \div c \in Int /\ c * (a \div c) <= a /\ a < c * (a \div c) + c
  BY SMT

LEMMA Distributes ==
    ASSUME NEW d \in Int, NEW e \in Int, NEW c \in Int
    PROVE  /\ c * d \in Int /\ c * e \in Int
           /\ c * (d + e) = c * d + c * e
           /\ c * (d - e) = c * d - c * e
           /\ c * (-d) = -(c * d)
  BY SMT

LEMMA Grows ==
    ASSUME NEW d \in Int, NEW c \in Nat \ {0}, d >= 1
    PROVE  c * d >= c
  BY SMT

\* there is one such quotient
LEMMA Unique ==
    ASSUME NEW a \in Int, NEW c \in Nat \ {0}, NEW q \in Int,
           c * q <= a, a < c * q + c
    PROVE  a \div c = q
<1> DEFINE p == a \div c
<1>1. p \in Int /\ c * p <= a /\ a < c * p + c
    BY Quotient
<1>2. /\ c * (p - q) = c * p - c * q
      /\ c * (q - p) = c * q - c * p
      /\ c * p \in Int /\ c * q \in Int
    BY <1>1, Distributes
<1> HIDE DEF p
<1>3. ~ (p - q >= 1)
    BY <1>1, <1>2, Grows
<1>4. ~ (q - p >= 1)
    BY <1>1, <1>2, Grows
<1> QED
    BY <1>1, <1>3, <1>4 DEF p

\* what rounding towards the ceiling gives
LEMMA CeilingBounds ==
    ASSUME NEW v \in Nat, NEW c \in Nat \ {0}
    PROVE  /\ Ceiling(v, c) \in Nat
           /\ v <= c * Ceiling(v, c)
           /\ c * Ceiling(v, c) - c < v
<1> DEFINE q == (-v) \div c
<1>1. q \in Int /\ c * q <= -v /\ -v < c * q + c
    BY Quotient
<1>2. c * (-q) = -(c * q) /\ c * q \in Int
    BY <1>1, Distributes
<1>3. Ceiling(v, c) = -q
    BY DEF Ceiling
<1> HIDE DEF q
<1>4. -q >= 0
  <2> SUFFICES ASSUME q >= 1 PROVE FALSE
      BY <1>1
  <2>1. c * q >= c
      BY <1>1, Grows
  <2> QED
      BY <1>1, <1>2, <2>1
<1> QED
    BY <1>1, <1>2, <1>3, <1>4

\* the worker's Decimal and the API's BigInt round alike
LEMMA RoundAlike ==
    ASSUME NEW v \in Nat, NEW c \in Nat \ {0}
    PROVE  CeilDivide(v, c) = Ceiling(v, c)
<1> DEFINE q == Ceiling(v, c)
<1>1. q \in Nat /\ v <= c * q /\ c * q - c < v
    BY CeilingBounds
<1>2. c * q \in Int
    BY <1>1, Distributes
<1> HIDE DEF q
<1>3. c * q <= v + c - 1 /\ v + c - 1 < c * q + c
    BY <1>1, <1>2
<1>4. (v + c - 1) \div c = q
    BY <1>1, <1>3, Unique
<1> QED
    BY <1>4 DEF CeilDivide, q

\* nothing needs no pallet, and what is there needs one
LEMMA CeilingOfSome ==
    ASSUME NEW v \in Nat, NEW c \in Nat \ {0}
    PROVE  Ceiling(v, c) >= 1 <=> v > 0
<1> DEFINE q == Ceiling(v, c)
<1>1. q \in Nat /\ v <= c * q /\ c * q - c < v
    BY CeilingBounds
<1> HIDE DEF q
<1>2. ASSUME q >= 1 PROVE v > 0
    BY <1>1, <1>2, Grows, Distributes
<1>3. ASSUME v > 0 PROVE q >= 1
  <2>1. CASE q = 0
      BY <1>1, <1>3, <2>1
  <2> QED
      BY <1>1, <2>1
<1> QED
    BY <1>2, <1>3 DEF q

\* a code has one class in both, with a capacity that is not zero
LEMMA ClassAlike ==
    ASSUME NEW code \in SUBSET Aliases
    PROVE  /\ ApiClass(code) = WorkerClass(code)
           /\ WorkerClass(code).capacity \in Nat \ {0}
           /\ WorkerClass(code).extra \in Nat
  BY DEF ApiClass, WorkerClass, Aliases

\* a line has pieces and a volume, and pieces have one
LEMMA LineTyped ==
    ASSUME NEW line \in Lines
    PROVE  /\ line \in LineType
           /\ Counted(line.pieces) \in Nat
           /\ Reliable(line.pieces) => line.pieces \in Nat /\ line.pieces > 0
           /\ Reliable(line.pieces) <=> Counted(line.pieces) > 0
           /\ Weighed(line) \in Nat
           /\ Reliable(line.pieces) => Weighed(line) > 0
           /\ Weighed(line) = ApiVolume(Counted(line.pieces), line.volume)
  BY DEF LineType, Counted, Reliable, Weighed, ApiVolume

\* what one line loads
LEMMA LoadTyped ==
    ASSUME NEW line \in Lines, NEW c \in Nat \ {0}
    PROVE  LET load == Load(line, c)
           IN  /\ load.bulk \in Nat /\ load.loose \in BOOLEAN
               /\ load.counted \in Nat /\ load.pieces \in Nat
               /\ load.volume \in Nat
               /\ load.loose => load.bulk > 0
               /\ load.pieces > 0 => load.bulk > 0 \/ load.counted > 0
               /\ load.pieces = Counted(line.pieces)
               /\ load.volume = Weighed(line)
<1>1. CASE WorkerMode(line, c) = "VOLUME"
    BY <1>1, LineTyped DEF Load
<1>2. CASE WorkerMode(line, c) = "PIECES"
    BY <1>2, LineTyped DEF Load, WorkerMode
<1> QED
    BY <1>1, <1>2 DEF WorkerMode

\* what two lines load together
LEMMA TogetherTyped ==
    ASSUME NEW first \in Lines, NEW second \in Lines, NEW c \in Nat \ {0}
    PROVE  LET load == Together(first, second, c)
           IN  /\ load.bulk \in Nat /\ load.loose \in BOOLEAN
               /\ load.counted \in Nat /\ load.pieces \in Nat
               /\ load.volume \in Nat
               /\ load.loose => load.bulk > 0
               /\ load.pieces > 0 => load.bulk > 0 \/ load.counted > 0
<1> DEFINE a == Load(first, c)
           b == Load(second, c)
<1>1. Together(first, second, c)
        = [bulk |-> a.bulk + b.bulk, loose |-> a.loose \/ b.loose,
           counted |-> a.counted + b.counted,
           pieces |-> a.pieces + b.pieces, volume |-> a.volume + b.volume]
    BY DEF Together, Merge
<1>2. /\ a.bulk \in Nat /\ a.loose \in BOOLEAN /\ a.counted \in Nat
      /\ a.pieces \in Nat /\ a.volume \in Nat
      /\ a.loose => a.bulk > 0
      /\ a.pieces > 0 => a.bulk > 0 \/ a.counted > 0
    BY LoadTyped
<1>3. /\ b.bulk \in Nat /\ b.loose \in BOOLEAN /\ b.counted \in Nat
      /\ b.pieces \in Nat /\ b.volume \in Nat
      /\ b.loose => b.bulk > 0
      /\ b.pieces > 0 => b.bulk > 0 \/ b.counted > 0
    BY LoadTyped
<1> HIDE DEF a, b
<1> QED
    BY <1>1, <1>2, <1>3

\* where loose goods have a volume the worker's minimum of one pallet changes nothing
LEMMA BaseIsCeiling ==
    ASSUME NEW load, NEW c \in Nat \ {0},
           load.bulk \in Nat, load.loose => load.bulk > 0
    PROVE  WorkerBase(load, c) = Ceiling(load.bulk, c)
  BY CeilingOfSome, CeilingBounds DEF WorkerBase

LEMMA ApiBaseIsCeiling ==
    ASSUME NEW pieces \in Nat, NEW v \in Nat, NEW c \in Nat \ {0},
           pieces > 0 => v > 0
    PROVE  ApiBase(pieces, v, c) = Ceiling(v, c)
  BY CeilingOfSome, CeilingBounds, RoundAlike DEF ApiBase

\* the rule of a line is the rule of its totals
LEMMA ModeAlike ==
    ASSUME NEW line \in Lines, NEW c \in Nat \ {0}
    PROVE  ApiMode(Counted(line.pieces), Weighed(line), line.package, c)
              = WorkerMode(line, c)
<1>1. CASE Reliable(line.pieces)
    BY <1>1 DEF ApiMode, WorkerMode, Counted, Reliable
<1>2. CASE ~Reliable(line.pieces)
    BY <1>2 DEF ApiMode, WorkerMode, Counted
<1> QED
    BY <1>1, <1>2

\* and so are the warnings
LEMMA WarningsAlike ==
    ASSUME NEW line \in Lines, NEW c \in Nat \ {0}
    PROVE  ApiWarnings(Counted(line.pieces), line.volume, line.package, c)
              = WorkerWarnings(line, c)
<1>1. line \in LineType /\ line.package \in Packages
    BY LineTyped DEF LineType
<1>2. CASE Reliable(line.pieces)
    BY <1>2 DEF ApiWarnings, WorkerWarnings, Counted, Reliable
<1>3. CASE ~Reliable(line.pieces)
    BY <1>1, <1>3 DEF ApiWarnings, WorkerWarnings, Counted, Packages
<1> QED
    BY <1>2, <1>3

(* For every capacity and all lines both implementations calculate the same of the
   same line: classify_destination, _prepare_input, _aggregate_group and
   calculateDestinationPallets. *)
THEOREM Agreement == CalculationsAgree
<1> SUFFICES ASSUME NEW code \in SUBSET Aliases, NEW line \in Lines
             PROVE  LET class  == WorkerClass(code)
                        pieces == Counted(line.pieces)
                        volume == ApiVolume(pieces, line.volume)
                    IN  /\ ApiClass(code) = class
                        /\ ApiMode(pieces, volume, line.package, class.capacity)
                              = WorkerMode(line, class.capacity)
                        /\ ApiWarnings(pieces, line.volume, line.package, class.capacity)
                              = WorkerWarnings(line, class.capacity)
                        /\ ApiPallets(pieces, line.volume, line.package, class)
                              = WorkerPallets(Load(line, class.capacity), class)
    BY DEF CalculationsAgree
<1> DEFINE class == WorkerClass(code)
           c     == class.capacity
           load  == Load(line, c)
<1>1. ApiClass(code) = class /\ c \in Nat \ {0} /\ class.extra \in Nat
    BY ClassAlike
<1>2. /\ Counted(line.pieces) \in Nat /\ Weighed(line) \in Nat
      /\ Counted(line.pieces) > 0 => Weighed(line) > 0
      /\ Weighed(line) = ApiVolume(Counted(line.pieces), line.volume)
    BY LineTyped
<1> HIDE DEF class, c
<1>3. ApiMode(Counted(line.pieces), Weighed(line), line.package, c) = WorkerMode(line, c)
    BY <1>1, ModeAlike
<1>4. /\ load.bulk \in Nat /\ load.counted \in Nat
      /\ load.loose => load.bulk > 0
    BY <1>1, LoadTyped
<1> HIDE DEF load
<1>5. WorkerBase(load, c) = Ceiling(load.bulk, c)
    BY <1>1, <1>4, BaseIsCeiling
<1>6. ApiPallets(Counted(line.pieces), line.volume, line.package, class)
        = WorkerPallets(load, class)
  <2>1. CASE WorkerMode(line, c) = "PIECES"
    <3>1. load.bulk = 0 /\ load.counted = Counted(line.pieces)
        BY <2>1 DEF load, Load, WorkerMode, Counted
    <3>2. Ceiling(load.bulk, c) = 0
        BY <1>1, <3>1, CeilingOfSome, CeilingBounds
    <3> QED
        BY <1>1, <1>2, <1>3, <1>5, <2>1, <3>1, <3>2 DEF ApiPallets, WorkerPallets, c
  <2>2. CASE WorkerMode(line, c) = "VOLUME"
    <3>1. load.bulk = Weighed(line) /\ load.counted = 0
        BY <2>2 DEF load, Load
    <3>2. ApiBase(Counted(line.pieces), Weighed(line), c) = Ceiling(Weighed(line), c)
        BY <1>1, <1>2, ApiBaseIsCeiling
    <3>3. Ceiling(Weighed(line), c) \in Nat
        BY <1>1, <1>2, CeilingBounds
    <3> QED
        BY <1>1, <1>2, <1>3, <1>5, <2>2, <3>1, <3>2, <3>3
        DEF ApiPallets, WorkerPallets, c
  <2> QED
      BY <2>1, <2>2 DEF WorkerMode
<1>7. ApiWarnings(Counted(line.pieces), line.volume, line.package, c)
        = WorkerWarnings(line, c)
    BY <1>1, WarningsAlike
<1> QED
    BY <1>1, <1>2, <1>3, <1>6, <1>7 DEF class, c, load

(* For every capacity and any two lines the worker's pallets hold what is not counted
   by the piece, without a pallet too many, and goods get one (_aggregate_group,
   _volume_pallets). *)
THEOREM HoldAll == PalletsHold
<1> SUFFICES ASSUME NEW code \in SUBSET Aliases, NEW first \in Lines, NEW second \in Lines
             PROVE  LET class == WorkerClass(code)
                        load  == Together(first, second, class.capacity)
                        extra == IF load.bulk > 0 THEN class.extra ELSE 0
                        base  == WorkerPallets(load, class) - extra - load.counted
                    IN  /\ load.bulk <= base * class.capacity
                        /\ (base - 1) * class.capacity < load.bulk \/ base = 0
                        /\ load.pieces > 0 => base + load.counted > 0
    BY DEF PalletsHold
<1> DEFINE class == WorkerClass(code)
           c     == class.capacity
           load  == Together(first, second, c)
           extra == IF load.bulk > 0 THEN class.extra ELSE 0
           full  == Ceiling(load.bulk, c)
<1>1. c \in Nat \ {0} /\ class.extra \in Nat
    BY ClassAlike
<1> HIDE DEF class, c
<1>2. /\ load.bulk \in Nat /\ load.counted \in Nat /\ load.pieces \in Nat
      /\ load.loose => load.bulk > 0
      /\ load.pieces > 0 => load.bulk > 0 \/ load.counted > 0
    BY <1>1, TogetherTyped
<1>3. WorkerBase(load, c) = full
    BY <1>1, <1>2, BaseIsCeiling
<1>4. full \in Nat /\ load.bulk <= c * full /\ c * full - c < load.bulk
    BY <1>1, <1>2, CeilingBounds
<1>5. full >= 1 <=> load.bulk > 0
    BY <1>1, <1>2, CeilingOfSome
<1> HIDE DEF load, full
<1>6. WorkerPallets(load, class) - extra - load.counted = full
    BY <1>1, <1>2, <1>3, <1>4, <1>5 DEF WorkerPallets, c
<1>7. full * c = c * full /\ (full - 1) * c = c * full - c
    BY <1>1, <1>4
<1>8. full = 0 => load.bulk = 0
    BY <1>2, <1>4, <1>5
<1> QED
    BY <1>1, <1>2, <1>4, <1>5, <1>6, <1>7, <1>8 DEF class, c, load

(* For every capacity the totals of two lines of one kind that have counts give the
   pallets of the lines (calculateDestinationPallets of what _aggregate_group sums). *)
THEOREM TotalsSuffice == RecalculationKeeps
<1> SUFFICES ASSUME NEW code \in SUBSET Aliases, NEW first \in Lines, NEW second \in Lines,
                    Reliable(first.pieces), Reliable(second.pieces),
                    first.package = second.package,
                    WorkerMode(first, ApiClass(code).capacity)
                       = WorkerMode(second, ApiClass(code).capacity)
             PROVE  LET class == ApiClass(code)
                        load  == Together(first, second, class.capacity)
                    IN  ApiPallets(load.pieces, load.volume, first.package, class)
                           = WorkerPallets(load, class)
    BY DEF RecalculationKeeps
<1> DEFINE class == ApiClass(code)
           c     == class.capacity
           load  == Together(first, second, c)
           v     == Weighed(first)
           w     == Weighed(second)
           m     == first.pieces
           n     == second.pieces
<1>1. c \in Nat \ {0} /\ class.extra \in Nat
    BY ClassAlike
<1> HIDE DEF class, c
<1>2. /\ m \in Nat /\ m > 0 /\ v \in Nat /\ v > 0
      /\ n \in Nat /\ n > 0 /\ w \in Nat /\ w > 0
    BY LineTyped
<1>3. /\ load.bulk \in Nat /\ load.counted \in Nat
      /\ load.loose => load.bulk > 0
    BY <1>1, TogetherTyped
<1>4. load.pieces = m + n /\ load.volume = v + w
    BY <1>1 DEF Together, Merge, Load, Counted
<1>5. c * (m + n) = c * m + c * n /\ c * m \in Int /\ c * n \in Int
    BY <1>1, <1>2, Distributes
<1>6. ApiMode(m + n, v + w, first.package, c) = WorkerMode(first, c)
    BY <1>1, <1>2, <1>5 DEF ApiMode, WorkerMode, class, c
<1>7. ApiVolume(m + n, v + w) = v + w
    BY <1>2 DEF ApiVolume
<1>8. WorkerBase(load, c) = Ceiling(load.bulk, c)
    BY <1>1, <1>3, BaseIsCeiling
<1>9. CASE WorkerMode(first, c) = "PIECES"
  <2>1. load.bulk = 0 /\ load.counted = m + n
      BY <1>9 DEF Together, Merge, Load, class, c
  <2>2. Ceiling(load.bulk, c) = 0
      BY <1>1, <2>1, CeilingOfSome, CeilingBounds
  <2> HIDE DEF load, v, w, m, n
  <2> QED
      BY <1>1, <1>2, <1>4, <1>6, <1>7, <1>8, <1>9, <2>1, <2>2
      DEF ApiPallets, WorkerPallets, class, c, load
<1>10. CASE WorkerMode(first, c) = "VOLUME"
  <2>1. load.bulk = v + w /\ load.counted = 0
      BY <1>10 DEF Together, Merge, Load, class, c
  <2>2. ApiBase(m + n, v + w, c) = Ceiling(v + w, c)
      BY <1>1, <1>2, ApiBaseIsCeiling
  <2>3. Ceiling(v + w, c) \in Nat
      BY <1>1, <1>2, CeilingBounds
  <2> HIDE DEF load, v, w, m, n
  <2> QED
      BY <1>1, <1>2, <1>4, <1>6, <1>7, <1>8, <1>10, <2>1, <2>2, <2>3
      DEF ApiPallets, WorkerPallets, class, c, load
<1> QED
    BY <1>9, <1>10 DEF WorkerMode
=============================================================================
