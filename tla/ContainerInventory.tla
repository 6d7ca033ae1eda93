-------------------------- MODULE ContainerInventory --------------------------
(***************************************************************************)
(* What one container holds, and everything that changes it: pallet labels *)
(* (apps/api/src/labels), corrections (corrections), the synchronisation   *)
(* of its pallets when it is unloaded (pallet-inventory-sync, called by    *)
(* corrections and unloading-wage), reports (reports, generated-files) and *)
(* what load jobs and depletions do to its pallets and its status.         *)
(*                                                                         *)
(* Requests are processes t.  Labels and reports are made by a worker      *)
(* between an unlocked read and a transaction; the transactions run under  *)
(* READ COMMITTED and lock the container, then its destinations, then its  *)
(* pallets, in that order; a scan locks a pallet first.  Destinations are  *)
(* locked only under the container's lock and need none of their own here. *)
(* Variables hold committed values.  A transaction that waits for no row   *)
(* after its first lock is one step.                                       *)
(*                                                                         *)
(* Load jobs are reduced to what they do to this container (LoadJobs has   *)
(* the rest): a pallet is LOADED exactly when it has a load job.           *)
(***************************************************************************)
EXTENDS Integers, FiniteSets

CONSTANTS
    Tx,        \* concurrent requests (a bound on concurrency)
    Dests,     \* the numbers of destination rows, in the order in which
               \* queries return them (code, type, package type)
    CodeOf,    \* the destination code of each
    Parsed,    \* the destinations that the parsed workbook has
    Counts,    \* the numbers of pallets that the rules come to
    Overrides, \* the numbers of pallets that people enter instead
    Edits,     \* the corrections of a destination: the calculated and the
               \* manual count that the request brings, or Keep
    MaxNo,     \* [Dests -> Nat], bound: the highest pallet number
    MaxId,     \* bound: the label PDFs that anything refers to at a time
    Ops,       \* the endpoints that clients call
    SetTo,     \* the statuses that the office sets by hand
    Null, Keep, Nobody

\* (container_destination_id, pallet_no) is unique
Slots == UNION {{d} \X (1..MaxNo[d]) : d \in Dests}

Endpoints == {"labels", "report", "office", "wage", "edit", "create", "delete",
              "fields", "setStatus", "scan", "reverse", "deplete", "start"}

Locked     == {"UNLOADED", "LOADING_IN_PROGRESS", "LOADED"}
ContStates == Locked \cup {"PARSED", "CORRECTED", "REPORT_GENERATED", "LABELS_GENERATED"}
Removed    == {"CANCELLED", "ADJUSTED_OUT"}
Reusable   == {"PLANNED", "LABEL_PRINTED"}
PalletStates == Removed \cup Reusable \cup {"LOADED", "NONE"}

Manual == Overrides \cup {Null}
Final  == Counts \cup Overrides \cup {0}

ASSUME ContainerInventoryAssumption ==
    /\ IsFiniteSet(Dests) /\ Dests \subseteq Nat /\ Parsed \subseteq Dests
    /\ MaxNo \in [Dests -> Nat] /\ MaxId \in Nat
    /\ Counts \subseteq Nat /\ Overrides \subseteq Nat \ {0}
    /\ \A d \in Dests, n \in Counts \cup Overrides : n <= MaxNo[d]
    /\ Ops \subseteq Endpoints
    /\ SetTo \subseteq ContStates \ {"LOADED", "UNLOADED"}
    /\ Edits \subseteq [calc : Counts \cup {Keep}, manual : Manual \cup {Keep}]
    /\ Null \notin Nat /\ Keep \notin Nat \cup {Null} /\ Nobody \notin Tx

VARIABLES
    contStatus,   \* containers.status
    dest,         \* container_destinations
    pallet,       \* pallets, by destination and number; printed is the label
                  \* PDF that shows it, 0 when label_printed_at is null
    labels,       \* the label PDFs that are GENERATED
    reports,      \* the Excel reports that are GENERATED
    contOwner,    \* who locks the container
    rowOwner,     \* who locks a pallet
    fileOwner,    \* who holds the advisory lock of the container's report
    pc,           \* where a request is
    mem           \* what it was asked and has read

inventory == <<contStatus, dest, pallet>>
files     == <<labels, reports>>
locks     == <<contOwner, rowOwner, fileOwner>>
vars      == <<inventory, files, locks, pc, mem>>

NoRow  == [status |-> "NONE", index |-> 0, printed |-> 0]
Row(status, index, printed) == [status |-> status, index |-> index, printed |-> printed]
Idle   == [op |-> "none", dest |-> 0, slot |-> <<0, 0>>, status |-> "none",
           mark |-> FALSE, drafts |-> {}, previous |-> {}, active |-> 0,
           loaded |-> 0, calc |-> Keep, manual |-> Keep, final |-> Keep]
Steps == {"idle", "work", "commit", "rows", "edit", "startWrite", "depleteWrite",
          "readStatus", "count", "scanCommit", "fileWrite"}

TypeOK ==
    /\ contStatus \in ContStates
    /\ dest \in [Dests -> [state : {"absent", "here", "deleted"}, calc : Counts \cup {0},
                           manual : Manual, final : Final]]
    /\ pallet \in [Slots -> [status : PalletStates, index : Nat, printed : 0..MaxId]]
    /\ labels \subseteq 1..MaxId /\ reports \subseteq Tx
    /\ contOwner \in Tx \cup {Nobody}
    /\ rowOwner \in [Slots -> Tx \cup {Nobody}]
    /\ fileOwner \in Tx \cup {Nobody}
    /\ pc \in [Tx -> Steps]
    /\ mem \in [Tx -> [op : Endpoints \cup {"none"}, dest : Dests \cup {0},
                       slot : Slots \cup {<<0, 0>>}, status : ContStates \cup {"none"},
                       mark : BOOLEAN, drafts : SUBSET (Dests \X Nat \X Nat),
                       previous : SUBSET Tx, active : Nat, loaded : Nat,
                       calc : Counts \cup {Keep}, manual : Manual \cup {Keep},
                       final : Final \cup {Keep}]]

-----------------------------------------------------------------------------
\* common/container-lifecycle.ts and common/pallet-identity.ts

Here     == {d \in Dests : dest[d].state = "here"}
Rows     == {s \in Slots : pallet[s].status # "NONE"}
RowsOf(d) == {s \in Rows : s[1] = d}
Active   == {s \in Rows : pallet[s].status \notin Removed}
ActiveOf(d) == Active \cap RowsOf(d)
Loaded   == {s \in Rows : pallet[s].status = "LOADED"}

\* effectiveContainerStatus: the stored status, or what the pallets say
EffectiveStatus ==
    CASE contStatus \in {"LOADING_IN_PROGRESS", "LOADED"} -> contStatus
      [] OTHER -> IF Loaded = {} THEN contStatus
                  ELSE IF Loaded = Active THEN "LOADED" ELSE "LOADING_IN_PROGRESS"

\* containerStatusFromInventoryCounts; null, "leave it", is the current status
StatusFromCounts(active, loaded, current) ==
    CASE active = 0                       -> current
      [] active > 0 /\ loaded >= active   -> "LOADED"
      [] loaded > 0 /\ loaded < active    -> "LOADING_IN_PROGRESS"
      [] active > 0 /\ loaded = 0         ->
             IF current = "UNLOADED" THEN "UNLOADED" ELSE "LABELS_GENERATED"

Editable == EffectiveStatus \notin Locked

\* assertContainerEditableForStatusUpdate, for a request that names a status
EditableForStatus == Editable \/ (EffectiveStatus = "LOADING_IN_PROGRESS" /\ Loaded = {})

CanRegenerate == Editable /\ \A s \in Rows : pallet[s].status \in Reusable

\* buildPalletIdentityDrafts: a pallet id is made of the position of the
\* destination in the query, its code and the number
Index(d) == Cardinality({e \in Here : e <= d})
Drafts   == UNION {{d} \X (1..dest[d].final) \X {Index(d)} : d \in Here}
PalletId(d, n, index) == <<index, CodeOf[d], n>>
UsedIds  == {PalletId(s[1], s[2], pallet[s].index) : s \in Rows}

\* An id that nothing refers to any more is taken again; a report goes by the
\* request that made it.
IdsInUse == {pallet[s].printed : s \in Rows} \cup labels
NewId    == CHOOSE i \in 1..MaxId : i \notin IdsInUse

-----------------------------------------------------------------------------
\* Requests and locks

Begin(t, op, step, m) ==
    /\ op \in Ops
    /\ pc[t] = "idle"
    /\ pc' = [pc EXCEPT ![t] = step]
    /\ mem' = [mem EXCEPT ![t] = [m EXCEPT !.op = op]]

Goto(t, step) == pc' = [pc EXCEPT ![t] = step]

\* commit, rollback and refusal release every lock
Finish(t) ==
    /\ pc' = [pc EXCEPT ![t] = "idle"]
    /\ mem' = [mem EXCEPT ![t] = Idle]
    /\ contOwner' = IF contOwner = t THEN Nobody ELSE contOwner
    /\ rowOwner' = [s \in Slots |-> IF rowOwner[s] = t THEN Nobody ELSE rowOwner[s]]
    /\ fileOwner' = IF fileOwner = t THEN Nobody ELSE fileOwner

ContainerFree(t) == contOwner \in {t, Nobody}
RowsFree(t, S)   == \A s \in S : rowOwner[s] \in {t, Nobody}

\* A worker that fails, a lost connection, a timeout, a deadlock, or a check
\* repeated under the locks that refuses: nothing of the inventory changes.  (A
\* failed worker leaves a FAILED file, which is never current.)
Abort(t) ==
    /\ pc[t] # "idle"
    /\ Finish(t)
    /\ UNCHANGED <<inventory, files>>

-----------------------------------------------------------------------------
\* Labels

LabelsRead(t) ==
    /\ CanRegenerate
    /\ Drafts # {}
    /\ Begin(t, "labels", "work", [Idle EXCEPT !.drafts = Drafts])
    /\ UNCHANGED <<inventory, files, locks>>

\* The worker has answered, or a synchronisation or a deletion begins: the
\* container is locked, then every pallet that a query finds under that lock.
LockContainer(t) ==
    /\ pc[t] = "commit" \/ (pc[t] = "work" /\ mem[t].op = "labels")
    /\ contOwner = Nobody
    /\ contOwner' = t
    /\ Goto(t, "rows")
    /\ UNCHANGED <<inventory, files, rowOwner, fileOwner, mem>>

\* Mutants: the checks made before the worker ran are not repeated.
LabelsCurrentDrafts(t) == Drafts = mem[t].drafts
LabelsCurrentStatus(t) == CanRegenerate

LabelsCurrent(t) == CanRegenerate /\ Drafts = mem[t].drafts

\* Mutant: only the destinations with a draft lose their old pallets.
DraftRowsOnly(D) ==
    [s \in Slots |->
        IF \E i \in Dests \cup {0} : <<s[1], s[2], i>> \in D
        THEN Row("LABEL_PRINTED", Index(s[1]), NewId)
        ELSE pallet[s]]

\* every old pallet is deleted, every draft created and marked printed
DraftRows(D) ==
    [s \in Slots |->
        IF <<s[1], s[2], Index(s[1])>> \in D
        THEN Row("LABEL_PRINTED", Index(s[1]), NewId)
        ELSE NoRow]

LabelsWrite(t) ==
    /\ pc[t] = "rows" /\ mem[t].op = "labels"
    /\ RowsFree(t, Rows)
    /\ ~(1..MaxId \subseteq IdsInUse)
    /\ LabelsCurrent(t)
    /\ pallet' = DraftRows(mem[t].drafts)
    /\ labels' = {NewId}
    /\ contStatus' = "LABELS_GENERATED"
    /\ Finish(t)
    /\ UNCHANGED <<dest, reports>>

-----------------------------------------------------------------------------
\* Reports

\* whether the report may set the status is decided from this read
ReportRead(t) ==
    /\ Begin(t, "report", "work", [Idle EXCEPT !.mark = Editable])
    /\ UNCHANGED <<inventory, files, locks>>

\* Mutant: no advisory lock.
ActivateUnlocked(t) ==
    /\ pc[t] = "work" /\ mem[t].op = "report"
    /\ mem' = [mem EXCEPT ![t].previous = reports]
    /\ Goto(t, "fileWrite")
    /\ UNCHANGED <<inventory, files, locks>>

\* activate: the advisory lock, then the current files to supersede
ActivateReport(t) ==
    /\ pc[t] = "work" /\ mem[t].op = "report"
    /\ fileOwner = Nobody
    /\ fileOwner' = t
    /\ mem' = [mem EXCEPT ![t].previous = reports]
    /\ Goto(t, "fileWrite")
    /\ UNCHANGED <<inventory, files, contOwner, rowOwner>>

\* the file's foreign key, and the update, wait for the container
ReportWrite(t) ==
    /\ pc[t] = "fileWrite"
    /\ ContainerFree(t)
    /\ reports' = (reports \ mem[t].previous) \cup {t}
    /\ contStatus' = IF mem[t].mark THEN "REPORT_GENERATED" ELSE contStatus
    /\ Finish(t)
    /\ UNCHANGED <<dest, pallet, labels>>

-----------------------------------------------------------------------------
\* Completion of unloading

\* corrections: PATCH with the status UNLOADED
OfficeComplete(t) ==
    /\ contStatus = "UNLOADED" \/ EditableForStatus
    /\ Begin(t, "office", "commit", [Idle EXCEPT !.status = contStatus])
    /\ UNCHANGED <<inventory, files, locks>>

\* unloading-wage: the statuses of the source containers are read without a lock
WageComplete(t) ==
    /\ Begin(t, "wage", "commit", [Idle EXCEPT !.status = contStatus])
    /\ UNCHANGED <<inventory, files, locks>>

\* synchronizeDestination: the numbers that any row of the destination has
OccupiedNos(d) == {s[2] : s \in RowsOf(d)}

LowestOf(S, k) == {n \in S : Cardinality({m \in S : m < n}) < k}

Surplus(d) ==
    {s \in ActiveOf(d) :
        Cardinality({u \in ActiveOf(d) : u[2] < s[2]}) >= dest[d].final}

\* Mutant: cancelled pallets count for the shortage.
ShortageOfRows(d) ==
    IF dest[d].final > Cardinality(RowsOf(d))
    THEN dest[d].final - Cardinality(RowsOf(d)) ELSE 0

Shortage(d) ==
    IF dest[d].final > Cardinality(ActiveOf(d))
    THEN dest[d].final - Cardinality(ActiveOf(d)) ELSE 0

\* nextPalletNos: free numbers up to the expected count, then above the highest.
\* Its loop only stops at exactly count numbers, so with none wanted and number 1
\* free it would take every free one.
NextPalletNos(occupied, expected, count) ==
    LET free == (1..expected) \ occupied
        used == occupied \cup free
        top  == CHOOSE n \in used \cup {0} : \A m \in used : m <= n
    IN  IF count = 0 THEN (IF 1 \in free THEN free ELSE {})
        ELSE IF Cardinality(free) >= count THEN LowestOf(free, count)
        ELSE free \cup (top + 1 .. top + count - Cardinality(free))

Missing(d) == {d} \X NextPalletNos(OccupiedNos(d), dest[d].final, Shortage(d))

\* assertContainerCanSynchronize, the check of the surplus, and the unique
\* constraint on the ids of the pallets to create
SyncAllowed(t) ==
    LET new == UNION {Missing(d) : d \in Here}
    IN  /\ EffectiveStatus \notin {"LOADING_IN_PROGRESS", "LOADED"}
        /\ \A d \in Here : \A s \in Surplus(d) : pallet[s].status \in Reusable
        /\ \A s \in new : PalletId(s[1], s[2], Index(s[1])) \notin UsedIds

SyncWrite(t) ==
    LET new     == UNION {Missing(d) : d \in Here}
        surplus == UNION {Surplus(d) : d \in Here}
    IN  /\ pc[t] = "rows" /\ mem[t].op \in {"office", "wage"}
        /\ RowsFree(t, Rows)
        /\ SyncAllowed(t)
        /\ new \subseteq Slots
        /\ pallet' = [s \in Slots |->
               IF s \in new
               THEN Row("PLANNED", Index(s[1]), 0)
               ELSE IF s \in surplus THEN [pallet[s] EXCEPT !.status = "CANCELLED"]
               ELSE pallet[s]]
        /\ contStatus' = IF mem[t].status = "UNLOADED" THEN contStatus ELSE "UNLOADED"
        /\ Finish(t)
        /\ UNCHANGED <<dest, files>>

-----------------------------------------------------------------------------
\* Corrections

FinalOf(manual, calc) == IF manual = Null THEN calc ELSE manual

\* A destination is read, and what to write computed.  Only what differs from
\* the values read is written.
EditRead(t, d, edit) ==
    LET c   == IF edit.calc = Keep THEN dest[d].calc ELSE edit.calc
        m   == IF edit.manual = Keep THEN dest[d].manual ELSE edit.manual
        f   == FinalOf(m, c)
        Changed(old, new) == IF old = new THEN Keep ELSE new
    IN  /\ d \in Here
        /\ Editable
        /\ Begin(t, "edit", "edit",
                 [Idle EXCEPT !.dest = d, !.calc = Changed(dest[d].calc, c),
                              !.manual = Changed(dest[d].manual, m),
                              !.final = Changed(dest[d].final, f)])
        /\ UNCHANGED <<inventory, files, locks>>

\* Mutant: the status is not checked again.
EditAllowedStale(t) == mem[t].dest \in Here

EditAllowed(t) == mem[t].dest \in Here /\ Editable

EditWrite(t) ==
    LET New(old, new) == IF new = Keep THEN old ELSE new
        d == mem[t].dest
    IN  /\ pc[t] = "edit"
        /\ ContainerFree(t)
        /\ EditAllowed(t)
        /\ dest' = [dest EXCEPT ![d].calc = New(@, mem[t].calc),
                                ![d].manual = New(@, mem[t].manual),
                                ![d].final = New(@, mem[t].final)]
        /\ contStatus' = "CORRECTED"
        /\ Finish(t)
        /\ UNCHANGED <<pallet, files>>

CreateDestination(d, calc, manual) ==
    /\ "create" \in Ops
    /\ dest[d].state = "absent"
    /\ contOwner = Nobody /\ Editable
    /\ dest' = [dest EXCEPT ![d] = [state |-> "here", calc |-> calc, manual |-> manual,
                                    final |-> FinalOf(manual, calc)]]
    /\ contStatus' = "CORRECTED"
    /\ UNCHANGED <<pallet, files, locks, pc, mem>>

\* the container's lock is taken, and its pallets looked at without theirs
DeleteLock(t, d) ==
    /\ d \in Here
    /\ contOwner = Nobody /\ Editable
    /\ contOwner' = t
    /\ Begin(t, "delete", "rows", [Idle EXCEPT !.dest = d])
    /\ UNCHANGED <<inventory, files, rowOwner, fileOwner>>

\* deleteMany waits for the pallets' locks and deletes them whatever they have
\* become; an inventory adjustment's foreign key refuses.
DeleteWrite(t) ==
    LET d == mem[t].dest
    IN  /\ pc[t] = "rows" /\ mem[t].op = "delete"
        /\ RowsFree(t, RowsOf(d))
        /\ \A s \in RowsOf(d) : pallet[s].status # "ADJUSTED_OUT"
        /\ pallet' = [s \in Slots |-> IF s[1] = d THEN NoRow ELSE pallet[s]]
        /\ dest' = [dest EXCEPT ![d].state = "deleted"]
        /\ contStatus' = "CORRECTED"
        /\ Finish(t)
        /\ UNCHANGED files

\* another field of the container, and a status set by hand
EditFields ==
    /\ "fields" \in Ops
    /\ contOwner = Nobody /\ Editable
    /\ contStatus' = "CORRECTED"
    /\ UNCHANGED <<dest, pallet, files, locks, pc, mem>>

SetStatus(status) ==
    /\ "setStatus" \in Ops
    /\ contOwner = Nobody /\ EditableForStatus
    /\ contStatus' = status
    /\ UNCHANGED <<dest, pallet, files, locks, pc, mem>>

-----------------------------------------------------------------------------
\* Load jobs and depletions

\* Mutant: the scan's SELECT locks nothing.
LockPalletPlain(t, op, step, s) ==
    /\ s \in Rows
    /\ Begin(t, op, step, [Idle EXCEPT !.slot = s, !.dest = s[1]])
    /\ UNCHANGED <<inventory, files, locks>>

LockPallet(t, op, step, s) ==
    /\ s \in Rows
    /\ rowOwner[s] = Nobody
    /\ rowOwner' = [rowOwner EXCEPT ![s] = t]
    /\ Begin(t, op, step, [Idle EXCEPT !.slot = s, !.dest = s[1]])
    /\ UNCHANGED <<inventory, files, contOwner, fileOwner>>

\* the row is locked, read again, accepted and written
ScanPallet(t, s) ==
    /\ pallet[s].status \in Reusable
    /\ LockPallet(t, "scan", "readStatus", s)

ReversePallet(t, s) ==
    /\ pallet[s].status = "LOADED"
    /\ LockPallet(t, "reverse", "readStatus", s)

\* Mutant: a reversal leaves the pallet LOADING.
NewStatusLoading(t) == IF mem[t].op = "scan" THEN "LOADED" ELSE "LOADING"

NewStatus(t) == IF mem[t].op = "scan" THEN "LOADED" ELSE "LABEL_PRINTED"

ReadStatus(t) ==
    /\ pc[t] = "readStatus"
    /\ mem' = [mem EXCEPT ![t].status = contStatus]
    /\ Goto(t, "count")
    /\ UNCHANGED <<inventory, files, locks>>

CountPallets(t) ==
    LET s == mem[t].slot
        loaded == (Loaded \ {s}) \cup (IF mem[t].op = "scan" THEN {s} ELSE {})
    IN  /\ pc[t] = "count"
        /\ mem' = [mem EXCEPT ![t].active = Cardinality(Active),
                              ![t].loaded = Cardinality(loaded)]
        /\ Goto(t, "scanCommit")
        /\ UNCHANGED <<inventory, files, locks>>

\* the container is written, and its lock waited for, only for a new status
ScanCommit(t) ==
    LET next == StatusFromCounts(mem[t].active, mem[t].loaded, mem[t].status)
    IN  /\ pc[t] = "scanCommit"
        /\ \/ next = mem[t].status /\ UNCHANGED contStatus
           \/ next # mem[t].status /\ ContainerFree(t) /\ contStatus' = next
        /\ pallet' = [pallet EXCEPT ![mem[t].slot].status = NewStatus(t)]
        /\ Finish(t)
        /\ UNCHANGED <<dest, files>>

\* a load job with lines of this container starts
StartRead(t) ==
    /\ contStatus \in {"UNLOADED", "LABELS_GENERATED"}
    /\ Begin(t, "start", "startWrite", Idle)
    /\ UNCHANGED <<inventory, files, locks>>

StartWrite(t) ==
    /\ pc[t] = "startWrite"
    /\ ContainerFree(t)
    /\ contStatus' = "LOADING_IN_PROGRESS"
    /\ Finish(t)
    /\ UNCHANGED <<dest, pallet, files>>

DepletePallet(t, s) ==
    /\ pallet[s].status \in Reusable
    /\ LockPallet(t, "deplete", "depleteWrite", s)

\* the adjustment's foreign key waits for the container
DepleteWrite(t) ==
    /\ pc[t] = "depleteWrite"
    /\ ContainerFree(t)
    /\ pallet' = [pallet EXCEPT ![mem[t].slot].status = "ADJUSTED_OUT"]
    /\ Finish(t)
    /\ UNCHANGED <<contStatus, dest, files>>

-----------------------------------------------------------------------------
\* the container as the parser leaves it
Init ==
    /\ contStatus = "PARSED"
    /\ \E calc \in [Dests -> Counts] :
           dest = [d \in Dests |->
               [state |-> IF d \in Parsed THEN "here" ELSE "absent",
                calc |-> IF d \in Parsed THEN calc[d] ELSE 0, manual |-> Null,
                final |-> IF d \in Parsed THEN calc[d] ELSE 0]]
    /\ pallet = [s \in Slots |-> NoRow]
    /\ labels = {} /\ reports = {}
    /\ contOwner = Nobody /\ fileOwner = Nobody
    /\ rowOwner = [s \in Slots |-> Nobody]
    /\ pc = [t \in Tx |-> "idle"]
    /\ mem = [t \in Tx |-> Idle]

Next ==
    \/ \E t \in Tx :
          \/ LabelsRead(t) \/ LockContainer(t) \/ LabelsWrite(t)
          \/ ReportRead(t) \/ ActivateReport(t) \/ ReportWrite(t)
          \/ OfficeComplete(t) \/ WageComplete(t) \/ SyncWrite(t)
          \/ EditWrite(t) \/ DeleteWrite(t)
          \/ ReadStatus(t) \/ CountPallets(t) \/ ScanCommit(t)
          \/ StartRead(t) \/ StartWrite(t) \/ DepleteWrite(t) \/ Abort(t)
          \/ \E d \in Dests :
                \/ DeleteLock(t, d)
                \/ \E edit \in Edits : EditRead(t, d, edit)
          \/ \E s \in Slots : ScanPallet(t, s) \/ ReversePallet(t, s) \/ DepletePallet(t, s)
    \/ \E d \in Dests, calc \in Counts, manual \in Manual : CreateDestination(d, calc, manual)
    \/ EditFields
    \/ \E status \in SetTo : SetStatus(status)

Spec == Init /\ [][Next]_vars

-----------------------------------------------------------------------------
\* Properties

\* A pallet that is loaded stays the same loaded pallet until its scan is
\* reversed, whoever regenerates labels, synchronises or corrects meanwhile, and
\* a pallet that was adjusted out stays adjusted out; only a correction that
\* deletes the destination can take a loaded pallet away (see the next property).
\* Nor does a completion that was decided earlier make a container UNLOADED again
\* that is being loaded.
HistoryStays ==
    [][/\ \A s \in Slots :
            /\ pallet[s].status = "LOADED" =>
                  \/ pallet'[s] = pallet[s]
                  \/ pallet'[s] = [pallet[s] EXCEPT !.status = "LABEL_PRINTED"]
                  \/ dest'[s[1]].state = "deleted"
            /\ pallet[s].status = "ADJUSTED_OUT" => pallet'[s] = pallet[s]
       /\ contStatus \in {"LOADING_IN_PROGRESS", "LOADED"} =>
             contStatus' # "UNLOADED"]_vars

\* "This container has entered loading or has been loaded, so destination
\* corrections are locked": a correction never deletes a loaded pallet.
CorrectionsSpareLoaded ==
    [][\A s \in Loaded : dest'[s[1]].state # "deleted"]_vars

\* When a container becomes UNLOADED, or a new label PDF becomes current, every
\* destination has exactly its final count of active pallets, whatever was
\* corrected, cancelled, depleted or loaded since the request read the container.
CommittedCountsMatch ==
    [][(contStatus # "UNLOADED" /\ contStatus' = "UNLOADED") \/ ~(labels' \subseteq labels) =>
          \A d \in Dests : dest'[d].state = "here" =>
              Cardinality(ActiveOf(d)') = dest'[d].final]_vars

\* Every pallet with a printed label is on the label PDF that is current, and a
\* container has at most one current file of each type.
PrintedOnCurrentFile ==
    /\ \A s \in Rows : pallet[s].printed # 0 => pallet[s].printed \in labels
    /\ Cardinality(labels) <= 1 /\ Cardinality(reports) <= 1

\* final_pallets equals manual_pallets when present, otherwise calculated_pallets.
FinalFollows ==
    \A d \in Here : dest[d].final = FinalOf(dest[d].manual, dest[d].calc)
=============================================================================
