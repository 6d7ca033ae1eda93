---------------------------- MODULE LoadJobsProofs ----------------------------
(***************************************************************************)
(* What holds of LoadJobs for every number of transactions, load jobs,     *)
(* pallets, plans and endpoints.                                           *)
(***************************************************************************)
EXTENDS LoadJobs, FiniteSetTheorems, WellFoundedInduction, TLAPS

\* TypeOK in the two parts that actions disturb separately.
TablesType ==
    /\ jobStatus \in [Jobs -> JobStates \cup {"NONE", "DELETED"}]
    /\ jobPlan \in [Jobs -> Plans \cup {Same}]
    /\ jobDock \in [Jobs -> BOOLEAN]
    /\ palletStatus \in [Pallets -> PalletStates]
    /\ palletJob \in [Pallets -> Jobs \cup {NoJob}]
    /\ contStatus \in [Containers -> ContStates]

Requests ==
    {r \in [op : Endpoints \cup {"none"}, job : Jobs \cup {NoJob},
            pals : SUBSET Pallets, lines : Plans \cup {Same},
            status : JobStates, dock : {"keep", "set", "clear"}] :
        r.op \notin {"none", "deplete"} => r.job \in Jobs}
JobViews == [status : JobStates \cup {"NONE"}, plan : Plans \cup {Same},
             dock : BOOLEAN]
ContViews == [id : Containers \cup {Nobody}, status : ContStates \cup {"none"},
              active : Nat, loaded : Nat]

LocalType ==
    /\ owner \in [Rows -> Tx \cup {Nobody}]
    /\ pc \in [Tx -> Steps]
    /\ req \in [Tx -> Requests]
    /\ seen \in [Tx -> JobViews]
    /\ counts \in [Tx -> ContViews]
    /\ todo \in [Tx -> SUBSET Containers]

\* the endpoints that write one pallet
PalletOps == {"scan", "override", "reverse"}

\* The statement that reads the container has run before its counts are used.
Counted ==
    \A t \in Tx : pc[t] \in {"countActive", "countLoaded", "commitScan"}
                     => counts[t].status \in ContStates

\* From the second read of its pallets on, a transaction owns their rows.
Locked ==
    \A t \in Tx : pc[t] \in WroteSteps \cup {"decide"}
        => \A p \in req[t].pals : owner[p] = t \/ palletStatus[p] = "GONE"

\* A scan, override or reversal is about one pallet.
OnePalletEach ==
    \A t \in Tx :
        /\ pc[t] \in WroteSteps => req[t].op \in PalletOps
        /\ pc[t] \in {"lock", "decide"} => req[t].op \in PalletOps \cup {"deplete"}
        /\ (pc[t] # "idle" /\ req[t].op \in PalletOps)
              => \E p \in Pallets : req[t].pals = {p}

\* What a transaction decided from its second read is still so when it commits.
Decided(t, p) ==
    /\ palletStatus[p] \notin Removed \cup Missing
    /\ req[t].op = "scan" => palletStatus[p] # "LOADED"
    /\ req[t].op = "override" /\ palletStatus[p] = "LOADED" => palletJob[p] # req[t].job
    /\ req[t].op = "reverse" => palletStatus[p] = "LOADED" /\ palletJob[p] = req[t].job

StillDecided ==
    \A t \in Tx : pc[t] \in WroteSteps => \A p \in req[t].pals : Decided(t, p)

\* A load job has a plan as long as it exists.
PlansKnown == \A j \in Jobs : Exists(j) => jobPlan[j] \in Plans

\* A load job that is being started is locked, and so not deleted meanwhile.
StartHolds ==
    \A t \in Tx : pc[t] \in {"startRead", "startWrite"}
        => req[t].job \in Jobs /\ Exists(req[t].job) /\ owner[req[t].job] = t

IInv == /\ TablesType /\ LocalType
        /\ Counted /\ Locked /\ OnePalletEach /\ StillDecided
        /\ OnlyLoadedInJob /\ PlansKnown /\ StartHolds

-----------------------------------------------------------------------------
\* The end and the beginning of a transaction

LEMMA FinishLocal ==
    ASSUME LocalType, NEW t \in Tx, Finish(t)
    PROVE  LocalType'
<1>1. /\ NoRequest \in Requests /\ NothingSeen \in JobViews
      /\ NothingCounted \in ContViews
  BY DEF NoRequest, NothingSeen, NothingCounted, Requests, JobViews, ContViews,
         Endpoints, JobStates
<1>2. "idle" \in Steps
  BY DEF Steps
<1> QED
  BY <1>1, <1>2 DEF LocalType, Finish

LEMMA BeginLocal ==
    ASSUME LocalType, NEW t \in Tx, NEW first \in Steps, NEW r \in Requests,
           NEW s \in JobViews, Begin(t, first, r, s)
    PROVE  LocalType' /\ (TablesType => TablesType')
  BY DEF LocalType, TablesType, Begin, tables

LEMMA GotoLocal ==
    ASSUME LocalType, NEW t \in Tx, NEW step \in Steps, Goto(t, step),
           UNCHANGED <<req, seen, todo>>,
           owner' \in [Rows -> Tx \cup {Nobody}], counts' \in [Tx -> ContViews]
    PROVE  LocalType'
  BY DEF LocalType, Goto

\* A transaction that ends keeps the facts about the others.
LEMMA FinishKeeps ==
    ASSUME LocalType, Counted, Locked, OnePalletEach, NEW t \in Tx, Finish(t),
           \A u \in Tx : pc[u] \in WroteSteps \cup {"decide"} =>
              \A p \in req[u].pals : palletStatus[p] = "GONE" => palletStatus'[p] = "GONE"
    PROVE  Counted' /\ Locked' /\ OnePalletEach'
<1>1. \A u \in Tx : u # t => /\ pc'[u] = pc[u] /\ req'[u] = req[u]
                            /\ counts'[u] = counts[u]
  BY DEF Finish, LocalType
<1>2. pc'[t] = "idle"
  BY DEF Finish, LocalType
<1>3. Counted'
  BY <1>1, <1>2 DEF Counted
<1>4. Locked'
  <2> SUFFICES ASSUME NEW u \in Tx, pc'[u] \in WroteSteps \cup {"decide"},
                      NEW p \in req'[u].pals
               PROVE  owner'[p] = u \/ palletStatus'[p] = "GONE"
    BY DEF Locked
  <2>1. u # t
    BY <1>2 DEF WroteSteps
  <2>2. p \in req[u].pals /\ pc[u] \in WroteSteps \cup {"decide"}
    BY <1>1, <2>1
  <2>3. owner[p] = u \/ palletStatus[p] = "GONE"
    BY <2>2 DEF Locked
  <2>4. p \in Rows
    BY <2>2 DEF LocalType, Requests, Rows
  <2> QED
    BY <2>1, <2>2, <2>3, <2>4 DEF Finish
<1>5. OnePalletEach'
  BY <1>1, <1>2 DEF OnePalletEach, WroteSteps
<1> QED
  BY <1>3, <1>4, <1>5

\* A pallet that a transaction has written is owned by it, so a step that writes
\* only rows of its own, or rows nobody owns, leaves the decision standing.
LEMMA WrittenIsOwned ==
    ASSUME Locked, StillDecided, NEW u \in Tx, pc[u] \in WroteSteps,
           NEW p \in req[u].pals
    PROVE  owner[p] = u
  BY DEF Locked, StillDecided, Decided, Missing

LEMMA FinishKeepsDecided ==
    ASSUME LocalType, StillDecided, NEW t \in Tx, Finish(t),
           \A u \in Tx : u # t /\ pc[u] \in WroteSteps =>
              \A p \in req[u].pals : /\ palletStatus'[p] = palletStatus[p]
                                    /\ palletJob'[p] = palletJob[p]
    PROVE  StillDecided'
<1>1. pc'[t] = "idle" /\ \A u \in Tx : u # t => pc'[u] = pc[u] /\ req'[u] = req[u]
  BY DEF Finish, LocalType
<1> QED
  BY <1>1 DEF StillDecided, Decided, WroteSteps

\* A transaction that ends and writes no pallet preserves the invariant.
LEMMA FinishNoPallet ==
    ASSUME IInv, TablesType', NEW t \in Tx, Finish(t),
           UNCHANGED <<palletStatus, palletJob>>, PlansKnown', StartHolds'
    PROVE  IInv'
<1>1. LocalType'
  BY FinishLocal DEF IInv
<1>2. Counted' /\ Locked' /\ OnePalletEach'
  BY FinishKeeps DEF IInv
<1>3. StillDecided'
  BY FinishKeepsDecided DEF IInv
<1> QED
  BY <1>1, <1>2, <1>3 DEF IInv, OnlyLoadedInJob

\* The jobs that others are starting stay locked and exist when t ends.
LEMMA FinishKeepsStarts ==
    ASSUME LocalType, StartHolds, NEW t \in Tx, Finish(t),
           \A j \in Jobs : Exists(j) /\ owner[j] \notin {t, Nobody} => Exists(j)'
    PROVE  StartHolds'
<1>1. pc'[t] = "idle" /\ \A u \in Tx : u # t => pc'[u] = pc[u] /\ req'[u] = req[u]
  BY DEF Finish, LocalType
<1>2. \A r \in Rows : owner[r] # t => owner'[r] = owner[r]
  BY DEF Finish
<1> QED
  BY <1>1, <1>2, LoadJobsAssumption DEF StartHolds, Rows

LEMMA BeginKeeps ==
    ASSUME IInv, NEW t \in Tx, NEW first \in {"lock", "checkPlan", "writeJob"},
           NEW r \in Requests, NEW s \in JobViews, Begin(t, first, r, s),
           r.op \in PalletOps => \E p \in Pallets : r.pals = {p},
           first = "lock" => r.op \in PalletOps \cup {"deplete"}
    PROVE  IInv'
<1>1. TablesType' /\ LocalType'
  BY BeginLocal DEF IInv, Steps
<1>2. /\ pc'[t] = first /\ req'[t] = r
      /\ \A u \in Tx : u # t => pc'[u] = pc[u] /\ req'[u] = req[u]
      /\ UNCHANGED <<tables, owner, counts>>
  BY DEF Begin, IInv, LocalType
<1>3. first \notin WroteSteps \cup {"decide", "countActive", "countLoaded", "commitScan"}
  BY DEF WroteSteps
<1>4. Counted' /\ Locked' /\ StillDecided'
  BY <1>2, <1>3 DEF IInv, Counted, Locked, StillDecided, Decided, tables
<1>5. OnePalletEach'
  BY <1>2, <1>3 DEF IInv, OnePalletEach
<1>6. PlansKnown' /\ StartHolds'
  BY <1>2 DEF IInv, PlansKnown, StartHolds, Exists, tables
<1> QED
  BY <1>1, <1>2, <1>4, <1>5, <1>6 DEF IInv, OnlyLoadedInJob, tables

-----------------------------------------------------------------------------
\* Each kind of step preserves the invariant

LEMMA RequestKeeps ==
    ASSUME IInv, NEW t \in Tx, Request(t)
    PROVE  IInv'
<1>1. ASSUME NEW j \in Jobs, NEW lines \in Plans, Create(t, j, lines)
      PROVE  IInv'
  <2>1. TablesType' /\ LocalType'
    BY <1>1, LoadJobsAssumption DEF IInv, Create, TablesType, LocalType, JobStates, local
  <2>2. PlansKnown' /\ StartHolds'
    BY <1>1 DEF IInv, Create, PlansKnown, StartHolds, Exists, TablesType, LocalType,
                JobStates, local
  <2> QED
    BY <1>1, <2>1, <2>2 DEF IInv, Create, Counted, Locked, OnePalletEach, StillDecided,
                            Decided, OnlyLoadedInJob, local
<1>2. \A j \in Jobs : Exists(j) => JobSeen(j) \in JobViews
  BY DEF IInv, TablesType, Exists, JobSeen, JobViews
<1>3. NothingSeen \in JobViews
  BY DEF NothingSeen, JobViews
<1>4. ASSUME NEW j \in Jobs, NEW lines \in Plans \cup {Same}, NEW status \in JobStates,
             NEW dock \in DockEdits, UpdateRead(t, j, lines, status, dock)
      PROVE  IInv'
  <2> DEFINE r == [NoRequest EXCEPT !.op = "update", !.job = j, !.lines = lines,
                                    !.status = status, !.dock = dock]
  <2>1. r \in Requests /\ r.op \notin PalletOps
    BY LoadJobsAssumption DEF NoRequest, Requests, Endpoints, PalletOps, JobStates
  <2>2. JobSeen(j) \in JobViews
    BY <1>2, <1>4 DEF UpdateRead, Exists, JobStates
  <2>3. Begin(t, "checkPlan", r, JobSeen(j))
    BY <1>4 DEF UpdateRead
  <2> QED
    BY <2>1, <2>2, <2>3, BeginKeeps
<1>5. ASSUME NEW j \in Jobs, NEW dock \in DockEdits, CloseRead(t, j, dock)
      PROVE  IInv'
  <2> DEFINE r == [NoRequest EXCEPT !.op = "close", !.job = j, !.dock = dock]
  <2>1. r \in Requests /\ r.op \notin PalletOps
    BY LoadJobsAssumption DEF NoRequest, Requests, Endpoints, PalletOps, JobStates
  <2>2. JobSeen(j) \in JobViews
    BY <1>2, <1>5 DEF CloseRead, Exists, JobStates
  <2>3. Begin(t, "writeJob", r, JobSeen(j))
    BY <1>5 DEF CloseRead
  <2> QED
    BY <2>1, <2>2, <2>3, BeginKeeps
<1>6. ASSUME NEW j \in Jobs, DeleteRead(t, j)
      PROVE  IInv'
  <2> DEFINE r == [NoRequest EXCEPT !.op = "delete", !.job = j]
  <2>1. r \in Requests /\ r.op \notin PalletOps
    BY DEF NoRequest, Requests, Endpoints, PalletOps, JobStates
  <2>2. JobSeen(j) \in JobViews
    BY <1>2, <1>6 DEF DeleteRead, Exists, JobStates
  <2>3. Begin(t, "writeJob", r, JobSeen(j))
    BY <1>6 DEF DeleteRead
  <2> QED
    BY <2>1, <2>2, <2>3, BeginKeeps
<1>7. ASSUME NEW j \in Jobs, NEW p \in Pallets, NEW op \in {"scan", "override"},
             ScanRead(t, j, p, op)
      PROVE  IInv'
  <2> DEFINE r == [NoRequest EXCEPT !.op = op, !.job = j, !.pals = {p}]
  <2>1. r \in Requests /\ r.pals = {p} /\ r.op \in PalletOps
    BY DEF NoRequest, Requests, Endpoints, JobStates, PalletOps
  <2>2. JobSeen(j) \in JobViews
    BY <1>2, <1>7 DEF ScanRead, Exists, JobStates
  <2>3. Begin(t, "lock", r, JobSeen(j))
    BY <1>7 DEF ScanRead
  <2> QED
    BY <2>1, <2>2, <2>3, BeginKeeps
<1>8. ASSUME NEW j \in Jobs, NEW p \in Pallets, ReverseRead(t, j, p)
      PROVE  IInv'
  <2> DEFINE r == [NoRequest EXCEPT !.op = "reverse", !.job = j, !.pals = {p}]
  <2>1. r \in Requests /\ r.pals = {p} /\ r.op \in PalletOps
    BY DEF NoRequest, Requests, Endpoints, JobStates, PalletOps
  <2>2. JobSeen(j) \in JobViews
    BY <1>2, <1>8 DEF ReverseRead, Exists, JobStates
  <2>3. Begin(t, "lock", r, JobSeen(j))
    BY <1>8 DEF ReverseRead
  <2> QED
    BY <2>1, <2>2, <2>3, BeginKeeps
<1>9. ASSUME NEW d \in Dests, NEW ps \in SUBSET Pallets, DepleteSelect(t, d, ps)
      PROVE  IInv'
  <2> DEFINE r == [NoRequest EXCEPT !.op = "deplete", !.pals = ps]
  <2>1. r \in Requests /\ r.op = "deplete" /\ r.op \notin PalletOps
    BY DEF NoRequest, Requests, Endpoints, PalletOps, JobStates
  <2>2. Begin(t, "lock", r, NothingSeen)
    BY <1>9 DEF DepleteSelect
  <2> QED
    BY <1>3, <2>1, <2>2, BeginKeeps
<1> QED
  BY <1>1, <1>4, <1>5, <1>6, <1>7, <1>8, <1>9 DEF Request

\* Steps between the first and the last: the tables stay as they are.
LEMMA LockKeeps ==
    ASSUME IInv, NEW t \in Tx, NEW p \in Pallets, LockPalletRow(t, p)
    PROVE  IInv'
<1>1. UNCHANGED <<palletStatus, palletJob, counts, req, seen, todo>> /\ TablesType'
  BY DEF LockPalletRow, tables, IInv, TablesType
<1>2. \/ Goto(t, "decide") /\ AllLocked(t, req[t].pals \ {p})
      \/ UNCHANGED pc
  BY DEF LockPalletRow
<1>3. p \in Rows /\ owner' \in [Rows -> Tx \cup {Nobody}]
  BY DEF LockPalletRow, IInv, LocalType, Rows
<1>4. \A r \in Rows : owner[r] # Nobody => owner'[r] = owner[r]
  BY DEF LockPalletRow, IInv, LocalType
<1>5. owner'[p] = t \/ palletStatus[p] = "GONE"
  BY <1>3 DEF LockPalletRow, IInv, LocalType
<1>6. LocalType'
  BY <1>1, <1>2, <1>3 DEF IInv, LocalType, Goto, Steps
<1>7. \A u \in Tx : u # t => pc'[u] = pc[u]
  BY <1>2 DEF Goto, IInv, LocalType
<1>8. pc[t] = "lock" /\ pc'[t] \in {"lock", "decide"}
  BY <1>2 DEF LockPalletRow, Goto, IInv, LocalType
<1>9. Counted' /\ StillDecided' /\ OnePalletEach' /\ OnlyLoadedInJob'
  BY <1>1, <1>7, <1>8
     DEF IInv, Counted, StillDecided, Decided, OnePalletEach, OnlyLoadedInJob, WroteSteps
<1>10. Locked'
  <2> SUFFICES ASSUME NEW u \in Tx, pc'[u] \in WroteSteps \cup {"decide"},
                      NEW q \in req[u].pals
               PROVE  owner'[q] = u \/ palletStatus[q] = "GONE"
    BY <1>1 DEF Locked
  <2>1. q \in Rows /\ u # Nobody
    BY LoadJobsAssumption DEF IInv, LocalType, Requests, Rows
  <2>2. CASE u # t
    <3>1. owner[q] = u \/ palletStatus[q] = "GONE"
      BY <1>7, <2>2 DEF IInv, Locked
    <3> QED
      BY <3>1, <2>1, <1>4
  <2>3. CASE u = t
    <3>1. AllLocked(t, req[t].pals \ {p})
      BY <1>2, <1>8, <2>3 DEF WroteSteps
    <3>2. q = p \/ owner[q] = t \/ palletStatus[q] = "GONE"
      BY <3>1, <2>3 DEF AllLocked
    <3> QED
      BY <3>2, <1>4, <1>5, <2>1, <2>3
  <2> QED
    BY <2>2, <2>3
<1>11. PlansKnown' /\ StartHolds'
  <2>1. UNCHANGED tables
    BY DEF LockPalletRow
  <2>2. PlansKnown' /\ \A j \in Jobs : Exists(j)' = Exists(j)
    BY <2>1 DEF IInv, PlansKnown, Exists, tables
  <2> QED
    BY <1>1, <1>4, <1>7, <1>8, <2>2, LoadJobsAssumption DEF IInv, StartHolds, Rows
<1> QED
  BY <1>1, <1>6, <1>9, <1>10, <1>11 DEF IInv

LEMMA WrittenKeeps ==
    ASSUME IInv, NEW t \in Tx, PalletWritten(t)
    PROVE  IInv'
<1>1. UNCHANGED <<tables, owner, req, seen, counts, todo>>
  BY DEF PalletWritten
<1>2. pc[t] = "decide" /\ pc' = [pc EXCEPT ![t] = "readContainer"]
  BY DEF PalletWritten, Goto
<1>3. TablesType' /\ LocalType'
  BY <1>1, <1>2 DEF IInv, TablesType, LocalType, tables, Steps
<1>4. Counted' /\ Locked' /\ OnlyLoadedInJob'
  BY <1>1, <1>2 DEF IInv, Counted, Locked, OnlyLoadedInJob, tables, WroteSteps, LocalType
<1>5. req[t].op \in PalletOps
  BY <1>2 DEF IInv, OnePalletEach, PalletWritten
<1>6. OnePalletEach'
  BY <1>1, <1>2, <1>5 DEF IInv, OnePalletEach, WroteSteps, LocalType
<1>7. PICK q \in Pallets : req[t].pals = {q}
  BY <1>2, <1>5 DEF IInv, OnePalletEach
<1>8. ThePallet(t) = q
  BY <1>7 DEF ThePallet
<1>9. Decided(t, q)
  <2>1. Accepted(t, q)
    BY <1>8 DEF PalletWritten
  <2>2. CASE IsScan(t)
    BY <2>1, <2>2 DEF Accepted, ScanAccepted, IsScan, Decided
  <2>3. CASE ~IsScan(t)
    BY <2>1, <2>3, <1>5
       DEF Accepted, ReverseAccepted, IsScan, Decided, PalletOps, Removed, Missing
  <2> QED
    BY <2>2, <2>3
<1>10. StillDecided'
  <2>1. Decided(t, q)'
    BY <1>1, <1>9 DEF Decided, tables
  <2>2. \A u \in Tx : u # t => pc'[u] = pc[u]
    BY <1>2 DEF IInv, LocalType
  <2> QED
    BY <1>1, <1>7, <2>1, <2>2 DEF IInv, StillDecided, Decided, tables
<1>11. PlansKnown' /\ StartHolds'
  BY <1>1, <1>2 DEF IInv, PlansKnown, StartHolds, Exists, tables, LocalType
<1> QED
  BY <1>3, <1>4, <1>6, <1>10, <1>11 DEF IInv

\* Steps that only move t on, from one step after the pallet's UPDATE to another
\* or between steps before any pallet is read under its lock.
LEMMA MoveKeeps ==
    ASSUME IInv, NEW t \in Tx, NEW step \in Steps, Goto(t, step),
           UNCHANGED <<tables, req>>, LocalType', Counted', StartHolds',
           \A p \in Pallets : owner'[p] = owner[p],
           step \in WroteSteps => pc[t] \in WroteSteps,
           step \notin {"lock", "decide"},
           pc[t] # "idle"
    PROVE  IInv'
<1>1. \A u \in Tx : u # t => pc'[u] = pc[u]
  BY DEF Goto, IInv, LocalType
<1>2. pc'[t] = step
  BY DEF Goto, IInv, LocalType
<1>3. TablesType' /\ OnlyLoadedInJob'
  BY DEF IInv, TablesType, OnlyLoadedInJob, tables
<1>4. Locked'
  BY <1>1, <1>2 DEF IInv, Locked, LocalType, Requests, tables, WroteSteps
<1>5. OnePalletEach'
  BY <1>1, <1>2 DEF IInv, OnePalletEach
<1>6. StillDecided'
  BY <1>1, <1>2 DEF IInv, StillDecided, Decided, tables
<1>7. PlansKnown'
  BY DEF IInv, PlansKnown, Exists, tables
<1> QED
  BY <1>3, <1>4, <1>5, <1>6, <1>7 DEF IInv

\* a move of t away from the steps of a start, with no lock released
LEMMA MoveKeepsStarts ==
    ASSUME IInv, NEW t \in Tx, NEW step \in Steps \ {"startRead", "startWrite"},
           Goto(t, step), UNCHANGED <<tables, req, owner>>
    PROVE  StartHolds'
  BY DEF IInv, StartHolds, Exists, Goto, tables, LocalType

LEMMA CountInNat ==
    ASSUME NEW S \in SUBSET Pallets
    PROVE  Cardinality(S) \in Nat
  BY FS_Subset, FS_CardinalityType, LoadJobsAssumption

LEMMA SyncKeeps ==
    ASSUME IInv, NEW t \in Tx,
           SyncReadContainer(t) \/ SyncCountActive(t) \/ SyncCountLoaded(t)
    PROVE  IInv'
<1>1. pc[t] \in WroteSteps
  BY DEF SyncReadContainer, SyncCountActive, SyncCountLoaded, WroteSteps
<1>2. PICK q \in Pallets : req[t].pals = {q}
  BY <1>1 DEF IInv, OnePalletEach, WroteSteps
<1>3. ThePallet(t) = q
  BY <1>2 DEF ThePallet
<1>4. contStatus[ContOfPallet(q)] \in ContStates
  BY LoadJobsAssumption DEF IInv, TablesType, ContOfPallet
<1>5. CASE SyncReadContainer(t)
  <2>1. counts' \in [Tx -> ContViews] /\ counts'[t].status \in ContStates
        /\ \A u \in Tx : u # t => counts'[u] = counts[u]
    BY <1>3, <1>4, <1>5 DEF SyncReadContainer, IInv, LocalType, ContViews
  <2>2. LocalType'
    BY <1>5, <2>1 DEF SyncReadContainer, IInv, LocalType, Goto, Steps
  <2>3. Counted'
    BY <1>5, <2>1 DEF SyncReadContainer, Goto, IInv, LocalType, Counted
  <2> QED
    BY <1>1, <1>5, <2>2, <2>3, MoveKeeps, MoveKeepsStarts DEF SyncReadContainer, Steps, WroteSteps
<1>6. CASE SyncCountActive(t)
  <2>1. Cardinality(CountedActive(t, ContOfPallet(q))) \in Nat
    BY CountInNat DEF CountedActive, ContainerPallets
  <2>2. counts' \in [Tx -> ContViews] /\ counts'[t].status = counts[t].status
        /\ \A u \in Tx : u # t => counts'[u] = counts[u]
    BY <1>3, <1>6, <2>1 DEF SyncCountActive, IInv, LocalType, ContViews
  <2>3. LocalType'
    BY <1>6, <2>2 DEF SyncCountActive, IInv, LocalType, Goto, Steps
  <2>4. Counted'
    BY <1>6, <2>2 DEF SyncCountActive, Goto, IInv, LocalType, Counted
  <2> QED
    BY <1>1, <1>6, <2>3, <2>4, MoveKeeps, MoveKeepsStarts DEF SyncCountActive, Steps, WroteSteps
<1>7. CASE SyncCountLoaded(t)
  <2>1. Cardinality(CountedLoaded(t, ContOfPallet(q))) \in Nat
    BY CountInNat DEF CountedLoaded, ContainerPallets
  <2>2. counts' \in [Tx -> ContViews] /\ counts'[t].status = counts[t].status
        /\ \A u \in Tx : u # t => counts'[u] = counts[u]
    BY <1>3, <1>7, <2>1 DEF SyncCountLoaded, IInv, LocalType, ContViews
  <2>3. LocalType'
    BY <1>7, <2>2 DEF SyncCountLoaded, IInv, LocalType, Goto, Steps
  <2>4. Counted'
    BY <1>7, <2>2 DEF SyncCountLoaded, Goto, IInv, LocalType, Counted
  <2> QED
    BY <1>1, <1>7, <2>3, <2>4, MoveKeeps, MoveKeepsStarts DEF SyncCountLoaded, Steps, WroteSteps
<1> QED
  BY <1>5, <1>6, <1>7

LEMMA UpdateMovesKeep ==
    ASSUME IInv, NEW t \in Tx,
           \/ UpdateCheckPlan(t) \/ UpdateCheckStatus(t) \/ UpdateStart(t)
           \/ \E c \in Containers : StartVisit(t, c)
           \/ StartWriteContainer(t)
    PROVE  IInv'
<1>1. ASSUME UpdateCheckPlan(t) \/ UpdateCheckStatus(t)
      PROVE  IInv'
  <2>1. PICK step \in {"checkStatus", "writeJob"} : Goto(t, step)
    BY <1>1 DEF UpdateCheckPlan, UpdateCheckStatus
  <2>2. UNCHANGED <<tables, owner, req, seen, counts, todo>> /\ pc[t] # "idle"
    BY <1>1 DEF UpdateCheckPlan, UpdateCheckStatus
  <2>3. LocalType' /\ Counted'
    BY <2>1, <2>2 DEF IInv, LocalType, Counted, Goto, Steps
  <2> QED
    BY <2>1, <2>2, <2>3, MoveKeeps, MoveKeepsStarts DEF Steps, WroteSteps
<1>2. ASSUME UpdateStart(t)
      PROVE  IInv'
  <2>1. Goto(t, "startRead") /\ UNCHANGED <<tables, req, seen, counts>> /\ pc[t] = "writeJob"
    BY <1>2 DEF UpdateStart
  <2>2. req[t].job \in Jobs
    BY <1>2 DEF UpdateStart, IInv, LocalType, Requests
  <2>3. /\ owner' \in [Rows -> Tx \cup {Nobody}]
        /\ \A p \in Pallets : owner'[p] = owner[p]
    BY <1>2, <2>2, LoadJobsAssumption DEF UpdateStart, IInv, LocalType, Rows
  <2>4. todo'[t] \subseteq Containers
    <3>1. \A lines \in Plans : PlanContainers(lines) \subseteq Containers
      <4> SUFFICES ASSUME NEW lines \in Plans, NEW i \in DOMAIN lines
                   PROVE  (IF lines[i].scope \in Containers THEN lines[i].scope
                              ELSE ContOf[lines[i].scope]) \in Containers
        BY DEF PlanContainers
      <4>1. lines \in Seq(PlanLines) /\ lines[i] \in PlanLines
        BY LoadJobsAssumption
      <4>2. lines[i].scope \in Dests \cup Containers
        BY <4>1 DEF PlanLines, Scopes
      <4> QED
        BY <4>2, LoadJobsAssumption
    <3>2. (IF req[t].lines = Same THEN jobPlan[req[t].job] ELSE req[t].lines) \in Plans
      <4>1. Exists(req[t].job)
        BY <1>2 DEF UpdateStart
      <4>2. jobPlan[req[t].job] \in Plans
        BY <2>2, <4>1 DEF IInv, PlansKnown
      <4>3. req[t].lines \in Plans \cup {Same}
        BY DEF IInv, LocalType, Requests
      <4> QED
        BY <4>2, <4>3
    <3>3. todo'[t] = PlanContainers(IF req[t].lines = Same THEN jobPlan[req[t].job]
                                                          ELSE req[t].lines)
      BY <1>2 DEF UpdateStart, IInv, LocalType
    <3> QED
      BY <3>1, <3>2, <3>3
  <2>5. LocalType' /\ Counted'
    BY <1>2, <2>1, <2>3, <2>4 DEF IInv, LocalType, Counted, Goto, Steps, UpdateStart
  <2>6. StartHolds'
    <3>1. owner'[req[t].job] = t /\ Exists(req[t].job)
      BY <1>2, <2>2 DEF UpdateStart, IInv, LocalType, Rows
    <3>2. \A r \in Rows : owner[r] # Nobody => owner'[r] = owner[r]
      BY <1>2 DEF UpdateStart, IInv, LocalType
    <3>3. \A u \in Tx : u # t => pc'[u] = pc[u]
      BY <2>1 DEF Goto, IInv, LocalType
    <3> QED
      BY <2>1, <2>2, <3>1, <3>2, <3>3, LoadJobsAssumption
         DEF IInv, StartHolds, Exists, tables, Rows
  <2> QED
    BY <2>1, <2>3, <2>5, <2>6, MoveKeeps DEF Steps, WroteSteps
<1>3. ASSUME NEW c \in Containers, StartVisit(t, c)
      PROVE  IInv'
  <2>1. PICK step \in {"startRead", "startWrite"} : Goto(t, step)
    <3>1. CASE CanMoveIntoLoading(contStatus[c])
      BY <1>3, <3>1 DEF StartVisit
    <3>2. CASE ~CanMoveIntoLoading(contStatus[c])
      BY <1>3, <3>2 DEF StartVisit, Goto, IInv, LocalType
    <3> QED
      BY <3>1, <3>2
  <2>2. pc[t] = "startRead" /\ UNCHANGED <<tables, owner, req, seen>>
    BY <1>3 DEF StartVisit
  <2>3. counts' \in [Tx -> ContViews] /\ \A u \in Tx : counts'[u].status = counts[u].status
    <3>1. CASE CanMoveIntoLoading(contStatus[c])
      BY <1>3, <3>1 DEF StartVisit, IInv, LocalType, ContViews
    <3>2. CASE ~CanMoveIntoLoading(contStatus[c])
      BY <1>3, <3>2 DEF StartVisit, IInv, LocalType
    <3> QED
      BY <3>1, <3>2
  <2>4. LocalType' /\ Counted'
    BY <1>3, <2>1, <2>2, <2>3 DEF IInv, LocalType, Counted, Goto, Steps, StartVisit
  <2>5. StartHolds'
    BY <2>1, <2>2 DEF IInv, StartHolds, Exists, Goto, tables, LocalType
  <2> QED
    BY <2>1, <2>2, <2>4, <2>5, MoveKeeps DEF Steps, WroteSteps
<1>4. ASSUME StartWriteContainer(t)
      PROVE  IInv'
  <2>1. Goto(t, "startRead") /\ pc[t] = "startWrite" /\ UNCHANGED <<tables, req, seen, counts, todo>>
    BY <1>4 DEF StartWriteContainer
  <2>2. /\ owner' \in [Rows -> Tx \cup {Nobody}]
        /\ \A r \in Rows : r \notin Containers => owner'[r] = owner[r]
    <3>1. counts[t].id \in Containers \cup {Nobody}
      BY DEF IInv, LocalType, ContViews
    <3>2. owner' = [owner EXCEPT ![counts[t].id] = t]
      BY <1>4 DEF StartWriteContainer
    <3>3. Nobody \notin Rows
      BY LoadJobsAssumption DEF Rows
    <3> QED
      BY <3>1, <3>2, <3>3 DEF IInv, LocalType
  <2>3. LocalType' /\ Counted'
    BY <2>1, <2>2 DEF IInv, LocalType, Counted, Goto, Steps
  <2>4. StartHolds'
    BY <2>1, <2>2, LoadJobsAssumption DEF IInv, StartHolds, Exists, Goto, tables, LocalType, Rows
  <2> QED
    BY <2>1, <2>2, <2>3, <2>4, MoveKeeps, LoadJobsAssumption DEF Steps, WroteSteps, Rows
<1> QED
  BY <1>1, <1>2, <1>3, <1>4

-----------------------------------------------------------------------------
\* Steps that end the transaction

LEMMA RefusedKeeps ==
    ASSUME IInv, NEW t \in Tx, Finish(t), UNCHANGED tables
    PROVE  IInv'
<1>1. TablesType' /\ UNCHANGED <<palletStatus, palletJob>> /\ PlansKnown'
  BY DEF IInv, TablesType, PlansKnown, Exists, tables
<1>2. StartHolds'
  BY FinishKeepsStarts DEF IInv, Exists, tables
<1> QED
  BY <1>1, <1>2, FinishNoPallet

LEMMA WriteJobKeeps ==
    ASSUME IInv, NEW t \in Tx, WriteJob(t), Exists(req[t].job),
           req[t].job \in Jobs
    PROVE  /\ jobStatus' \in [Jobs -> JobStates \cup {"NONE", "DELETED"}]
           /\ jobPlan' \in [Jobs -> Plans \cup {Same}]
           /\ jobDock' \in [Jobs -> BOOLEAN]
           /\ PlansKnown'
           /\ \A j \in Jobs : Exists(j) => Exists(j)'
<1>1. req[t].status \in JobStates /\ req[t].lines \in Plans \cup {Same}
  BY DEF IInv, LocalType, Requests
<1>2. jobPlan[req[t].job] \in Plans
  BY <1>1 DEF IInv, PlansKnown
<1>3. /\ jobStatus' \in [Jobs -> JobStates \cup {"NONE", "DELETED"}]
      /\ \A j \in Jobs : Exists(j) <=> Exists(j)'
  BY <1>1 DEF IInv, TablesType, WriteJob, Exists
<1>4. /\ jobPlan' \in [Jobs -> Plans \cup {Same}]
      /\ \A j \in Jobs : jobPlan[j] \in Plans => jobPlan'[j] \in Plans
  BY <1>1, <1>2 DEF IInv, TablesType, WriteJob
<1>5. jobDock' \in [Jobs -> BOOLEAN]
  <2>1. PICK b \in BOOLEAN : jobDock' = [jobDock EXCEPT ![req[t].job] = b]
    <3>1. CASE req[t].dock = "keep"
      BY <1>1, <3>1 DEF WriteJob, IInv, TablesType
    <3>2. CASE req[t].dock # "keep"
      BY <3>2 DEF WriteJob
    <3> QED
      BY <3>1, <3>2
  <2> QED
    BY <2>1 DEF IInv, TablesType
<1> QED
  BY <1>3, <1>4, <1>5 DEF IInv, PlansKnown

LEMMA UpdateEndsKeep ==
    ASSUME IInv, NEW t \in Tx, UpdateWrite(t) \/ StartCommit(t)
    PROVE  IInv'
<1>1. UNCHANGED <<palletStatus, palletJob>> /\ WriteJob(t) /\ Finish(t)
  BY DEF UpdateWrite, StartCommit
<1>2. req[t].job \in Jobs /\ Exists(req[t].job)
  BY DEF UpdateWrite, StartCommit, IInv, StartHolds, LocalType, Requests
<1>3. contStatus' \in [Containers -> ContStates]
  BY DEF UpdateWrite, StartCommit, IInv, TablesType, ContStates
<1>4. TablesType' /\ PlansKnown'
  BY <1>1, <1>2, <1>3, WriteJobKeeps DEF IInv, TablesType
<1>5. StartHolds'
  BY <1>1, <1>2, WriteJobKeeps, FinishKeepsStarts DEF IInv
<1> QED
  BY <1>1, <1>4, <1>5, FinishNoPallet

LEMMA CloseKeeps ==
    ASSUME IInv, NEW t \in Tx, CloseWrite(t)
    PROVE  IInv'
<1>1. req[t].job \in Jobs
  BY DEF CloseWrite, IInv, LocalType, Requests
<1>2. UNCHANGED <<palletStatus, palletJob, contStatus, jobPlan>> /\ Finish(t)
  BY DEF CloseWrite
<1>3. TablesType' /\ PlansKnown' /\ \A j \in Jobs : Exists(j) => Exists(j)'
  BY <1>1 DEF CloseWrite, IInv, TablesType, PlansKnown, Exists, JobStates
<1>4. StartHolds'
  BY <1>2, <1>3, FinishKeepsStarts DEF IInv
<1> QED
  BY <1>2, <1>3, <1>4, FinishNoPallet

LEMMA DeleteKeeps ==
    ASSUME IInv, NEW t \in Tx, DeleteWrite(t)
    PROVE  IInv'
<1> DEFINE j == req[t].job
<1>1. j \in Jobs
  BY DEF DeleteWrite, IInv, LocalType, Requests
<1>2. UNCHANGED <<palletStatus, contStatus>> /\ Finish(t)
  BY DEF DeleteWrite
<1>3. palletJob' = [p \in Pallets |-> IF palletJob[p] = j THEN NoJob ELSE palletJob[p]]
  BY DEF DeleteWrite
<1>4. TablesType'
  BY <1>1, <1>2, <1>3 DEF DeleteWrite, IInv, TablesType
<1>5. PlansKnown' /\ \A k \in Jobs : k # j => (Exists(k) <=> Exists(k)')
  BY <1>1 DEF DeleteWrite, IInv, PlansKnown, Exists, JobStates, TablesType
<1>6. LocalType'
  BY <1>2, FinishLocal DEF IInv
<1>7. Counted' /\ Locked' /\ OnePalletEach'
  BY <1>2, FinishKeeps DEF IInv
<1>8. StillDecided'
  <2>1. ASSUME NEW u \in Tx, pc[u] \in WroteSteps, NEW p \in req[u].pals
        PROVE  palletJob'[p] = palletJob[p]
    <3>1. owner[p] = u /\ p \in Pallets
      BY <2>1, WrittenIsOwned DEF IInv, LocalType, Requests
    <3>2. palletJob[p] # j
      BY <3>1, LoadJobsAssumption DEF DeleteWrite
    <3> QED
      BY <1>3, <3>1, <3>2
  <2> QED
    BY <1>2, <2>1, FinishKeepsDecided DEF IInv
<1>9. OnlyLoadedInJob'
  BY <1>2, <1>3 DEF IInv, OnlyLoadedInJob
<1>10. StartHolds'
  BY <1>2, <1>5, FinishKeepsStarts DEF DeleteWrite, IInv
<1> QED
  BY <1>4, <1>5, <1>6, <1>7, <1>8, <1>9, <1>10 DEF IInv

LEMMA SyncCommitKeeps ==
    ASSUME IInv, NEW t \in Tx, SyncAndCommit(t)
    PROVE  IInv'
<1>1. pc[t] = "commitScan" /\ Finish(t) /\ UNCHANGED <<jobStatus, jobPlan, jobDock>>
  BY DEF SyncAndCommit
<1>2. PICK q \in Pallets : req[t].pals = {q}
  BY <1>1 DEF IInv, OnePalletEach, WroteSteps
<1>3. ThePallet(t) = q
  BY <1>2 DEF ThePallet
<1>4. req[t].op \in PalletOps /\ req[t].job \in Jobs
  BY <1>1 DEF IInv, OnePalletEach, WroteSteps, LocalType, Requests, PalletOps
<1>5. owner[q] = t
  BY <1>1, <1>2, WrittenIsOwned DEF IInv, WroteSteps
<1>6. /\ palletStatus' = [palletStatus EXCEPT ![q] = NewStatus(t)]
      /\ palletJob' = [palletJob EXCEPT ![q] = NewJob(t)]
  BY <1>3 DEF SyncAndCommit
<1>7. /\ NewStatus(t) \in {"LOADED", "LABEL_PRINTED"} /\ NewJob(t) \in Jobs \cup {NoJob}
      /\ NewJob(t) # NoJob => NewStatus(t) = "LOADED"
  BY <1>4 DEF NewStatus, NewJob
<1>8. contStatus' \in [Containers -> ContStates]
  <2>1. /\ counts[t].status \in ContStates
        /\ counts[t].active \in Nat /\ counts[t].loaded \in Nat
    BY <1>1 DEF IInv, Counted, LocalType, ContViews
  <2>2. StatusFromCounts(counts[t].active, counts[t].loaded, counts[t].status) \in ContStates
    BY <2>1 DEF StatusFromCounts, ContStates
  <2> QED
    BY <2>2 DEF SyncAndCommit, IInv, TablesType
<1>9. TablesType'
  BY <1>1, <1>6, <1>7, <1>8 DEF IInv, TablesType, PalletStates
<1>10. LocalType'
  BY <1>1, FinishLocal DEF IInv
<1>11. palletStatus[q] # "GONE"
  BY <1>1, <1>2 DEF IInv, StillDecided, Decided, Missing, WroteSteps
<1>12. Counted' /\ Locked' /\ OnePalletEach'
  <2>1. \A p \in Pallets : palletStatus[p] = "GONE" => palletStatus'[p] = "GONE"
    BY <1>6, <1>11 DEF IInv, TablesType
  <2> QED
    BY <1>1, <2>1, FinishKeeps DEF IInv, LocalType, Requests
<1>13. StillDecided'
  <2>1. ASSUME NEW u \in Tx, u # t, pc[u] \in WroteSteps, NEW p \in req[u].pals
        PROVE  palletStatus'[p] = palletStatus[p] /\ palletJob'[p] = palletJob[p]
    <3>1. owner[p] = u
      BY <2>1, WrittenIsOwned DEF IInv
    <3>2. p # q
      BY <3>1, <1>5, <2>1
    <3> QED
      BY <1>6, <3>2 DEF IInv, TablesType
  <2> QED
    BY <1>1, <2>1, FinishKeepsDecided DEF IInv
<1>14. OnlyLoadedInJob'
  BY <1>6, <1>7 DEF IInv, OnlyLoadedInJob, TablesType
<1>15. PlansKnown' /\ StartHolds'
  BY <1>1, FinishKeepsStarts DEF IInv, PlansKnown, Exists
<1> QED
  BY <1>9, <1>10, <1>12, <1>13, <1>14, <1>15 DEF IInv

LEMMA DepleteKeeps ==
    ASSUME IInv, NEW t \in Tx, DepleteAndCommit(t)
    PROVE  IInv'
<1>1. /\ pc[t] = "decide" /\ Finish(t) /\ req[t].pals \subseteq Pallets
      /\ UNCHANGED <<jobStatus, jobPlan, jobDock, contStatus>>
  BY DEF DepleteAndCommit, IInv, LocalType, Requests
<1>2. /\ palletStatus' = [p \in Pallets |-> IF p \in req[t].pals THEN "ADJUSTED_OUT"
                                                              ELSE palletStatus[p]]
      /\ palletJob' = [p \in Pallets |-> IF p \in req[t].pals THEN NoJob ELSE palletJob[p]]
  BY DEF DepleteAndCommit
<1>3. \A p \in req[t].pals : palletStatus[p] # "GONE" /\ owner[p] = t
  BY <1>1 DEF DepleteAndCommit, DepletionEligible, IInv, Locked
<1>4. TablesType'
  BY <1>1, <1>2 DEF IInv, TablesType, PalletStates
<1>5. LocalType'
  BY <1>1, FinishLocal DEF IInv
<1>6. Counted' /\ Locked' /\ OnePalletEach'
  <2>1. \A p \in Pallets : palletStatus[p] = "GONE" => palletStatus'[p] = "GONE"
    BY <1>2, <1>3
  <2> QED
    BY <1>1, <2>1, FinishKeeps DEF IInv, LocalType, Requests
<1>7. StillDecided'
  <2>1. ASSUME NEW u \in Tx, u # t, pc[u] \in WroteSteps, NEW p \in req[u].pals
        PROVE  palletStatus'[p] = palletStatus[p] /\ palletJob'[p] = palletJob[p]
    <3>1. owner[p] = u /\ p \in Pallets
      BY <2>1, WrittenIsOwned DEF IInv, LocalType, Requests
    <3>2. p \notin req[t].pals
      BY <3>1, <1>3, <2>1
    <3> QED
      BY <1>2, <3>1, <3>2
  <2> QED
    BY <1>1, <2>1, FinishKeepsDecided DEF IInv
<1>8. OnlyLoadedInJob'
  BY <1>2 DEF IInv, OnlyLoadedInJob
<1>9. PlansKnown' /\ StartHolds'
  BY <1>1, FinishKeepsStarts DEF IInv, PlansKnown, Exists
<1> QED
  BY <1>4, <1>5, <1>6, <1>7, <1>8, <1>9 DEF IInv

-----------------------------------------------------------------------------
\* The invariant

LEMMA InitHolds == Init => IInv
<1> SUFFICES ASSUME Init PROVE IInv
  OBVIOUS
<1>1. TablesType
  BY LoadJobsAssumption DEF Init, TablesType, PalletStates, ContStates
<1>2. LocalType
  BY DEF Init, LocalType, NoRequest, NothingSeen, NothingCounted, Requests, JobViews,
         ContViews, Steps, Endpoints, JobStates
<1> QED
  BY <1>1, <1>2 DEF Init, IInv, Counted, Locked, OnePalletEach, StillDecided,
     OnlyLoadedInJob, PlansKnown, StartHolds, WroteSteps, Exists, JobStates

LEMMA StepKeeps == IInv /\ [Next]_vars => IInv'
<1> SUFFICES ASSUME IInv, [Next]_vars PROVE IInv'
  OBVIOUS
<1>1. CASE UNCHANGED vars
  BY <1>1 DEF IInv, TablesType, LocalType, Counted, Locked, OnePalletEach, StillDecided,
     Decided, OnlyLoadedInJob, PlansKnown, StartHolds, Exists, vars, tables, local
<1>2. CASE Next
  <2> SUFFICES ASSUME NEW t \in Tx, Request(t) \/ Advance(t) \/ Rollback(t)
               PROVE  IInv'
    BY <1>2 DEF Next
  <2>1. CASE Request(t)
    BY <2>1, RequestKeeps
  <2>2. CASE Rollback(t)
    BY <2>2, RefusedKeeps DEF Rollback
  <2>3. CASE Advance(t)
    <3>1. CASE \E p \in Pallets : LockPalletRow(t, p)
      BY <3>1, LockKeeps
    <3>2. CASE PalletRefused(t) \/ UpdateRefused(t) \/ DepleteRefused(t)
      BY <3>2, RefusedKeeps DEF PalletRefused, UpdateRefused, DepleteRefused
    <3>3. CASE PalletWritten(t)
      BY <3>3, WrittenKeeps
    <3>4. CASE SyncReadContainer(t) \/ SyncCountActive(t) \/ SyncCountLoaded(t)
      BY <3>4, SyncKeeps
    <3>5. CASE SyncAndCommit(t)
      BY <3>5, SyncCommitKeeps
    <3>6. CASE \/ UpdateCheckPlan(t) \/ UpdateCheckStatus(t) \/ UpdateStart(t)
               \/ \E c \in Containers : StartVisit(t, c)
               \/ StartWriteContainer(t)
      BY <3>6, UpdateMovesKeep
    <3>7. CASE UpdateWrite(t) \/ StartCommit(t)
      BY <3>7, UpdateEndsKeep
    <3>8. CASE CloseWrite(t)
      BY <3>8, CloseKeeps
    <3>9. CASE DeleteWrite(t)
      BY <3>9, DeleteKeeps
    <3>10. CASE DepleteAndCommit(t)
      BY <3>10, DepleteKeeps
    <3> QED
      BY <2>3, <3>1, <3>2, <3>3, <3>4, <3>5, <3>6, <3>7, <3>8, <3>9, <3>10 DEF Advance
  <2> QED
    BY <2>1, <2>2, <2>3
<1> QED
  BY <1>1, <1>2

THEOREM Invariant == Spec => []IInv
  BY InitHolds, StepKeeps, PTL DEF Spec

\* Every table and every transaction of load-jobs and inventory-adjustments keeps
\* to its type, however requests interleave.
THEOREM TypeCorrect == Spec => []TypeOK
<1>1. IInv => TypeOK
  BY DEF IInv, TablesType, LocalType, TypeOK, Requests, JobViews, ContViews
<1> QED
  BY <1>1, Invariant, PTL

\* A pallet that is not LOADED belongs to no load job.
THEOREM LoadedInJob == Spec => []OnlyLoadedInJob
  BY Invariant, PTL DEF IInv

-----------------------------------------------------------------------------
\* What a step may do to a pallet

\* The three ways in which a step writes a pallet: its scan, override or reversal
\* commits, it is adjusted out, or its load job is deleted.
ScanCommits(t, p) ==
    /\ pc[t] = "commitScan" /\ pc'[t] = "idle" /\ req[t].pals = {p}
    /\ Decided(t, p)
    /\ palletStatus'[p] = NewStatus(t) /\ palletJob'[p] = NewJob(t)

IsDepleted(p) ==
    /\ DepletionEligible(p)
    /\ palletStatus'[p] = "ADJUSTED_OUT" /\ palletJob'[p] = NoJob

LosesItsJob(p) == palletStatus'[p] = palletStatus[p] /\ palletJob'[p] = NoJob

IsUntouched(p) == palletStatus'[p] = palletStatus[p] /\ palletJob'[p] = palletJob[p]

PalletStep(p) ==
    IsUntouched(p) \/ IsDepleted(p) \/ LosesItsJob(p) \/ \E t \in Tx : ScanCommits(t, p)

LEMMA CommitWritesOne ==
    ASSUME IInv, NEW t \in Tx, SyncAndCommit(t), NEW p \in Pallets
    PROVE  IsUntouched(p) \/ ScanCommits(t, p)
<1>1. pc[t] = "commitScan" /\ pc'[t] = "idle"
  BY DEF SyncAndCommit, Finish, IInv, LocalType
<1>2. PICK q \in Pallets : req[t].pals = {q}
  BY <1>1 DEF IInv, OnePalletEach, WroteSteps, SyncAndCommit
<1>3. /\ palletStatus' = [palletStatus EXCEPT ![q] = NewStatus(t)]
      /\ palletJob' = [palletJob EXCEPT ![q] = NewJob(t)]
  BY <1>2 DEF SyncAndCommit, ThePallet
<1>4. Decided(t, q)
  BY <1>1, <1>2 DEF IInv, StillDecided, WroteSteps
<1>5. CASE p = q
  BY <1>1, <1>2, <1>3, <1>4, <1>5 DEF ScanCommits, IInv, TablesType
<1>6. CASE p # q
  BY <1>3, <1>6 DEF IsUntouched, IInv, TablesType
<1> QED
  BY <1>5, <1>6

LEMMA OtherStepsKeepPallets ==
    ASSUME NEW t \in Tx, Request(t) \/ Advance(t) \/ Rollback(t),
           ~SyncAndCommit(t), ~DeleteWrite(t), ~DepleteAndCommit(t)
    PROVE  UNCHANGED <<palletStatus, palletJob>>
<1>1. CASE Request(t)
  BY <1>1 DEF Request, Create, UpdateRead, CloseRead, DeleteRead, ScanRead, ReverseRead,
              DepleteSelect, Begin, tables
<1>2. CASE Rollback(t)
  BY <1>2 DEF Rollback, tables
<1>3. CASE Advance(t)
  BY <1>3 DEF Advance, LockPalletRow, PalletRefused, PalletWritten, SyncReadContainer,
              SyncCountActive, SyncCountLoaded, UpdateCheckPlan, UpdateCheckStatus,
              UpdateRefused, UpdateWrite, UpdateStart, StartVisit, StartWriteContainer,
              StartCommit, CloseWrite, DepleteRefused, tables
<1> QED
  BY <1>1, <1>2, <1>3

LEMMA EachPalletStep ==
    ASSUME IInv, [Next]_vars, NEW p \in Pallets
    PROVE  PalletStep(p)
<1>1. CASE UNCHANGED vars
  BY <1>1 DEF vars, tables, PalletStep, IsUntouched
<1>2. CASE Next
  <2>1. PICK t \in Tx : Request(t) \/ Advance(t) \/ Rollback(t)
    BY <1>2 DEF Next
  <2>2. CASE SyncAndCommit(t)
    BY <2>2, CommitWritesOne DEF PalletStep
  <2>3. CASE DeleteWrite(t)
    BY <2>3 DEF DeleteWrite, PalletStep, IsUntouched, LosesItsJob
  <2>4. CASE DepleteAndCommit(t)
    BY <2>4 DEF DepleteAndCommit, PalletStep, IsUntouched, IsDepleted
  <2>5. CASE ~SyncAndCommit(t) /\ ~DeleteWrite(t) /\ ~DepleteAndCommit(t)
    BY <2>1, <2>5, OtherStepsKeepPallets DEF PalletStep, IsUntouched
  <2> QED
    BY <2>2, <2>3, <2>4, <2>5
<1> QED
  BY <1>1, <1>2

\* A pallet that was cancelled or adjusted out keeps that status, whatever scans
\* had found it before (scan reads the pallet again under its lock).
THEOREM RemovedNeverReturns == Spec => RemovedStaysRemoved
<1> DEFINE Stays == \A p \in Pallets : palletStatus[p] \in Removed
                                          => palletStatus'[p] = palletStatus[p]
<1>1. IInv /\ [Next]_vars => Stays
  <2> SUFFICES ASSUME IInv, [Next]_vars, NEW p \in Pallets, palletStatus[p] \in Removed
               PROVE  palletStatus'[p] = palletStatus[p]
    OBVIOUS
  <2>1. ~IsDepleted(p) /\ \A t \in Tx : ~ScanCommits(t, p)
    BY DEF IsDepleted, DepletionEligible, ScanCommits, Decided, Removed
  <2> QED
    BY <2>1, EachPalletStep DEF PalletStep, IsUntouched, LosesItsJob
<1> QED
  BY <1>1, Invariant, PTL DEF Spec, RemovedStaysRemoved

\* No depletion takes a pallet that a scan has loaded (assertSelectedPallets-
\* StillEligible under the locks of the selected rows).
THEOREM LoadedNeverDepleted == Spec => LoadedIsNotDepleted
<1> DEFINE Kept == \A p \in Pallets : palletStatus[p] = "LOADED"
                                         => palletStatus'[p] # "ADJUSTED_OUT"
<1>1. IInv /\ [Next]_vars => Kept
  <2> SUFFICES ASSUME IInv, [Next]_vars, NEW p \in Pallets, palletStatus[p] = "LOADED"
               PROVE  palletStatus'[p] # "ADJUSTED_OUT"
    OBVIOUS
  <2>1. ~IsDepleted(p)
    BY DEF IsDepleted, DepletionEligible
  <2>2. \A t \in Tx : NewStatus(t) # "ADJUSTED_OUT"
    BY DEF NewStatus
  <2> QED
    BY <2>1, <2>2, EachPalletStep DEF PalletStep, IsUntouched, LosesItsJob, ScanCommits
<1> QED
  BY <1>1, Invariant, PTL DEF Spec, LoadedIsNotDepleted

\* A pallet goes from one load job to another only by a supervisor override.
THEOREM MovesNeedOverride == Spec => MovedOnlyByOverride
<1> DEFINE Moved == \A p \in Pallets :
          (palletJob[p] # NoJob /\ palletJob'[p] \notin {NoJob, palletJob[p]})
             => \E t \in Tx : pc[t] = "commitScan" /\ pc'[t] = "idle"
                               /\ req[t].op = "override" /\ p \in req[t].pals
<1>1. IInv /\ [Next]_vars => Moved
  <2> SUFFICES ASSUME IInv, [Next]_vars, NEW p \in Pallets, palletJob[p] # NoJob,
                      palletJob'[p] \notin {NoJob, palletJob[p]}
               PROVE  \E t \in Tx : pc[t] = "commitScan" /\ pc'[t] = "idle"
                               /\ req[t].op = "override" /\ p \in req[t].pals
    OBVIOUS
  <2>1. PICK t \in Tx : ScanCommits(t, p)
    BY EachPalletStep DEF PalletStep, IsUntouched, LosesItsJob, IsDepleted
  <2>2. palletStatus[p] = "LOADED"
    BY DEF IInv, OnlyLoadedInJob
  <2>3. req[t].op # "scan" /\ req[t].op # "reverse"
    BY <2>1, <2>2 DEF ScanCommits, Decided, NewJob, IsScan
  <2>4. req[t].op \in PalletOps
    BY <2>1 DEF ScanCommits, IInv, OnePalletEach, WroteSteps
  <2> QED
    BY <2>1, <2>3, <2>4 DEF ScanCommits, PalletOps
<1> QED
  BY <1>1, Invariant, PTL DEF Spec, MovedOnlyByOverride

-----------------------------------------------------------------------------
\* How far concurrent scans may overrun a line

\* Every nonempty set of naturals has a least element.
LEMMA LeastOfNaturals ==
    ASSUME NEW S \in SUBSET Nat, S # {}
    PROVE  \E m \in S : \A k \in S : m <= k
<1> DEFINE Less == {ss \in Nat \X Nat : ss[1] < ss[2]}
<1>1. IsWellFoundedOn(Less, Nat)
  BY NatLessThanWellFounded DEF OpToRel
<1> HIDE DEF Less
<1>2. PICK m \in S : \A k \in S : ~(<<k, m>> \in Less)
  BY <1>1, WFMin
<1>3. \A k \in S : ~(k < m)
  BY <1>2 DEF Less
<1> QED
  BY <1>3

\* The line found for a pallet is a line of the plan that covers it.
LEMMA MatchLineCovers ==
    ASSUME NEW lines \in Plans, NEW p \in Pallets, Matching(lines, p) # {}
    PROVE  \E i \in DOMAIN lines : MatchLine(lines, p) = lines[i] /\ Covers(lines[i].scope, p)
<1>1. lines \in Seq(PlanLines)
  BY LoadJobsAssumption
<1>2. Matching(lines, p) \subseteq Nat /\ Matching(lines, p) \subseteq DOMAIN lines
  BY <1>1 DEF Matching
<1>3. \E i \in Matching(lines, p) : \A k \in Matching(lines, p) : i <= k
  BY <1>2, LeastOfNaturals
<1> DEFINE i == CHOOSE i \in Matching(lines, p) : \A k \in Matching(lines, p) : i <= k
<1>4. i \in Matching(lines, p)
  BY <1>3
<1> QED
  BY <1>2, <1>4 DEF MatchLine, Matching

\* the pallets of load job j whose line is line i of plan
OnLine(j, plan, i) == {p \in LoadedIn(j) : Matching(plan, p) # {}
                                           /\ MatchLine(plan, p) = plan[i]}

\* the scans of load job j that were accepted for that line and will commit
Pending(j, plan, i) ==
    {t \in Tx : /\ pc[t] \in WroteSteps /\ IsScan(t) /\ req[t].job = j
                /\ Matching(plan, ThePallet(t)) # {}
                /\ MatchLine(plan, ThePallet(t)) = plan[i]}

\* A transaction about a load job has read a plan of it.
SeenPlanned ==
    \A t \in Tx : pc[t] # "idle" /\ req[t].op # "deplete" => seen[t].plan \in Plans

\* Pallets on a line and scans accepted for it are together few enough: a scan is
\* accepted while the line is not full, with at most all the others under way.
FewOnLine ==
    \A j \in Jobs, plan \in Plans : \A i \in DOMAIN plan :
        Cardinality(OnLine(j, plan, i)) + Cardinality(Pending(j, plan, i))
            <= plan[i].planned + Cardinality(Tx) - 1

\* The transactions are finitely many, and the plans clients write never differ.
OnePlan == IsFiniteSet(Tx) /\ \A a, b \in Plans : a = b

LEMMA GrowsByOne ==
    ASSUME NEW S, IsFiniteSet(S), NEW e
    PROVE  /\ IsFiniteSet(S \cup {e}) /\ Cardinality(S \cup {e}) \in Nat
           /\ Cardinality(S \cup {e}) <= Cardinality(S) + 1
<1>1. CASE e \in S
  <2>1. S \cup {e} = S
    BY <1>1
  <2> QED
    BY <2>1, FS_CardinalityType
<1>2. CASE e \notin S
  <2>1. IsFiniteSet(S \cup {e}) /\ Cardinality(S \cup {e}) = Cardinality(S) + 1
    BY <1>2, FS_AddElement
  <2>2. Cardinality(S) \in Nat
    BY FS_CardinalityType
  <2> QED
    BY <2>1, <2>2
<1> QED
  BY <1>1, <1>2

LEMMA OnLineIsFinite ==
    ASSUME NEW j, NEW plan, NEW i
    PROVE  IsFiniteSet(OnLine(j, plan, i)) /\ Cardinality(OnLine(j, plan, i)) \in Nat
<1>1. OnLine(j, plan, i) \subseteq Pallets
  BY DEF OnLine, LoadedIn
<1> QED
  BY <1>1, FS_Subset, FS_CardinalityType, LoadJobsAssumption

LEMMA PendingIsFinite ==
    ASSUME OnePlan, NEW j, NEW plan, NEW i
    PROVE  /\ IsFiniteSet(Pending(j, plan, i)) /\ Cardinality(Pending(j, plan, i)) \in Nat
           /\ Cardinality(Tx) \in Nat
           /\ Cardinality(Pending(j, plan, i)) <= Cardinality(Tx)
<1>1. Pending(j, plan, i) \subseteq Tx
  BY DEF Pending
<1> QED
  BY <1>1, FS_Subset, FS_CardinalityType DEF OnePlan

LEMMA PlannedInNat ==
    ASSUME NEW plan \in Plans, NEW i \in DOMAIN plan
    PROVE  plan[i].planned \in Nat \ {0}
<1>1. plan \in Seq(PlanLines)
  BY LoadJobsAssumption
<1>2. plan[i] \in PlanLines
  BY <1>1
<1> QED
  BY <1>2 DEF PlanLines

\* The pallets of a line are among those that are counted for it.
LEMMA OnLineCovered ==
    ASSUME NEW j, NEW plan \in Plans, NEW i \in DOMAIN plan
    PROVE  OnLine(j, plan, i) \subseteq {p \in LoadedIn(j) : Covers(plan[i].scope, p)}
<1> SUFFICES ASSUME NEW q \in OnLine(j, plan, i)
             PROVE  q \in LoadedIn(j) /\ Covers(plan[i].scope, q)
  OBVIOUS
<1>1. q \in LoadedIn(j) /\ q \in Pallets /\ Matching(plan, q) # {}
      /\ MatchLine(plan, q) = plan[i]
  BY DEF OnLine, LoadedIn
<1>2. PICK k \in DOMAIN plan : MatchLine(plan, q) = plan[k] /\ Covers(plan[k].scope, q)
  BY <1>1, MatchLineCovers
<1> QED
  BY <1>1, <1>2

\* An accepted scan found its line with room for one more.
LEMMA AcceptedBelowLimit ==
    ASSUME NEW t \in Tx, NEW p \in Pallets, LineAccepts(t, p), seen[t].plan \in Plans,
           NEW i \in DOMAIN seen[t].plan, MatchLine(seen[t].plan, p) = seen[t].plan[i]
    PROVE  Cardinality(OnLine(req[t].job, seen[t].plan, i)) <= seen[t].plan[i].planned - 1
<1> DEFINE j == req[t].job
           plan == seen[t].plan
           covered == {q \in LoadedIn(j) : Covers(plan[i].scope, q)}
<1>1. Cardinality(covered) < plan[i].planned
  BY DEF LineAccepts, LoadedForLine
<1>2. OnLine(j, plan, i) \subseteq covered
  BY OnLineCovered
<1>3. IsFiniteSet(covered)
  BY FS_Subset, LoadJobsAssumption DEF LoadedIn
<1>4. Cardinality(OnLine(j, plan, i)) <= Cardinality(covered)
      /\ Cardinality(covered) \in Nat /\ Cardinality(OnLine(j, plan, i)) \in Nat
  BY <1>2, <1>3, FS_Subset, FS_CardinalityType
<1>5. plan[i].planned \in Nat \ {0}
  BY PlannedInNat
<1> QED
  BY <1>1, <1>4, <1>5

\* A step that adds no pallet to a line and no scan to those accepted for it.
LEMMA NoMoreOnLine ==
    ASSUME OnePlan, FewOnLine,
           \A j \in Jobs, plan \in Plans : \A i \in DOMAIN plan :
              /\ OnLine(j, plan, i)' \subseteq OnLine(j, plan, i)
              /\ Pending(j, plan, i)' \subseteq Pending(j, plan, i)
    PROVE  FewOnLine'
<1> SUFFICES ASSUME NEW j \in Jobs, NEW plan \in Plans, NEW i \in DOMAIN plan
             PROVE  Cardinality(OnLine(j, plan, i)') + Cardinality(Pending(j, plan, i)')
                       <= plan[i].planned + Cardinality(Tx) - 1
  BY DEF FewOnLine
<1>1. /\ Cardinality(OnLine(j, plan, i)') <= Cardinality(OnLine(j, plan, i))
      /\ Cardinality(OnLine(j, plan, i)') \in Nat
  BY OnLineIsFinite, FS_Subset, FS_CardinalityType
<1>2. /\ Cardinality(Pending(j, plan, i)') <= Cardinality(Pending(j, plan, i))
      /\ Cardinality(Pending(j, plan, i)') \in Nat
  BY PendingIsFinite, FS_Subset, FS_CardinalityType
<1> QED
  BY <1>1, <1>2, OnLineIsFinite, PendingIsFinite, PlannedInNat DEF FewOnLine

\* Between two states only PalletWritten makes a scan one of those accepted.
LEMMA PendingOnlyByWriting ==
    ASSUME LocalType, NEW t \in Tx, Request(t) \/ Advance(t) \/ Rollback(t), ~PalletWritten(t)
    PROVE  \A u \in Tx : pc'[u] \in WroteSteps => pc[u] \in WroteSteps /\ req'[u] = req[u]
<1>0. \A u \in Tx : u # t => pc'[u] = pc[u] /\ req'[u] = req[u]
  <2>1. CASE Request(t)
    BY <2>1 DEF Request, Create, UpdateRead, CloseRead, DeleteRead, ScanRead, ReverseRead,
                DepleteSelect, Begin, local, LocalType
  <2>2. CASE Rollback(t)
    BY <2>2 DEF Rollback, Finish, LocalType
  <2>3. CASE Advance(t)
    BY <2>3 DEF Advance, LockPalletRow, PalletRefused, PalletWritten, SyncReadContainer,
              SyncCountActive, SyncCountLoaded, SyncAndCommit, UpdateCheckPlan, UpdateCheckStatus,
              UpdateRefused, UpdateWrite, UpdateStart, StartVisit, StartWriteContainer,
              StartCommit, CloseWrite, DeleteWrite, DepleteAndCommit, DepleteRefused,
              Finish, Goto, LocalType
  <2> QED
    BY <2>1, <2>2, <2>3
<1>1. CASE Request(t)
  <2>1. (pc' = pc /\ req' = req) \/ pc'[t] \in {"lock", "checkPlan", "writeJob"}
    BY <1>1 DEF Request, Create, UpdateRead, CloseRead, DeleteRead, ScanRead, ReverseRead,
                DepleteSelect, Begin, local, LocalType
  <2> QED
    BY <1>0, <2>1 DEF WroteSteps
<1>2. ASSUME Finish(t) PROVE pc'[t] \notin WroteSteps
  BY <1>2 DEF Finish, LocalType, WroteSteps
<1>3. CASE Rollback(t)
  BY <1>0, <1>2, <1>3 DEF Rollback
<1>4. CASE Advance(t)
  <2>1. CASE \E p \in Pallets : LockPalletRow(t, p)
    BY <1>0, <2>1 DEF LockPalletRow, Goto, LocalType, WroteSteps
  <2>2. CASE SyncReadContainer(t) \/ SyncCountActive(t) \/ SyncCountLoaded(t)
    BY <1>0, <2>2 DEF SyncReadContainer, SyncCountActive, SyncCountLoaded, WroteSteps
  <2>3. CASE \/ UpdateCheckPlan(t) \/ UpdateCheckStatus(t) \/ UpdateStart(t)
             \/ StartWriteContainer(t)
    BY <1>0, <2>3 DEF UpdateCheckPlan, UpdateCheckStatus, UpdateStart, StartWriteContainer,
                      Goto, LocalType, WroteSteps
  <2>4. CASE \E c \in Containers : StartVisit(t, c)
    BY <1>0, <2>4 DEF StartVisit, Goto, LocalType, WroteSteps
  <2>5. CASE \/ PalletRefused(t) \/ SyncAndCommit(t) \/ UpdateRefused(t) \/ UpdateWrite(t)
             \/ StartCommit(t) \/ CloseWrite(t) \/ DeleteWrite(t) \/ DepleteAndCommit(t)
             \/ DepleteRefused(t)
    BY <1>0, <1>2, <2>5 DEF PalletRefused, SyncAndCommit, UpdateRefused, UpdateWrite,
        StartCommit, CloseWrite, DeleteWrite, DepleteAndCommit, DepleteRefused
  <2> QED
    BY <1>4, <2>1, <2>2, <2>3, <2>4, <2>5 DEF Advance
<1> QED
  BY <1>1, <1>3, <1>4

LEMMA SeenPlannedInit == Init => SeenPlanned
  BY DEF Init, SeenPlanned

LEMMA SeenPlannedStep ==
    ASSUME IInv, SeenPlanned, [Next]_vars
    PROVE  SeenPlanned'
<1>1. CASE UNCHANGED vars
  BY <1>1 DEF vars, local, SeenPlanned
<1>2. CASE Next
  <2>1. PICK t \in Tx : Request(t) \/ Advance(t) \/ Rollback(t)
    BY <1>2 DEF Next
  <2>2. ASSUME NEW first, NEW r, NEW s, Begin(t, first, r, s),
               r.op = "deplete" \/ s.plan \in Plans
        PROVE  SeenPlanned'
    BY <2>2 DEF Begin, SeenPlanned, IInv, LocalType
  <2>3. \A j \in Jobs : Exists(j) => JobSeen(j).plan \in Plans
    BY DEF IInv, PlansKnown, JobSeen
  <2>4. CASE Request(t)
    <3>1. ASSUME NEW j \in Jobs, NEW lines \in Plans, Create(t, j, lines)
          PROVE  SeenPlanned'
      BY <3>1 DEF Create, local, SeenPlanned
    <3>2. ASSUME NEW j \in Jobs, NEW lines \in Plans \cup {Same}, NEW status \in JobStates,
                 NEW dock \in DockEdits, UpdateRead(t, j, lines, status, dock)
          PROVE  SeenPlanned'
      BY <2>2, <2>3, <3>2 DEF UpdateRead, Exists, JobStates
    <3>3. ASSUME NEW j \in Jobs, NEW dock \in DockEdits, CloseRead(t, j, dock)
          PROVE  SeenPlanned'
      BY <2>2, <2>3, <3>3 DEF CloseRead, Exists, JobStates
    <3>4. ASSUME NEW j \in Jobs, DeleteRead(t, j)
          PROVE  SeenPlanned'
      BY <2>2, <2>3, <3>4 DEF DeleteRead, Exists, JobStates
    <3>5. ASSUME NEW j \in Jobs, NEW p \in Pallets, NEW op \in {"scan", "override"},
                 ScanRead(t, j, p, op)
          PROVE  SeenPlanned'
      BY <2>2, <2>3, <3>5 DEF ScanRead, Exists, JobStates
    <3>6. ASSUME NEW j \in Jobs, NEW p \in Pallets, ReverseRead(t, j, p)
          PROVE  SeenPlanned'
      BY <2>2, <2>3, <3>6 DEF ReverseRead, Exists, JobStates
    <3>7. ASSUME NEW d \in Dests, NEW ps \in SUBSET Pallets, DepleteSelect(t, d, ps)
          PROVE  SeenPlanned'
      <4>1. [NoRequest EXCEPT !.op = "deplete", !.pals = ps].op = "deplete"
        BY DEF NoRequest
      <4> QED
        BY <2>2, <4>1, <3>7 DEF DepleteSelect
    <3> QED
      BY <2>4, <3>1, <3>2, <3>3, <3>4, <3>5, <3>6, <3>7 DEF Request
  <2>5. ASSUME Finish(t) PROVE SeenPlanned'
    BY <2>5 DEF Finish, SeenPlanned, IInv, LocalType
  <2>6. ASSUME UNCHANGED <<req, seen>>, pc[t] # "idle", \A u \in Tx : u # t => pc'[u] = pc[u]
        PROVE  SeenPlanned'
    BY <2>6 DEF SeenPlanned
  <2>7. CASE Advance(t)
    <3>1. \/ Finish(t)
          \/ UNCHANGED <<req, seen>> /\ pc[t] # "idle" /\ \A u \in Tx : u # t => pc'[u] = pc[u]
      BY <2>7 DEF Advance, LockPalletRow, PalletRefused, PalletWritten, SyncReadContainer,
              SyncCountActive, SyncCountLoaded, SyncAndCommit, UpdateCheckPlan, UpdateCheckStatus,
              UpdateRefused, UpdateWrite, UpdateStart, StartVisit, StartWriteContainer,
              StartCommit, CloseWrite, DeleteWrite, DepleteAndCommit, DepleteRefused,
              Goto, IInv, LocalType
    <3> QED
      BY <2>5, <2>6, <3>1
  <2> QED
    BY <2>1, <2>4, <2>5, <2>7 DEF Rollback
<1> QED
  BY <1>1, <1>2

LEMMA FewOnLineInit == OnePlan /\ Init => FewOnLine
<1> SUFFICES ASSUME OnePlan, Init, NEW j \in Jobs, NEW plan \in Plans, NEW i \in DOMAIN plan
             PROVE  Cardinality(OnLine(j, plan, i)) + Cardinality(Pending(j, plan, i))
                       <= plan[i].planned + Cardinality(Tx) - 1
  BY DEF FewOnLine
<1>1. OnLine(j, plan, i) = {}
  BY LoadJobsAssumption DEF OnLine, LoadedIn, Init
<1>2. Pending(j, plan, i) = {}
  BY DEF Pending, Init, WroteSteps
<1>3. Cardinality({}) = 0
  BY FS_EmptySet
<1> QED
  BY <1>1, <1>2, <1>3, PlannedInNat, PendingIsFinite

\* The step that accepts a scan: its line was not full.
LEMMA FewWhenWritten ==
    ASSUME OnePlan, IInv, SeenPlanned, FewOnLine, NEW t \in Tx, PalletWritten(t)
    PROVE  FewOnLine'
<1>1. /\ UNCHANGED <<tables, req>> /\ pc[t] = "decide" /\ req[t].op # "deplete"
      /\ pc' = [pc EXCEPT ![t] = "readContainer"]
  BY DEF PalletWritten, Goto
<1>2. PICK q \in Pallets : req[t].pals = {q}
  BY <1>1 DEF IInv, OnePalletEach
<1>3. ThePallet(t) = q
  BY <1>2 DEF ThePallet
<1>4. seen[t].plan \in Plans
  BY <1>1 DEF SeenPlanned
<1>5. \A j, plan, i : OnLine(j, plan, i)' = OnLine(j, plan, i)
  BY <1>1 DEF OnLine, LoadedIn, tables
<1> SUFFICES ASSUME NEW j \in Jobs, NEW plan \in Plans, NEW i \in DOMAIN plan
             PROVE  Cardinality(OnLine(j, plan, i)) + Cardinality(Pending(j, plan, i)')
                       <= plan[i].planned + Cardinality(Tx) - 1
  BY <1>5 DEF FewOnLine
<1>6. \A u \in Tx : u # t => pc'[u] = pc[u]
  BY <1>1 DEF IInv, LocalType
<1>7. CASE t \in Pending(j, plan, i)'
  <2>1. IsScan(t) /\ req[t].job = j /\ MatchLine(plan, q) = plan[i]
    BY <1>1, <1>3, <1>7 DEF Pending, IsScan, ThePallet
  <2>2. seen[t].plan = plan
    BY <1>4 DEF OnePlan
  <2>3. LineAccepts(t, q)
    BY <1>3, <2>1 DEF PalletWritten, Accepted, ScanAccepted
  <2>4. Cardinality(OnLine(j, plan, i)) <= plan[i].planned - 1
    BY <1>4, <2>1, <2>2, <2>3, AcceptedBelowLimit
  <2>5. Pending(j, plan, i)' \subseteq Tx
    BY DEF Pending
  <2>6. Cardinality(Pending(j, plan, i)') <= Cardinality(Tx) /\ Cardinality(Tx) \in Nat
        /\ Cardinality(Pending(j, plan, i)') \in Nat
    BY <2>5, FS_Subset, FS_CardinalityType DEF OnePlan
  <2> QED
    BY <2>4, <2>6, OnLineIsFinite, PlannedInNat
<1>8. CASE t \notin Pending(j, plan, i)'
  <2>1. Pending(j, plan, i)' \subseteq Pending(j, plan, i)
    BY <1>1, <1>6, <1>8 DEF Pending, IsScan, ThePallet
  <2>2. Cardinality(Pending(j, plan, i)') <= Cardinality(Pending(j, plan, i))
        /\ Cardinality(Pending(j, plan, i)') \in Nat
    BY <2>1, PendingIsFinite, FS_Subset, FS_CardinalityType
  <2> QED
    BY <2>2, OnLineIsFinite, PendingIsFinite, PlannedInNat DEF FewOnLine
<1> QED
  BY <1>7, <1>8

\* The step that commits a scan: it leaves those accepted as its pallet arrives.
LEMMA FewWhenCommitted ==
    ASSUME OnePlan, IInv, FewOnLine, NEW t \in Tx, SyncAndCommit(t)
    PROVE  FewOnLine'
<1>1. pc[t] = "commitScan" /\ Finish(t)
  BY DEF SyncAndCommit
<1>2. PICK q \in Pallets : req[t].pals = {q}
  BY <1>1 DEF IInv, OnePalletEach, WroteSteps
<1>3. ThePallet(t) = q
  BY <1>2 DEF ThePallet
<1>4. /\ palletStatus' = [palletStatus EXCEPT ![q] = NewStatus(t)]
      /\ palletJob' = [palletJob EXCEPT ![q] = NewJob(t)]
  BY <1>3 DEF SyncAndCommit
<1>5. pc'[t] = "idle" /\ \A u \in Tx : u # t => pc'[u] = pc[u] /\ req'[u] = req[u]
  BY <1>1 DEF Finish, IInv, LocalType
<1> SUFFICES ASSUME NEW j \in Jobs, NEW plan \in Plans, NEW i \in DOMAIN plan
             PROVE  Cardinality(OnLine(j, plan, i)') + Cardinality(Pending(j, plan, i)')
                       <= plan[i].planned + Cardinality(Tx) - 1
  BY DEF FewOnLine
<1> DEFINE online  == OnLine(j, plan, i)
           pending == Pending(j, plan, i)
<1>6. Pending(j, plan, i)' \subseteq pending \ {t}
  BY <1>5 DEF Pending, IsScan, ThePallet, WroteSteps
<1>7. IsFiniteSet(online) /\ Cardinality(online) \in Nat
  BY OnLineIsFinite
<1>8. IsFiniteSet(pending) /\ Cardinality(pending) \in Nat /\ Cardinality(Tx) \in Nat
  BY PendingIsFinite
<1>9. Cardinality(online) + Cardinality(pending) <= plan[i].planned + Cardinality(Tx) - 1
  BY DEF FewOnLine
<1>10. OnLine(j, plan, i)' \subseteq online \cup {q}
  BY <1>4 DEF OnLine, LoadedIn, IInv, TablesType
<1>11. CASE q \in OnLine(j, plan, i)'
  <2>1. NewStatus(t) = "LOADED" /\ NewJob(t) = j /\ q \in Pallets
        /\ Matching(plan, q) # {} /\ MatchLine(plan, q) = plan[i]
    BY <1>4, <1>11 DEF OnLine, LoadedIn, IInv, TablesType
  <2>2. IsScan(t) /\ req[t].job = j
    BY <2>1, LoadJobsAssumption DEF NewStatus, NewJob
  <2>3. t \in pending
    BY <1>1, <1>3, <2>1, <2>2 DEF Pending, WroteSteps
  <2>4. /\ Cardinality(pending \ {t}) = Cardinality(pending) - 1
        /\ IsFiniteSet(pending \ {t})
    BY <1>8, <2>3, FS_RemoveElement
  <2>5. Cardinality(Pending(j, plan, i)') <= Cardinality(pending) - 1
        /\ Cardinality(Pending(j, plan, i)') \in Nat
    BY <1>6, <2>4, FS_Subset, FS_CardinalityType
  <2>6. Cardinality(online \cup {q}) <= Cardinality(online) + 1 /\ IsFiniteSet(online \cup {q})
        /\ Cardinality(online \cup {q}) \in Nat
    BY <1>7, GrowsByOne
  <2>7. Cardinality(OnLine(j, plan, i)') <= Cardinality(online) + 1
        /\ Cardinality(OnLine(j, plan, i)') \in Nat
    BY <1>7, <1>10, <2>6, FS_Subset, FS_CardinalityType
  <2> QED
    BY <1>7, <1>8, <1>9, <2>5, <2>7, PlannedInNat
<1>12. CASE q \notin OnLine(j, plan, i)'
  <2>1. Cardinality(OnLine(j, plan, i)') <= Cardinality(online)
        /\ Cardinality(OnLine(j, plan, i)') \in Nat
    BY <1>7, <1>10, <1>12, FS_Subset, FS_CardinalityType
  <2>2. Cardinality(Pending(j, plan, i)') <= Cardinality(pending)
        /\ Cardinality(Pending(j, plan, i)') \in Nat
    BY <1>6, <1>8, FS_Subset, FS_CardinalityType
  <2> QED
    BY <1>7, <1>8, <1>9, <2>1, <2>2, PlannedInNat
<1> QED
  BY <1>11, <1>12

LEMMA FewOnLineStep ==
    ASSUME OnePlan, IInv, SeenPlanned, FewOnLine, [Next]_vars
    PROVE  FewOnLine'
<1>1. CASE UNCHANGED vars
  BY <1>1, NoMoreOnLine DEF vars, tables, local, OnLine, LoadedIn, Pending, IsScan, ThePallet
<1>2. CASE Next
  <2>1. PICK t \in Tx : Request(t) \/ Advance(t) \/ Rollback(t)
    BY <1>2 DEF Next
  <2>2. CASE PalletWritten(t)
    BY <2>2, FewWhenWritten
  <2>3. CASE SyncAndCommit(t)
    BY <2>3, FewWhenCommitted
  <2>4. CASE ~PalletWritten(t) /\ ~SyncAndCommit(t)
    <3>1. ASSUME NEW j \in Jobs, NEW plan \in Plans, NEW i \in DOMAIN plan
          PROVE  OnLine(j, plan, i)' \subseteq OnLine(j, plan, i)
      <4>1. \A p \in Pallets : palletStatus'[p] = "LOADED" /\ palletJob'[p] = j
               => palletStatus[p] = "LOADED" /\ palletJob[p] = j
        <5>1. CASE DeleteWrite(t)
          BY <5>1, LoadJobsAssumption DEF DeleteWrite
        <5>2. CASE DepleteAndCommit(t)
          BY <5>2, LoadJobsAssumption DEF DepleteAndCommit
        <5>3. CASE ~DeleteWrite(t) /\ ~DepleteAndCommit(t)
          BY <2>1, <2>4, <5>3, OtherStepsKeepPallets
        <5> QED
          BY <5>1, <5>2, <5>3
      <4> QED
        BY <4>1 DEF OnLine, LoadedIn
    <3>2. \A u \in Tx : pc'[u] \in WroteSteps => pc[u] \in WroteSteps /\ req'[u] = req[u]
      BY <2>1, <2>4, PendingOnlyByWriting DEF IInv
    <3>3. \A j, plan, i : Pending(j, plan, i)' \subseteq Pending(j, plan, i)
      BY <3>2 DEF Pending, IsScan, ThePallet
    <3> QED
      BY <3>1, <3>3, NoMoreOnLine
  <2> QED
    BY <2>2, <2>3, <2>4
<1> QED
  BY <1>1, <1>2

\* However many scans overlap, a line of a plan that nobody changes takes at most
\* one pallet too many for every transaction but one (scan counts what is
\* committed before it, and holds no lock on its load job).
THEOREM OverrunIsBounded ==
    ASSUME OnePlan
    PROVE  Spec => []OverrunBounded
<1>1. IInv /\ FewOnLine => OverrunBounded
  <2> SUFFICES ASSUME IInv, FewOnLine, NEW j \in Jobs, Exists(j), NEW i \in DOMAIN jobPlan[j]
               PROVE  Cardinality(Assigned(j, i)) <= jobPlan[j][i].planned + Cardinality(Tx) - 1
    BY DEF OverrunBounded
  <2>1. jobPlan[j] \in Plans
    BY DEF IInv, PlansKnown
  <2>2. Assigned(j, i) = OnLine(j, jobPlan[j], i)
    BY DEF Assigned, OnLine
  <2> QED
    BY <2>1, <2>2, OnLineIsFinite, PendingIsFinite, PlannedInNat DEF FewOnLine
<1>2. Init => SeenPlanned /\ FewOnLine
  BY SeenPlannedInit, FewOnLineInit
<1>3. IInv /\ SeenPlanned /\ FewOnLine /\ [Next]_vars => SeenPlanned' /\ FewOnLine'
  BY SeenPlannedStep, FewOnLineStep
<1> QED
  BY <1>1, <1>2, <1>3, Invariant, PTL DEF Spec

-----------------------------------------------------------------------------
\* Requests that do not overlap

\* One transaction at a time: what the unlocked reads of a load job promise is
\* kept when nothing comes between them and the commit.
OneAtATime == \A t, u \in Tx : t = u

\* Only a job that runs, or ran, has pallets.
HoldsNothing ==
    \A j \in Jobs : jobStatus[j] \notin {"IN_PROGRESS", "COMPLETED"}
        => \A p \in Pallets : palletJob[p] # j

\* What a request has read of its load job is still so.
SeenCurrent ==
    \A t \in Tx : (pc[t] # "idle" /\ req[t].op # "deplete") =>
        /\ req[t].job \in Jobs
        /\ seen[t] = JobSeen(req[t].job)
        /\ seen[t].status \in {"PLANNED", "IN_PROGRESS"}
        /\ req[t].op \in PalletOps => seen[t].status = "IN_PROGRESS"
        /\ req[t].op = "delete" => seen[t].status = "PLANNED"

\* The steps of an edit of a job, and the checks it has passed.
EditChecked ==
    \A t \in Tx :
        /\ pc[t] \in {"checkPlan", "checkStatus", "startRead", "startWrite"}
              => req[t].op = "update"
        /\ pc[t] = "writeJob" => req[t].op \in {"update", "close", "delete"}
        /\ pc[t] \in {"checkStatus", "writeJob", "startRead", "startWrite"}
              => (req[t].op = "update" => PlanCheckPasses(t))
        /\ pc[t] \in {"writeJob", "startRead", "startWrite"}
              => (req[t].op = "update" => StatusCheckPasses(t))

\* The line of a scan that was accepted still has room.
StillAccepts ==
    \A t \in Tx : pc[t] \in WroteSteps /\ IsScan(t) => LineAccepts(t, ThePallet(t))

TransactionInv == SeenCurrent /\ EditChecked /\ StillAccepts
JobsInv == HoldsNothing /\ PlanCoversLoaded /\ LineLimit

LEMMA EndsConsistent ==
    ASSUME OneAtATime, IInv, NEW t \in Tx, Finish(t)
    PROVE  TransactionInv'
<1>1. \A u \in Tx : pc'[u] = "idle"
  BY DEF OneAtATime, Finish, IInv, LocalType
<1> QED
  BY <1>1 DEF TransactionInv, SeenCurrent, EditChecked, StillAccepts, WroteSteps

LEMMA BeginConsistent ==
    ASSUME OneAtATime, IInv, NEW t \in Tx, NEW first \in {"lock", "checkPlan", "writeJob"},
           NEW r \in Requests, NEW s, Begin(t, first, r, s),
           r.op # "deplete" =>
              /\ r.job \in Jobs /\ s = JobSeen(r.job) /\ s.status \in {"PLANNED", "IN_PROGRESS"}
              /\ r.op \in PalletOps => s.status = "IN_PROGRESS"
              /\ r.op = "delete" => s.status = "PLANNED",
           first = "checkPlan" => r.op = "update",
           first = "writeJob" => r.op \in {"close", "delete"}
    PROVE  TransactionInv' /\ (JobsInv => JobsInv')
<1>1. /\ pc'[t] = first /\ req'[t] = r /\ seen'[t] = s /\ UNCHANGED tables
      /\ \A u \in Tx : u = t
  BY DEF OneAtATime, Begin, IInv, LocalType
<1>2. SeenCurrent'
  BY <1>1 DEF SeenCurrent, JobSeen, tables
<1>3. EditChecked' /\ StillAccepts'
  BY <1>1 DEF EditChecked, StillAccepts, WroteSteps
<1>4. JobsInv => JobsInv'
  BY <1>1 DEF JobsInv, HoldsNothing, PlanCoversLoaded, LineLimit, LoadedIn, Assigned, Exists, tables
<1> QED
  BY <1>2, <1>3, <1>4 DEF TransactionInv

\* Steps of t that write neither the tables nor its request.
LEMMA MoveConsistent ==
    ASSUME OneAtATime, IInv, TransactionInv, JobsInv, NEW t \in Tx, NEW step \in Steps,
           pc[t] # "idle", pc' = [pc EXCEPT ![t] = step], UNCHANGED <<tables, req, seen>>,
           step \in {"checkPlan", "checkStatus", "startRead", "startWrite"} => req[t].op = "update",
           step = "writeJob" => req[t].op \in {"update", "close", "delete"},
           step \in {"checkStatus", "writeJob", "startRead", "startWrite"}
              => (req[t].op = "update" => PlanCheckPasses(t)),
           step \in {"writeJob", "startRead", "startWrite"}
              => (req[t].op = "update" => StatusCheckPasses(t)),
           step \in WroteSteps /\ IsScan(t) => LineAccepts(t, ThePallet(t))
    PROVE  TransactionInv' /\ JobsInv'
<1>1. pc'[t] = step /\ \A u \in Tx : u = t
  BY DEF OneAtATime, IInv, LocalType
<1>2. SeenCurrent'
  BY <1>1 DEF TransactionInv, SeenCurrent, JobSeen, tables
<1>3. EditChecked'
  BY <1>1 DEF EditChecked, PlanCheckPasses, StatusCheckPasses, PlanKeepsLoaded, LoadedForLine,
              LoadedIn, tables
<1>4. StillAccepts'
  BY <1>1 DEF StillAccepts, LineAccepts, LoadedForLine, LoadedIn, IsScan, ThePallet, tables
<1>5. JobsInv'
  BY DEF JobsInv, HoldsNothing, PlanCoversLoaded, LineLimit, LoadedIn, Assigned, Exists, tables
<1> QED
  BY <1>2, <1>3, <1>4, <1>5 DEF TransactionInv

LEMMA RequestConsistent ==
    ASSUME OneAtATime, IInv, TransactionInv, JobsInv, NEW t \in Tx, Request(t)
    PROVE  TransactionInv' /\ JobsInv'
<1>0. \A j \in Jobs : JobSeen(j).status = jobStatus[j]
  BY DEF JobSeen
<1>1. ASSUME NEW j \in Jobs, NEW lines \in Plans, Create(t, j, lines)
      PROVE  TransactionInv' /\ JobsInv'
  <2>1. /\ UNCHANGED <<local, palletStatus, palletJob>> /\ pc[t] = "idle"
        /\ jobStatus[j] = "NONE"
        /\ jobStatus' = [jobStatus EXCEPT ![j] = "PLANNED"]
        /\ jobPlan' = [jobPlan EXCEPT ![j] = lines]
    BY <1>1 DEF Create
  <2>2. \A u \in Tx : pc'[u] = "idle"
    BY <2>1 DEF OneAtATime, local
  <2>3. TransactionInv'
    BY <2>2 DEF TransactionInv, SeenCurrent, EditChecked, StillAccepts, WroteSteps
  <2>4. HoldsNothing' /\ PlanCoversLoaded'
    BY <2>1 DEF JobsInv, HoldsNothing, PlanCoversLoaded, LoadedIn, IInv, TablesType
  <2>5. LineLimit'
    <3> SUFFICES ASSUME NEW k \in Jobs, Exists(k)', NEW i \in DOMAIN jobPlan'[k]
                 PROVE  Cardinality(Assigned(k, i)') <= jobPlan'[k][i].planned
      BY DEF LineLimit
    <3>1. CASE k = j
      <4>1. Assigned(k, i)' = {}
        BY <2>1, <3>1 DEF JobsInv, HoldsNothing, Assigned, LoadedIn
      <4>2. jobPlan'[k] = lines
        BY <2>1, <3>1 DEF IInv, TablesType
      <4>3. Cardinality({}) = 0
        BY FS_EmptySet
      <4> QED
        BY <4>1, <4>2, <4>3, PlannedInNat
    <3>2. CASE k # j
      <4>1. jobPlan'[k] = jobPlan[k] /\ jobStatus'[k] = jobStatus[k]
        BY <2>1, <3>2 DEF IInv, TablesType
      <4>2. Assigned(k, i)' = Assigned(k, i) /\ Exists(k)
        BY <2>1, <4>1 DEF Assigned, LoadedIn, Exists
      <4> QED
        BY <4>1, <4>2 DEF JobsInv, LineLimit
    <3> QED
      BY <3>1, <3>2
  <2> QED
    BY <2>3, <2>4, <2>5 DEF JobsInv
<1>2. ASSUME NEW j \in Jobs, NEW lines \in Plans \cup {Same}, NEW status \in JobStates,
             NEW dock \in DockEdits, UpdateRead(t, j, lines, status, dock)
      PROVE  TransactionInv' /\ JobsInv'
  <2> DEFINE r == [NoRequest EXCEPT !.op = "update", !.job = j, !.lines = lines,
                                    !.status = status, !.dock = dock]
  <2>1. r \in Requests /\ r.op = "update" /\ r.job = j
    BY LoadJobsAssumption DEF NoRequest, Requests, Endpoints, JobStates
  <2>2. Begin(t, "checkPlan", r, JobSeen(j)) /\ JobSeen(j).status \in {"PLANNED", "IN_PROGRESS"}
    BY <1>0, <1>2 DEF UpdateRead
  <2> QED
    BY <2>1, <2>2, BeginConsistent DEF PalletOps
<1>3. ASSUME NEW j \in Jobs, NEW dock \in DockEdits, CloseRead(t, j, dock)
      PROVE  TransactionInv' /\ JobsInv'
  <2> DEFINE r == [NoRequest EXCEPT !.op = "close", !.job = j, !.dock = dock]
  <2>1. r \in Requests /\ r.op = "close" /\ r.job = j
    BY LoadJobsAssumption DEF NoRequest, Requests, Endpoints, JobStates
  <2>2. Begin(t, "writeJob", r, JobSeen(j)) /\ JobSeen(j).status \in {"PLANNED", "IN_PROGRESS"}
    BY <1>0, <1>3 DEF CloseRead
  <2> QED
    BY <2>1, <2>2, BeginConsistent DEF PalletOps
<1>4. ASSUME NEW j \in Jobs, DeleteRead(t, j)
      PROVE  TransactionInv' /\ JobsInv'
  <2> DEFINE r == [NoRequest EXCEPT !.op = "delete", !.job = j]
  <2>1. r \in Requests /\ r.op = "delete" /\ r.job = j
    BY DEF NoRequest, Requests, Endpoints, JobStates
  <2>2. Begin(t, "writeJob", r, JobSeen(j)) /\ JobSeen(j).status = "PLANNED"
    BY <1>0, <1>4 DEF DeleteRead
  <2> QED
    BY <2>1, <2>2, BeginConsistent DEF PalletOps
<1>5. ASSUME NEW j \in Jobs, NEW p \in Pallets, NEW op \in {"scan", "override"},
             ScanRead(t, j, p, op)
      PROVE  TransactionInv' /\ JobsInv'
  <2> DEFINE r == [NoRequest EXCEPT !.op = op, !.job = j, !.pals = {p}]
  <2>1. r \in Requests /\ r.op = op /\ r.job = j
    BY DEF NoRequest, Requests, Endpoints, JobStates
  <2>2. Begin(t, "lock", r, JobSeen(j)) /\ JobSeen(j).status = "IN_PROGRESS"
    BY <1>0, <1>5 DEF ScanRead
  <2> QED
    BY <2>1, <2>2, BeginConsistent
<1>6. ASSUME NEW j \in Jobs, NEW p \in Pallets, ReverseRead(t, j, p)
      PROVE  TransactionInv' /\ JobsInv'
  <2> DEFINE r == [NoRequest EXCEPT !.op = "reverse", !.job = j, !.pals = {p}]
  <2>1. r \in Requests /\ r.op = "reverse" /\ r.job = j
    BY DEF NoRequest, Requests, Endpoints, JobStates
  <2>2. Begin(t, "lock", r, JobSeen(j)) /\ JobSeen(j).status = "IN_PROGRESS"
    BY <1>0, <1>6 DEF ReverseRead
  <2> QED
    BY <2>1, <2>2, BeginConsistent
<1>7. ASSUME NEW d \in Dests, NEW ps \in SUBSET Pallets, DepleteSelect(t, d, ps)
      PROVE  TransactionInv' /\ JobsInv'
  <2> DEFINE r == [NoRequest EXCEPT !.op = "deplete", !.pals = ps]
  <2>1. r \in Requests /\ r.op = "deplete"
    BY DEF NoRequest, Requests, Endpoints, JobStates
  <2>2. Begin(t, "lock", r, NothingSeen)
    BY <1>7 DEF DepleteSelect
  <2> QED
    BY <2>1, <2>2, BeginConsistent
<1> QED
  BY <1>1, <1>2, <1>3, <1>4, <1>5, <1>6, <1>7 DEF Request

LEMMA InnerStepConsistent ==
    ASSUME OneAtATime, IInv, TransactionInv, JobsInv, NEW t \in Tx,
           \/ \E p \in Pallets : LockPalletRow(t, p)
           \/ PalletWritten(t)
           \/ SyncReadContainer(t) \/ SyncCountActive(t) \/ SyncCountLoaded(t)
           \/ UpdateCheckPlan(t) \/ UpdateCheckStatus(t) \/ UpdateStart(t)
           \/ \E c \in Containers : StartVisit(t, c)
           \/ StartWriteContainer(t)
    PROVE  TransactionInv' /\ JobsInv'
<1>1. CASE \E p \in Pallets : LockPalletRow(t, p)
  <2>1. /\ pc[t] = "lock" /\ UNCHANGED <<tables, req, seen>>
        /\ \E step \in {"lock", "decide"} : pc' = [pc EXCEPT ![t] = step]
    BY <1>1 DEF LockPalletRow, Goto, IInv, LocalType
  <2> QED
    BY <2>1, MoveConsistent DEF Steps, WroteSteps
<1>2. CASE PalletWritten(t)
  <2>1. /\ pc[t] = "decide" /\ UNCHANGED <<tables, req, seen>> /\ Accepted(t, ThePallet(t))
        /\ pc' = [pc EXCEPT ![t] = "readContainer"]
    BY <1>2 DEF PalletWritten, Goto
  <2>2. IsScan(t) => LineAccepts(t, ThePallet(t))
    BY <2>1 DEF Accepted, ScanAccepted
  <2> QED
    BY <2>1, <2>2, MoveConsistent DEF Steps
<1>3. CASE SyncReadContainer(t) \/ SyncCountActive(t) \/ SyncCountLoaded(t)
  <2>1. /\ pc[t] \in WroteSteps /\ UNCHANGED <<tables, req, seen>>
        /\ \E step \in WroteSteps : pc' = [pc EXCEPT ![t] = step]
    BY <1>3 DEF SyncReadContainer, SyncCountActive, SyncCountLoaded, Goto, WroteSteps
  <2>2. IsScan(t) => LineAccepts(t, ThePallet(t))
    BY <2>1 DEF TransactionInv, StillAccepts
  <2> QED
    BY <2>1, <2>2, MoveConsistent DEF Steps, WroteSteps
<1>4. CASE UpdateCheckPlan(t) \/ UpdateCheckStatus(t) \/ UpdateStart(t)
  <2>1. UNCHANGED <<tables, req, seen>> /\ req[t].op = "update" /\ pc[t] # "idle"
    BY <1>4 DEF UpdateCheckPlan, UpdateCheckStatus, UpdateStart, TransactionInv, EditChecked
  <2>2. CASE UpdateCheckPlan(t)
    <3>1. pc' = [pc EXCEPT ![t] = "checkStatus"] /\ PlanCheckPasses(t)
      BY <2>2 DEF UpdateCheckPlan, Goto
    <3> QED
      BY <2>1, <3>1, MoveConsistent DEF Steps, WroteSteps
  <2>3. CASE UpdateCheckStatus(t)
    <3>1. pc' = [pc EXCEPT ![t] = "writeJob"] /\ StatusCheckPasses(t) /\ PlanCheckPasses(t)
      BY <2>1, <2>3 DEF UpdateCheckStatus, Goto, TransactionInv, EditChecked
    <3> QED
      BY <2>1, <3>1, MoveConsistent DEF Steps, WroteSteps
  <2>4. CASE UpdateStart(t)
    <3>1. pc' = [pc EXCEPT ![t] = "startRead"] /\ StatusCheckPasses(t) /\ PlanCheckPasses(t)
      BY <2>1, <2>4 DEF UpdateStart, Goto, TransactionInv, EditChecked
    <3> QED
      BY <2>1, <3>1, MoveConsistent DEF Steps, WroteSteps
  <2> QED
    BY <1>4, <2>2, <2>3, <2>4
<1>5. CASE StartWriteContainer(t) \/ \E c \in Containers : StartVisit(t, c)
  <2>1. /\ pc[t] \in {"startRead", "startWrite"} /\ UNCHANGED <<tables, req, seen>>
        /\ \E step \in {"startRead", "startWrite"} : pc' = [pc EXCEPT ![t] = step]
    BY <1>5 DEF StartWriteContainer, StartVisit, Goto, IInv, LocalType
  <2>2. req[t].op = "update" /\ StatusCheckPasses(t) /\ PlanCheckPasses(t)
    BY <2>1 DEF TransactionInv, EditChecked
  <2> QED
    BY <2>1, <2>2, MoveConsistent DEF Steps, WroteSteps
<1> QED
  BY <1>1, <1>2, <1>3, <1>4, <1>5

LEMMA SeenFacts ==
    ASSUME TransactionInv, NEW t \in Tx, pc[t] # "idle", req[t].op # "deplete"
    PROVE  /\ req[t].job \in Jobs
           /\ seen[t].status = jobStatus[req[t].job] /\ seen[t].plan = jobPlan[req[t].job]
           /\ seen[t].status \in {"PLANNED", "IN_PROGRESS"}
           /\ req[t].op \in PalletOps => seen[t].status = "IN_PROGRESS"
<1>1. /\ req[t].job \in Jobs /\ seen[t] = JobSeen(req[t].job)
      /\ seen[t].status \in {"PLANNED", "IN_PROGRESS"}
      /\ req[t].op \in PalletOps => seen[t].status = "IN_PROGRESS"
  BY DEF TransactionInv, SeenCurrent
<1>2. /\ JobSeen(req[t].job).status = jobStatus[req[t].job]
      /\ JobSeen(req[t].job).plan = jobPlan[req[t].job]
  BY DEF JobSeen
<1> QED
  BY <1>1, <1>2

\* What has the line i of load job j, in the terms of the bound on overruns.
LEMMA AssignedOnLine ==
    ASSUME NEW j, NEW i
    PROVE  Assigned(j, i) = OnLine(j, jobPlan[j], i)
  BY DEF Assigned, OnLine

\* Steps after which no job has a pallet it had not, and plans stay.
LEMMA JobsShrink ==
    ASSUME IInv, JobsInv,
           \A p \in Pallets : palletJob'[p] \in Jobs => /\ palletJob'[p] = palletJob[p]
                                                    /\ palletStatus'[p] = palletStatus[p],
           \A j \in Jobs : Exists(j)' => Exists(j) /\ jobPlan'[j] = jobPlan[j],
           \A j \in Jobs : jobStatus'[j] = "IN_PROGRESS" => jobStatus[j] = "IN_PROGRESS",
           \A j \in Jobs : jobStatus'[j] \notin {"IN_PROGRESS", "COMPLETED"}
              => \A p \in Pallets : palletJob'[p] # j
    PROVE  JobsInv'
<1>1. \A j \in Jobs : LoadedIn(j)' \subseteq LoadedIn(j)
  BY DEF LoadedIn
<1>2. HoldsNothing'
  BY DEF HoldsNothing
<1>3. PlanCoversLoaded'
  BY <1>1 DEF JobsInv, PlanCoversLoaded, Exists, JobStates
<1>4. LineLimit'
  <2> SUFFICES ASSUME NEW j \in Jobs, Exists(j)', NEW i \in DOMAIN jobPlan'[j]
               PROVE  Cardinality(Assigned(j, i)') <= jobPlan'[j][i].planned
    BY DEF LineLimit
  <2>1. Exists(j) /\ jobPlan'[j] = jobPlan[j] /\ jobPlan[j] \in Plans
    BY DEF IInv, PlansKnown
  <2>2. Assigned(j, i)' \subseteq Assigned(j, i)
    BY <1>1, <2>1 DEF Assigned
  <2>3. Cardinality(Assigned(j, i)) <= jobPlan[j][i].planned
    BY <2>1 DEF JobsInv, LineLimit
  <2>4. IsFiniteSet(Assigned(j, i)) /\ Cardinality(Assigned(j, i)) \in Nat
    BY AssignedOnLine, OnLineIsFinite
  <2>5. /\ Cardinality(Assigned(j, i)') <= Cardinality(Assigned(j, i))
        /\ Cardinality(Assigned(j, i)') \in Nat
    BY <2>2, <2>4, FS_Subset, FS_CardinalityType
  <2> QED
    BY <2>1, <2>3, <2>4, <2>5, PlannedInNat
<1> QED
  BY <1>2, <1>3, <1>4 DEF JobsInv

LEMMA ScanCommitKeepsJobs ==
    ASSUME IInv, TransactionInv, JobsInv, NEW t \in Tx, SyncAndCommit(t)
    PROVE  JobsInv'
<1>1. pc[t] = "commitScan" /\ UNCHANGED <<jobStatus, jobPlan, jobDock>>
  BY DEF SyncAndCommit
<1>2. PICK q \in Pallets : req[t].pals = {q}
  BY <1>1 DEF IInv, OnePalletEach, WroteSteps
<1>3. ThePallet(t) = q
  BY <1>2 DEF ThePallet
<1>4. /\ palletStatus' = [palletStatus EXCEPT ![q] = NewStatus(t)]
      /\ palletJob' = [palletJob EXCEPT ![q] = NewJob(t)]
  BY <1>3 DEF SyncAndCommit
<1>5. req[t].op \in PalletOps
  BY <1>1 DEF IInv, OnePalletEach, WroteSteps
<1>6. CASE ~IsScan(t)
  <2>1. NewJob(t) = NoJob
    BY <1>6 DEF NewJob
  <2>2. \A p \in Pallets : palletJob'[p] \in Jobs => /\ palletJob'[p] = palletJob[p]
                                                 /\ palletStatus'[p] = palletStatus[p]
    BY <1>4, <2>1, LoadJobsAssumption DEF IInv, TablesType
  <2>3. \A j \in Jobs : jobStatus'[j] \notin {"IN_PROGRESS", "COMPLETED"}
              => \A p \in Pallets : palletJob'[p] # j
    BY <1>1, <2>2 DEF JobsInv, HoldsNothing
  <2> QED
    BY <1>1, <2>2, <2>3, JobsShrink DEF Exists
<1>7. CASE IsScan(t)
  <2>1. PICK job \in Jobs, plan \in Plans :
           /\ job = req[t].job /\ plan = seen[t].plan
           /\ jobStatus[job] = "IN_PROGRESS" /\ plan = jobPlan[job]
    <3>1. req[t].op # "deplete" /\ pc[t] # "idle"
      BY <1>1, <1>5 DEF PalletOps
    <3>2. /\ req[t].job \in Jobs /\ jobStatus[req[t].job] = "IN_PROGRESS"
          /\ seen[t].plan = jobPlan[req[t].job]
      BY <1>5, <3>1, SeenFacts
    <3>3. Exists(req[t].job)
      BY <3>2 DEF Exists, JobStates
    <3> QED
      BY <3>2, <3>3 DEF IInv, PlansKnown
  <2>2. LineAccepts(t, q)
    BY <1>1, <1>3, <1>7 DEF TransactionInv, StillAccepts, WroteSteps
  <2>3. NewStatus(t) = "LOADED" /\ NewJob(t) = job
    BY <1>7, <2>1 DEF NewStatus, NewJob
  <2>4. /\ \A j \in Jobs : j # job => LoadedIn(j)' \subseteq LoadedIn(j)
        /\ LoadedIn(job)' = LoadedIn(job) \cup {q}
    <3>1. /\ palletStatus'[q] = "LOADED" /\ palletJob'[q] = job
          /\ \A p \in Pallets : p # q => /\ palletStatus'[p] = palletStatus[p]
                                         /\ palletJob'[p] = palletJob[p]
      BY <1>4, <2>3 DEF IInv, TablesType
    <3> QED
      BY <3>1 DEF LoadedIn
  <2>5. HoldsNothing'
    BY <1>1, <1>4, <2>1, <2>3 DEF JobsInv, HoldsNothing, IInv, TablesType
  <2>6. PlanCoversLoaded'
    <3>1. Matching(jobPlan[job], q) # {}
      BY <2>1, <2>2 DEF LineAccepts
    <3> SUFFICES ASSUME NEW j \in Jobs, jobStatus[j] = "IN_PROGRESS", NEW p \in LoadedIn(j)'
                 PROVE  Matching(jobPlan[j], p) # {}
      BY <1>1 DEF PlanCoversLoaded
    <3>2. p \in LoadedIn(j) \/ (j = job /\ p = q)
      BY <2>4
    <3> QED
      BY <3>1, <3>2 DEF JobsInv, PlanCoversLoaded
  <2>7. LineLimit'
    <3> SUFFICES ASSUME NEW j \in Jobs, Exists(j), NEW i \in DOMAIN jobPlan[j]
                 PROVE  Cardinality(Assigned(j, i)') <= jobPlan[j][i].planned
      BY <1>1 DEF LineLimit, Exists
    <3>1. IsFiniteSet(Assigned(j, i)) /\ Cardinality(Assigned(j, i)) \in Nat
      BY AssignedOnLine, OnLineIsFinite
    <3>2. Cardinality(Assigned(j, i)) <= jobPlan[j][i].planned
      BY DEF JobsInv, LineLimit
    <3>3. jobPlan[j] \in Plans /\ jobPlan[j][i].planned \in Nat \ {0}
      BY PlannedInNat DEF IInv, PlansKnown
    <3>4. CASE Assigned(j, i)' \subseteq Assigned(j, i)
      <4>1. /\ Cardinality(Assigned(j, i)') <= Cardinality(Assigned(j, i))
            /\ Cardinality(Assigned(j, i)') \in Nat
        BY <3>1, <3>4, FS_Subset, FS_CardinalityType
      <4> QED
        BY <3>1, <3>2, <3>3, <4>1
    <3>5. CASE ~(Assigned(j, i)' \subseteq Assigned(j, i))
      <4>1. j = job /\ MatchLine(plan, q) = plan[i]
            /\ Assigned(j, i)' \subseteq Assigned(j, i) \cup {q}
        <5>1. \A p : p \in Assigned(j, i)' <=>
                  /\ p \in LoadedIn(j)' /\ MatchLine(jobPlan[j], p) = jobPlan[j][i]
                  /\ Matching(jobPlan[j], p) # {}
          BY <1>1 DEF Assigned
        <5>2. \A p : p \in Assigned(j, i) <=>
                  /\ p \in LoadedIn(j) /\ MatchLine(jobPlan[j], p) = jobPlan[j][i]
                  /\ Matching(jobPlan[j], p) # {}
          BY DEF Assigned
        <5>3. j = job
          BY <2>4, <3>5, <5>1, <5>2
        <5>4. Assigned(j, i)' \subseteq Assigned(j, i) \cup {q}
          BY <2>4, <5>1, <5>2, <5>3
        <5>5. MatchLine(jobPlan[j], q) = jobPlan[j][i]
          BY <3>5, <5>1, <5>4
        <5> QED
          BY <2>1, <5>3, <5>4, <5>5
      <4>2. Cardinality(OnLine(job, plan, i)) <= plan[i].planned - 1
        BY <2>1, <2>2, <4>1, AcceptedBelowLimit
      <4>3. Cardinality(Assigned(j, i)) <= jobPlan[j][i].planned - 1
        BY <2>1, <4>1, <4>2, AssignedOnLine
      <4>4. /\ IsFiniteSet(Assigned(j, i) \cup {q})
            /\ Cardinality(Assigned(j, i) \cup {q}) \in Nat
            /\ Cardinality(Assigned(j, i) \cup {q}) <= Cardinality(Assigned(j, i)) + 1
        BY <3>1, GrowsByOne
      <4>5. /\ Cardinality(Assigned(j, i)') <= Cardinality(Assigned(j, i) \cup {q})
            /\ Cardinality(Assigned(j, i)') \in Nat
        BY <4>1, <4>4, FS_Subset, FS_CardinalityType
      <4> QED
        BY <3>1, <3>3, <4>3, <4>4, <4>5
    <3> QED
      BY <3>4, <3>5
  <2> QED
    BY <2>5, <2>6, <2>7 DEF JobsInv
<1> QED
  BY <1>6, <1>7

LEMMA JobWriteKeepsJobs ==
    ASSUME IInv, TransactionInv, JobsInv, NEW t \in Tx, UpdateWrite(t) \/ StartCommit(t)
    PROVE  JobsInv'
<1> DEFINE j == req[t].job
<1>1. UNCHANGED <<palletStatus, palletJob>> /\ WriteJob(t)
  BY DEF UpdateWrite, StartCommit
<1>2. pc[t] \in {"writeJob", "startRead"} /\ req[t].op = "update"
  BY DEF UpdateWrite, StartCommit, TransactionInv, EditChecked
<1>3. PlanCheckPasses(t) /\ StatusCheckPasses(t)
  BY <1>2 DEF TransactionInv, EditChecked
<1>4. /\ j \in Jobs /\ jobStatus[j] = seen[t].status
      /\ jobStatus[j] \in {"PLANNED", "IN_PROGRESS"} /\ Exists(j)
  BY <1>2, SeenFacts DEF Exists, JobStates
<1>5. /\ jobStatus' = [jobStatus EXCEPT ![j] = req[t].status]
      /\ jobPlan' = [jobPlan EXCEPT ![j] = IF req[t].lines = Same THEN @ ELSE req[t].lines]
  BY <1>1, <1>4 DEF WriteJob, IInv, TablesType
<1>6. req[t].lines \in Plans \cup {Same} /\ req[t].status \in JobStates
  BY DEF IInv, LocalType, Requests
<1>7. \A k \in Jobs : LoadedIn(k)' = LoadedIn(k)
  BY <1>1 DEF LoadedIn
<1>8. \A p \in Pallets : palletJob[p] \in Jobs => p \in LoadedIn(palletJob[p])
  BY LoadJobsAssumption DEF IInv, OnlyLoadedInJob, LoadedIn
<1>9. jobStatus[j] = "PLANNED" => LoadedIn(j) = {}
  BY <1>4 DEF JobsInv, HoldsNothing, LoadedIn
<1>10. \A k \in Jobs : k # j => jobStatus'[k] = jobStatus[k] /\ jobPlan'[k] = jobPlan[k]
  BY <1>4, <1>5 DEF IInv, TablesType
<1>11. /\ jobStatus'[j] = req[t].status
       /\ jobPlan'[j] = IF req[t].lines = Same THEN jobPlan[j] ELSE req[t].lines
  BY <1>4, <1>5 DEF IInv, TablesType
<1>12. HoldsNothing'
  <2>1. req[t].status = "PLANNED" => LoadedIn(j) = {}
    BY <1>3, <1>4, <1>9 DEF StatusCheckPasses
  <2> QED
    BY <1>1, <1>6, <1>8, <1>10, <1>11, <2>1 DEF JobsInv, HoldsNothing, JobStates
<1>13. PlanCoversLoaded'
  <2> SUFFICES ASSUME NEW k \in Jobs, jobStatus'[k] = "IN_PROGRESS", NEW p \in LoadedIn(k)
               PROVE  Matching(jobPlan'[k], p) # {}
    BY <1>7 DEF PlanCoversLoaded
  <2>1. CASE k # j
    BY <1>10, <2>1 DEF JobsInv, PlanCoversLoaded
  <2>2. CASE k = j
    <3>1. jobStatus[j] = "IN_PROGRESS"
      BY <1>4, <1>9, <2>2
    <3>2. CASE req[t].lines = Same
      BY <1>11, <2>2, <3>1, <3>2 DEF JobsInv, PlanCoversLoaded
    <3>3. CASE req[t].lines # Same
      BY <1>3, <1>4, <1>11, <2>2, <3>1, <3>3 DEF PlanCheckPasses, PlanKeepsLoaded
    <3> QED
      BY <3>2, <3>3
  <2> QED
    BY <2>1, <2>2
<1>14. LineLimit'
  <2> SUFFICES ASSUME NEW k \in Jobs, Exists(k)', NEW i \in DOMAIN jobPlan'[k]
               PROVE  Cardinality(Assigned(k, i)') <= jobPlan'[k][i].planned
    BY DEF LineLimit
  <2>1. CASE jobPlan'[k] = jobPlan[k]
    <3>1. Exists(k)
      BY <1>4, <1>10 DEF Exists
    <3>2. Assigned(k, i)' = Assigned(k, i)
      BY <1>7, <2>1 DEF Assigned
    <3> QED
      BY <2>1, <3>1, <3>2 DEF JobsInv, LineLimit
  <2>2. CASE jobPlan'[k] # jobPlan[k]
    <3> DEFINE lines == req[t].lines
               covered == {p \in LoadedIn(j) : Covers(lines[i].scope, p)}
    <3>1. k = j /\ lines \in Plans /\ jobPlan'[k] = lines /\ lines # Same
      BY <1>6, <1>10, <1>11, <2>2
    <3>2. Assigned(k, i)' = OnLine(j, lines, i)
      BY <1>7, <3>1 DEF Assigned, OnLine
    <3>3. CASE jobStatus[j] = "PLANNED"
      <4>1. OnLine(j, lines, i) = {}
        BY <1>9, <3>3 DEF OnLine
      <4>2. Cardinality({}) = 0
        BY FS_EmptySet
      <4> QED
        BY <3>1, <3>2, <4>1, <4>2, PlannedInNat
    <3>4. CASE jobStatus[j] = "IN_PROGRESS"
      <4>1. Cardinality(covered) <= lines[i].planned
        BY <1>3, <1>4, <3>1, <3>4 DEF PlanCheckPasses, PlanKeepsLoaded, LoadedForLine
      <4>2. OnLine(j, lines, i) \subseteq covered
        BY <3>1, OnLineCovered
      <4>3. IsFiniteSet(covered)
        BY FS_Subset, LoadJobsAssumption DEF LoadedIn
      <4>4. /\ Cardinality(OnLine(j, lines, i)) <= Cardinality(covered)
            /\ Cardinality(covered) \in Nat /\ Cardinality(OnLine(j, lines, i)) \in Nat
        BY <4>2, <4>3, FS_Subset, FS_CardinalityType
      <4>5. lines[i].planned \in Nat \ {0}
        BY <3>1, PlannedInNat
      <4> QED
        BY <3>1, <3>2, <4>1, <4>4, <4>5
    <3> QED
      BY <1>4, <3>3, <3>4
  <2> QED
    BY <2>1, <2>2
<1> QED
  BY <1>12, <1>13, <1>14 DEF JobsInv

LEMMA EndKeepsJobs ==
    ASSUME IInv, TransactionInv, JobsInv, NEW t \in Tx,
           CloseWrite(t) \/ DeleteWrite(t) \/ DepleteAndCommit(t)
    PROVE  JobsInv'
<1>1. CASE CloseWrite(t)
  <2>1. /\ UNCHANGED <<jobPlan, palletStatus, palletJob>>
        /\ jobStatus' = [jobStatus EXCEPT ![req[t].job] = "COMPLETED"]
        /\ Exists(req[t].job) /\ req[t].job \in Jobs
    BY <1>1 DEF CloseWrite, IInv, LocalType, Requests
  <2>2. \A j \in Jobs : \/ jobStatus'[j] = jobStatus[j]
                        \/ (j = req[t].job /\ jobStatus'[j] = "COMPLETED")
    BY <2>1 DEF IInv, TablesType
  <2>3. \A j \in Jobs : Exists(j)' => Exists(j) /\ jobPlan'[j] = jobPlan[j]
    BY <2>1, <2>2 DEF Exists
  <2>4. \A j \in Jobs : jobStatus'[j] \notin {"IN_PROGRESS", "COMPLETED"}
              => \A p \in Pallets : palletJob'[p] # j
    BY <2>1, <2>2 DEF JobsInv, HoldsNothing
  <2> QED
    BY <2>1, <2>2, <2>3, <2>4, JobsShrink
<1>2. CASE DeleteWrite(t)
  <2> DEFINE j == req[t].job
  <2>1. /\ UNCHANGED palletStatus /\ j \in Jobs
        /\ jobStatus' = [jobStatus EXCEPT ![j] = "DELETED"]
        /\ jobPlan' = [jobPlan EXCEPT ![j] = Same]
        /\ palletJob' = [p \in Pallets |-> IF palletJob[p] = j THEN NoJob ELSE palletJob[p]]
    BY <1>2 DEF DeleteWrite, IInv, LocalType, Requests
  <2>2. /\ \A k \in Jobs : k # j => jobStatus'[k] = jobStatus[k] /\ jobPlan'[k] = jobPlan[k]
        /\ jobStatus'[j] = "DELETED"
    BY <2>1 DEF IInv, TablesType
  <2>3. \A k \in Jobs : Exists(k)' => Exists(k) /\ jobPlan'[k] = jobPlan[k]
    BY <2>2 DEF Exists, JobStates
  <2>4. \A p \in Pallets : palletJob'[p] \in Jobs => /\ palletJob'[p] = palletJob[p]
                                                 /\ palletStatus'[p] = palletStatus[p]
    BY <2>1, LoadJobsAssumption
  <2>5. \A k \in Jobs : jobStatus'[k] \notin {"IN_PROGRESS", "COMPLETED"}
              => \A p \in Pallets : palletJob'[p] # k
    BY <2>1, <2>2, LoadJobsAssumption DEF JobsInv, HoldsNothing
  <2> QED
    BY <2>2, <2>3, <2>4, <2>5, JobsShrink
<1>3. CASE DepleteAndCommit(t)
  <2>1. /\ UNCHANGED <<jobStatus, jobPlan>>
        /\ \A p \in Pallets : /\ palletJob'[p] = IF p \in req[t].pals THEN NoJob ELSE palletJob[p]
                              /\ p \notin req[t].pals => palletStatus'[p] = palletStatus[p]
    BY <1>3 DEF DepleteAndCommit
  <2>2. \A p \in Pallets : palletJob'[p] \in Jobs => /\ palletJob'[p] = palletJob[p]
                                                 /\ palletStatus'[p] = palletStatus[p]
    BY <2>1, LoadJobsAssumption
  <2>3. \A j \in Jobs : jobStatus'[j] \notin {"IN_PROGRESS", "COMPLETED"}
              => \A p \in Pallets : palletJob'[p] # j
    BY <2>1, <2>2 DEF JobsInv, HoldsNothing
  <2> QED
    BY <2>1, <2>2, <2>3, JobsShrink DEF Exists
<1> QED
  BY <1>1, <1>2, <1>3

LEMMA SequentialStep ==
    ASSUME OneAtATime, IInv, TransactionInv, JobsInv, [Next]_vars
    PROVE  TransactionInv' /\ JobsInv'
<1>0. ASSUME UNCHANGED tables PROVE JobsInv'
  BY <1>0 DEF JobsInv, HoldsNothing, PlanCoversLoaded, LineLimit, LoadedIn, Assigned, Exists, tables
<1>1. CASE UNCHANGED vars
  <2>1. TransactionInv'
    BY <1>1 DEF TransactionInv, SeenCurrent, JobSeen, EditChecked, StillAccepts, PlanCheckPasses,
                StatusCheckPasses, PlanKeepsLoaded, LoadedForLine, LoadedIn, LineAccepts,
                IsScan, ThePallet, vars, tables, local
  <2> QED
    BY <1>0, <1>1, <2>1 DEF vars
<1>2. CASE Next
  <2>1. PICK t \in Tx : Request(t) \/ Advance(t) \/ Rollback(t)
    BY <1>2 DEF Next
  <2>2. CASE Request(t)
    BY <2>2, RequestConsistent
  <2>3. ASSUME Finish(t), UNCHANGED tables PROVE TransactionInv' /\ JobsInv'
    BY <1>0, <2>3, EndsConsistent
  <2>4. CASE Rollback(t) \/ PalletRefused(t) \/ UpdateRefused(t) \/ DepleteRefused(t)
    BY <2>3, <2>4 DEF Rollback, PalletRefused, UpdateRefused, DepleteRefused
  <2>5. CASE SyncAndCommit(t)
    BY <2>5, ScanCommitKeepsJobs, EndsConsistent DEF SyncAndCommit
  <2>6. CASE UpdateWrite(t) \/ StartCommit(t)
    BY <2>6, JobWriteKeepsJobs, EndsConsistent DEF UpdateWrite, StartCommit
  <2>7. CASE CloseWrite(t) \/ DeleteWrite(t) \/ DepleteAndCommit(t)
    BY <2>7, EndKeepsJobs, EndsConsistent DEF CloseWrite, DeleteWrite, DepleteAndCommit
  <2>8. CASE Advance(t) /\ ~(PalletRefused(t) \/ UpdateRefused(t) \/ DepleteRefused(t)
              \/ SyncAndCommit(t) \/ UpdateWrite(t) \/ StartCommit(t)
              \/ CloseWrite(t) \/ DeleteWrite(t) \/ DepleteAndCommit(t))
    BY <2>8, InnerStepConsistent DEF Advance
  <2> QED
    BY <2>1, <2>2, <2>4, <2>5, <2>6, <2>7, <2>8
<1> QED
  BY <1>1, <1>2

LEMMA SequentialInit == Init => TransactionInv /\ JobsInv
<1> SUFFICES ASSUME Init PROVE TransactionInv /\ JobsInv
  OBVIOUS
<1>1. TransactionInv
  BY DEF Init, TransactionInv, SeenCurrent, EditChecked, StillAccepts, WroteSteps
<1>2. JobsInv
  BY LoadJobsAssumption DEF Init, JobsInv, HoldsNothing, PlanCoversLoaded, LineLimit, Exists,
                            JobStates, LoadedIn
<1> QED
  BY <1>1, <1>2

LEMMA SequentialInvariant ==
    ASSUME OneAtATime
    PROVE  Spec => [](IInv /\ TransactionInv /\ JobsInv)
<1>1. Init => IInv /\ TransactionInv /\ JobsInv
  BY InitHolds, SequentialInit
<1>2. IInv /\ TransactionInv /\ JobsInv /\ [Next]_vars => (IInv /\ TransactionInv /\ JobsInv)'
  BY StepKeeps, SequentialStep
<1> QED
  BY <1>1, <1>2, PTL DEF Spec

\* Where requests do not overlap, no line takes a pallet more than it plans, for all
\* plans, however they are edited (docs/architecture/02-data-model.md).
THEOREM SequentialLineLimit ==
    ASSUME OneAtATime
    PROVE  Spec => []LineLimit
  BY SequentialInvariant, PTL DEF JobsInv

\* ... and the plan of a running job covers what the job has loaded.
THEOREM SequentialPlanCovers ==
    ASSUME OneAtATime
    PROVE  Spec => []PlanCoversLoaded
  BY SequentialInvariant, PTL DEF JobsInv

\* ... and a completed job stays as it was: the status that every writer of a job
\* read first is still the job's when it writes.
THEOREM SequentialCompletedFinal ==
    ASSUME OneAtATime
    PROVE  Spec => CompletedIsFinal
<1> DEFINE Final == \A j \in Jobs : jobStatus[j] = "COMPLETED"
              => jobStatus'[j] = "COMPLETED" /\ LoadedIn(j)' \subseteq LoadedIn(j)
<1>1. IInv /\ TransactionInv /\ [Next]_vars => Final
  <2> SUFFICES ASSUME IInv, TransactionInv, [Next]_vars, NEW j \in Jobs,
                      jobStatus[j] = "COMPLETED"
               PROVE  jobStatus'[j] = "COMPLETED" /\ LoadedIn(j)' \subseteq LoadedIn(j)
    OBVIOUS
  <2>1. \A t \in Tx : pc[t] # "idle" /\ req[t].op # "deplete" => req[t].job # j
    BY SeenFacts
  <2>2. LoadedIn(j)' \subseteq LoadedIn(j)
    <3> SUFFICES ASSUME NEW p \in Pallets, palletStatus'[p] = "LOADED", palletJob'[p] = j
                 PROVE  palletStatus[p] = "LOADED" /\ palletJob[p] = j
      BY DEF LoadedIn
    <3>1. \A t \in Tx : ~ScanCommits(t, p)
      BY <2>1, LoadJobsAssumption DEF ScanCommits, NewJob, IsScan
    <3> QED
      BY <3>1, EachPalletStep, LoadJobsAssumption
         DEF PalletStep, IsUntouched, IsDepleted, LosesItsJob
  <2>3. jobStatus'[j] = "COMPLETED"
    <3>1. CASE UNCHANGED vars
      BY <3>1 DEF vars, tables
    <3>2. ASSUME NEW t \in Tx, Request(t) \/ Advance(t) \/ Rollback(t)
          PROVE  jobStatus'[j] = jobStatus[j]
      <4>1. CASE Request(t)
        BY <4>1 DEF Request, Create, UpdateRead, CloseRead, DeleteRead, ScanRead, ReverseRead,
                    DepleteSelect, Begin, tables, IInv, TablesType
      <4>2. CASE Rollback(t)
        BY <4>2 DEF Rollback, tables
      <4>3. CASE UpdateWrite(t) \/ StartCommit(t) \/ CloseWrite(t) \/ DeleteWrite(t)
        <5>1. pc[t] # "idle" /\ req[t].op # "deplete"
          BY <4>3 DEF UpdateWrite, StartCommit, CloseWrite, DeleteWrite, TransactionInv,
                      EditChecked
        <5>2. req[t].job # j
          BY <2>1, <5>1
        <5> QED
          BY <4>3, <5>2 DEF UpdateWrite, StartCommit, WriteJob, CloseWrite, DeleteWrite,
                            IInv, TablesType
      <4>4. CASE Advance(t) /\ ~(UpdateWrite(t) \/ StartCommit(t) \/ CloseWrite(t) \/ DeleteWrite(t))
        BY <4>4 DEF Advance, LockPalletRow, PalletRefused, PalletWritten, SyncReadContainer,
              SyncCountActive, SyncCountLoaded, SyncAndCommit, UpdateCheckPlan, UpdateCheckStatus,
              UpdateRefused, UpdateStart, StartVisit, StartWriteContainer,
              DepleteAndCommit, DepleteRefused, tables
      <4> QED
        BY <3>2, <4>1, <4>2, <4>3, <4>4
    <3> QED
      BY <3>1, <3>2 DEF Next
  <2> QED
    BY <2>2, <2>3
<1> QED
  BY <1>1, SequentialInvariant, PTL DEF Spec, CompletedIsFinal

-----------------------------------------------------------------------------
\* The status of a container

\* One transaction at a time, none of which adjusts inventory: the depletion
\* leaves the container as it is.
NoDepletion == OneAtATime /\ "deplete" \notin Ops

NeverDepletes == \A t \in Tx : req[t].op # "deplete"

\* What syncContainerStatusAfterPalletChange has read of its container is so.
CountsCurrent ==
    \A t \in Tx : LET c == ContOfPallet(ThePallet(t)) IN
        /\ pc[t] \in {"countActive", "countLoaded", "commitScan"}
              => counts[t].status = contStatus[c]
        /\ pc[t] \in {"countLoaded", "commitScan"}
              => counts[t].active = Cardinality(CountedActive(t, c))
        /\ pc[t] = "commitScan" => counts[t].loaded = Cardinality(CountedLoaded(t, c))

\* A container that the start of a job has locked, or is about to, may still
\* move into loading.
StillMovable ==
    \A t \in Tx :
        /\ \A c \in Containers : owner[c] = t => CanMoveIntoLoading(contStatus[c])
        /\ pc[t] = "startWrite" => /\ counts[t].id \in Containers
                                   /\ CanMoveIntoLoading(contStatus[counts[t].id])

ContInv == NeverDepletes /\ CountsCurrent /\ StillMovable /\ ContainerAgrees

LEMMA NothingMoves ==
    ASSUME ContInv, UNCHANGED <<palletStatus, contStatus, owner, local>>
    PROVE  ContInv'
<1>1. \A t \in Tx : \A c : /\ CountedActive(t, c)' = CountedActive(t, c)
                           /\ CountedLoaded(t, c)' = CountedLoaded(t, c)
  BY DEF CountedActive, CountedLoaded, ContainerPallets, StatusFor, NewStatus, IsScan, local
<1>2. \A t \in Tx : ContOfPallet(ThePallet(t))' = ContOfPallet(ThePallet(t))
  BY DEF ContOfPallet, ThePallet, local
<1>3. CountsCurrent'
  BY <1>1, <1>2 DEF ContInv, CountsCurrent, local
<1>4. NeverDepletes' /\ StillMovable'
  BY DEF ContInv, NeverDepletes, StillMovable, CanMoveIntoLoading, local
<1>5. ContainerAgrees'
  BY DEF ContInv, ContainerAgrees, Active, Loaded, ContainerPallets
<1> QED
  BY <1>3, <1>4, <1>5 DEF ContInv

LEMMA EndsMovable ==
    ASSUME NoDepletion, IInv, NEW t \in Tx, Finish(t)
    PROVE  NeverDepletes' /\ CountsCurrent' /\ StillMovable'
<1>1. /\ \A u \in Tx : u = t
      /\ pc'[t] = "idle" /\ req'[t] = NoRequest
  BY DEF NoDepletion, OneAtATime, Finish, IInv, LocalType
<1>2. \A r \in Rows : owner'[r] # t
  BY LoadJobsAssumption DEF Finish
<1>3. NeverDepletes'
  BY <1>1 DEF NeverDepletes, NoRequest
<1>4. CountsCurrent'
  BY <1>1 DEF CountsCurrent
<1>5. StillMovable'
  BY <1>1, <1>2 DEF StillMovable, Rows
<1> QED
  BY <1>3, <1>4, <1>5

LEMMA BeginMovable ==
    ASSUME NoDepletion, IInv, ContInv, NEW t \in Tx,
           NEW first \in {"lock", "checkPlan", "writeJob"},
           NEW r, NEW s, Begin(t, first, r, s), r.op # "deplete"
    PROVE  ContInv'
<1>1. /\ \A u \in Tx : u = t
      /\ pc'[t] = first /\ req'[t] = r /\ UNCHANGED <<tables, owner>>
  BY DEF NoDepletion, OneAtATime, Begin, IInv, LocalType
<1>2. NeverDepletes'
  BY <1>1 DEF NeverDepletes
<1>3. CountsCurrent' /\ StillMovable'
  BY <1>1 DEF CountsCurrent, StillMovable, ContInv, CanMoveIntoLoading, tables
<1>4. ContainerAgrees'
  BY <1>1 DEF ContInv, ContainerAgrees, Active, Loaded, ContainerPallets, tables
<1> QED
  BY <1>2, <1>3, <1>4 DEF ContInv

LEMMA RequestMovable ==
    ASSUME NoDepletion, IInv, ContInv, NEW t \in Tx, Request(t)
    PROVE  ContInv'
<1>1. CASE \E j \in Jobs : \E lines \in Plans : Create(t, j, lines)
  <2>1. UNCHANGED <<palletStatus, palletJob, contStatus, owner, local>>
    BY <1>1 DEF Create
  <2> QED
    BY <2>1, NothingMoves
<1>2. ASSUME NEW j \in Jobs, NEW lines \in Plans \cup {Same}, NEW status \in JobStates,
             NEW dock \in DockEdits, UpdateRead(t, j, lines, status, dock)
      PROVE  ContInv'
  <2> DEFINE r == [NoRequest EXCEPT !.op = "update", !.job = j, !.lines = lines,
                                    !.status = status, !.dock = dock]
  <2>1. r.op = "update" /\ Begin(t, "checkPlan", r, JobSeen(j))
    BY <1>2 DEF UpdateRead, NoRequest
  <2> QED
    BY <2>1, BeginMovable
<1>3. ASSUME NEW j \in Jobs, NEW dock \in DockEdits, CloseRead(t, j, dock)
      PROVE  ContInv'
  <2> DEFINE r == [NoRequest EXCEPT !.op = "close", !.job = j, !.dock = dock]
  <2>1. r.op = "close" /\ Begin(t, "writeJob", r, JobSeen(j))
    BY <1>3 DEF CloseRead, NoRequest
  <2> QED
    BY <2>1, BeginMovable
<1>4. ASSUME NEW j \in Jobs, DeleteRead(t, j)
      PROVE  ContInv'
  <2> DEFINE r == [NoRequest EXCEPT !.op = "delete", !.job = j]
  <2>1. r.op = "delete" /\ Begin(t, "writeJob", r, JobSeen(j))
    BY <1>4 DEF DeleteRead, NoRequest
  <2> QED
    BY <2>1, BeginMovable
<1>5. ASSUME NEW j \in Jobs, NEW p \in Pallets, NEW op \in {"scan", "override"},
             ScanRead(t, j, p, op)
      PROVE  ContInv'
  <2> DEFINE r == [NoRequest EXCEPT !.op = op, !.job = j, !.pals = {p}]
  <2>1. r.op = op /\ Begin(t, "lock", r, JobSeen(j))
    BY <1>5 DEF ScanRead, NoRequest
  <2> QED
    BY <2>1, BeginMovable
<1>6. ASSUME NEW j \in Jobs, NEW p \in Pallets, ReverseRead(t, j, p)
      PROVE  ContInv'
  <2> DEFINE r == [NoRequest EXCEPT !.op = "reverse", !.job = j, !.pals = {p}]
  <2>1. r.op = "reverse" /\ Begin(t, "lock", r, JobSeen(j))
    BY <1>6 DEF ReverseRead, NoRequest
  <2> QED
    BY <2>1, BeginMovable
<1>7. \A d \in Dests : \A ps \in SUBSET Pallets : ~DepleteSelect(t, d, ps)
  BY DEF DepleteSelect, NoDepletion
<1> QED
  BY <1>1, <1>2, <1>3, <1>4, <1>5, <1>6, <1>7 DEF Request

\* Steps that leave the tables and the counts as they are.
LEMMA MoveMovable ==
    ASSUME NoDepletion, IInv, ContInv, NEW t \in Tx, NEW step \in Steps,
           pc' = [pc EXCEPT ![t] = step], UNCHANGED <<tables, req, counts>>,
           step \notin {"countActive", "countLoaded", "commitScan"},
           step = "startWrite" => /\ counts[t].id \in Containers
                                  /\ CanMoveIntoLoading(contStatus[counts[t].id]),
           \A c \in Containers : owner'[c] = owner[c] \/ CanMoveIntoLoading(contStatus[c])
    PROVE  ContInv'
<1>1. pc'[t] = step /\ \A u \in Tx : u = t
  BY DEF NoDepletion, OneAtATime, IInv, LocalType
<1>2. NeverDepletes'
  BY DEF ContInv, NeverDepletes
<1>3. CountsCurrent'
  BY <1>1 DEF CountsCurrent
<1>4. StillMovable'
  BY <1>1 DEF StillMovable, ContInv, CanMoveIntoLoading, tables
<1>5. ContainerAgrees'
  BY DEF ContInv, ContainerAgrees, Active, Loaded, ContainerPallets, tables
<1> QED
  BY <1>2, <1>3, <1>4, <1>5 DEF ContInv

LEMMA CountsMovable ==
    ASSUME NoDepletion, IInv, ContInv, NEW t \in Tx,
           SyncReadContainer(t) \/ SyncCountActive(t) \/ SyncCountLoaded(t)
    PROVE  ContInv'
<1>1. /\ UNCHANGED <<tables, owner, req>> /\ \A u \in Tx : u = t
      /\ pc'[t] \in {"countActive", "countLoaded", "commitScan"}
  BY DEF SyncReadContainer, SyncCountActive, SyncCountLoaded, Goto, NoDepletion, OneAtATime,
         IInv, LocalType
<1>2. NeverDepletes' /\ StillMovable'
  BY <1>1 DEF ContInv, NeverDepletes, StillMovable, CanMoveIntoLoading, tables
<1>3. ContainerAgrees'
  BY <1>1 DEF ContInv, ContainerAgrees, Active, Loaded, ContainerPallets, tables
<1>4. CountsCurrent'
  <2> SUFFICES LET c == ContOfPallet(ThePallet(t)) IN
        /\ counts'[t].status = contStatus[c]
        /\ pc'[t] \in {"countLoaded", "commitScan"}
              => counts'[t].active = Cardinality(CountedActive(t, c))
        /\ pc'[t] = "commitScan" => counts'[t].loaded = Cardinality(CountedLoaded(t, c))
    BY <1>1 DEF CountsCurrent, ThePallet, CountedActive, CountedLoaded, ContainerPallets,
                StatusFor, NewStatus, IsScan, tables
  <2>1. CASE SyncReadContainer(t)
    BY <2>1 DEF SyncReadContainer, Goto, IInv, LocalType, ContViews
  <2>2. CASE SyncCountActive(t)
    BY <2>2 DEF SyncCountActive, Goto, IInv, LocalType, ContViews, ContInv, CountsCurrent
  <2>3. CASE SyncCountLoaded(t)
    BY <2>3 DEF SyncCountLoaded, Goto, IInv, LocalType, ContViews, ContInv, CountsCurrent
  <2> QED
    BY <2>1, <2>2, <2>3
<1> QED
  BY <1>2, <1>3, <1>4 DEF ContInv

\* The status computed from the counts agrees with the pallets that were counted.
LEMMA StatusAgrees ==
    ASSUME NEW A \in SUBSET Pallets, NEW L \in SUBSET A, A # {}, NEW current \in ContStates
    PROVE  LET next == StatusFromCounts(Cardinality(A), Cardinality(L), current) IN
           /\ next = "LOADED" <=> L = A
           /\ (L # {} /\ L # A) => next = "LOADING_IN_PROGRESS"
<1>1. IsFiniteSet(A) /\ IsFiniteSet(L)
  BY FS_Subset, LoadJobsAssumption
<1>2. /\ Cardinality(A) \in Nat /\ Cardinality(L) \in Nat
      /\ Cardinality(L) <= Cardinality(A)
      /\ Cardinality(A) = Cardinality(L) => L = A
  BY <1>1, FS_Subset, FS_CardinalityType
<1>3. Cardinality(A) # 0 /\ (Cardinality(L) = 0 <=> L = {})
  BY <1>1, FS_EmptySet
<1>4. L = A <=> Cardinality(L) >= Cardinality(A)
  BY <1>2
<1>5. CASE L = A
  <2>1. StatusFromCounts(Cardinality(A), Cardinality(L), current) = "LOADED"
    BY <1>2, <1>3, <1>5 DEF StatusFromCounts
  <2> QED
    BY <1>5, <2>1
<1>6. CASE L # A /\ L # {}
  <2>1. StatusFromCounts(Cardinality(A), Cardinality(L), current) = "LOADING_IN_PROGRESS"
    BY <1>2, <1>3, <1>4, <1>6 DEF StatusFromCounts
  <2> QED
    BY <1>6, <2>1
<1>7. CASE L # A /\ L = {}
  <2>1. StatusFromCounts(Cardinality(A), Cardinality(L), current)
           \in {"UNLOADED", "LABELS_GENERATED"}
    BY <1>2, <1>3, <1>7 DEF StatusFromCounts
  <2> QED
    BY <1>7, <2>1
<1> QED
  BY <1>5, <1>6, <1>7

LEMMA CommitAgrees ==
    ASSUME NoDepletion, IInv, ContInv, NEW t \in Tx, SyncAndCommit(t)
    PROVE  ContainerAgrees'
<1>1. pc[t] = "commitScan"
  BY DEF SyncAndCommit
<1>2. PICK q \in Pallets : req[t].pals = {q}
  BY <1>1 DEF IInv, OnePalletEach, WroteSteps
<1>3. PICK c \in Containers : c = ContOfPallet(q)
  BY LoadJobsAssumption DEF ContOfPallet
<1>4. ThePallet(t) = q
  BY <1>2 DEF ThePallet
<1>5. palletStatus' = [palletStatus EXCEPT ![q] = NewStatus(t)]
  BY <1>4 DEF SyncAndCommit
<1>6. \A p \in Pallets : palletStatus'[p] = StatusFor(t, p)
  BY <1>2, <1>5 DEF StatusFor, IInv, TablesType
<1>7. NewStatus(t) \in {"LOADED", "LABEL_PRINTED"}
  BY DEF NewStatus
<1>8. /\ counts[t].status = contStatus[c] /\ contStatus[c] \in ContStates
      /\ counts[t].active = Cardinality(CountedActive(t, c))
      /\ counts[t].loaded = Cardinality(CountedLoaded(t, c))
  BY <1>1, <1>3, <1>4 DEF ContInv, CountsCurrent, IInv, TablesType
<1>9. Active(c)' = CountedActive(t, c) /\ Loaded(c)' = CountedLoaded(t, c)
  BY <1>6 DEF Active, Loaded, CountedActive, CountedLoaded, ContainerPallets
<1>10. q \in CountedActive(t, c)
  BY <1>2, <1>3, <1>7 DEF CountedActive, ContainerPallets, StatusFor, Removed, Missing
<1>11. /\ CountedActive(t, c) \in SUBSET Pallets
       /\ CountedLoaded(t, c) \in SUBSET CountedActive(t, c)
  BY DEF CountedActive, CountedLoaded, ContainerPallets, Removed, Missing
<1> DEFINE next == StatusFromCounts(counts[t].active, counts[t].loaded, counts[t].status)
<1>12. /\ next = "LOADED" <=> CountedLoaded(t, c) = CountedActive(t, c)
       /\ (CountedLoaded(t, c) # {} /\ CountedLoaded(t, c) # CountedActive(t, c))
             => next = "LOADING_IN_PROGRESS"
  <2>1. CountedActive(t, c) # {}
    BY <1>10
  <2> QED
    BY <1>8, <1>11, <2>1, StatusAgrees
<1>13. contStatus'[c] = next
  BY <1>3, <1>4, <1>8 DEF SyncAndCommit, IInv, TablesType
<1>14. \A d \in Containers : d # c => contStatus'[d] = contStatus[d]
  BY <1>3, <1>4 DEF SyncAndCommit, IInv, TablesType
<1>15. \A d \in Containers : d # c => Active(d)' = Active(d) /\ Loaded(d)' = Loaded(d)
  <2>1. \A p \in Pallets : p # q => palletStatus'[p] = palletStatus[p]
    BY <1>5 DEF IInv, TablesType
  <2>2. \A d \in Containers : d # c => q \notin ContainerPallets(d)
    BY <1>3 DEF ContainerPallets
  <2> QED
    BY <2>1, <2>2 DEF Active, Loaded, ContainerPallets
<1> SUFFICES ASSUME NEW d \in Containers
             PROVE  /\ contStatus'[d] = "LOADED" <=> (Active(d)' # {} /\ Loaded(d)' = Active(d)')
                    /\ (Loaded(d)' # {} /\ Loaded(d)' # Active(d)')
                          => contStatus'[d] = "LOADING_IN_PROGRESS"
  BY DEF ContainerAgrees
<1>16. CASE d = c
  BY <1>9, <1>10, <1>12, <1>13, <1>16
<1>17. CASE d # c
  BY <1>14, <1>15, <1>17 DEF ContInv, ContainerAgrees
<1> QED
  BY <1>16, <1>17

LEMMA ContainerStep ==
    ASSUME NoDepletion, IInv, ContInv, [Next]_vars
    PROVE  ContInv'
<1>0. ASSUME UNCHANGED <<palletStatus, contStatus>> PROVE ContainerAgrees'
  BY <1>0 DEF ContInv, ContainerAgrees, Active, Loaded, ContainerPallets
<1>1. CASE UNCHANGED vars
  BY <1>1, NothingMoves DEF vars, tables
<1>2. CASE Next
  <2>1. PICK t \in Tx : Request(t) \/ Advance(t) \/ Rollback(t)
    BY <1>2 DEF Next
  <2>2. CASE Request(t)
    BY <2>2, RequestMovable
  <2>3. ASSUME Finish(t), UNCHANGED <<palletStatus, contStatus>> PROVE ContInv'
    BY <1>0, <2>3, EndsMovable DEF ContInv
  <2>4. CASE \/ Rollback(t) \/ PalletRefused(t) \/ UpdateRefused(t) \/ DepleteRefused(t)
             \/ UpdateWrite(t) \/ CloseWrite(t) \/ DeleteWrite(t)
    BY <2>3, <2>4 DEF Rollback, PalletRefused, UpdateRefused, DepleteRefused, UpdateWrite,
                      CloseWrite, DeleteWrite, tables
  <2>5. CASE SyncAndCommit(t)
    BY <2>5, CommitAgrees, EndsMovable DEF SyncAndCommit, ContInv
  <2>6. CASE StartCommit(t)
    <3>1. Finish(t) /\ UNCHANGED palletStatus
          /\ contStatus' = [c \in Containers |-> IF owner[c] = t THEN "LOADING_IN_PROGRESS"
                                                                ELSE contStatus[c]]
      BY <2>6 DEF StartCommit
    <3>2. \A c \in Containers : Active(c)' = Active(c) /\ Loaded(c)' = Loaded(c)
      BY <3>1 DEF Active, Loaded, ContainerPallets
    <3>3. \A c \in Containers : owner[c] = t => contStatus[c] \in {"UNLOADED", "LABELS_GENERATED"}
      BY DEF ContInv, StillMovable, CanMoveIntoLoading
    <3>4. ContainerAgrees'
      BY <3>1, <3>2, <3>3 DEF ContInv, ContainerAgrees
    <3> QED
      BY <3>1, <3>4, EndsMovable DEF ContInv
  <2>7. CASE SyncReadContainer(t) \/ SyncCountActive(t) \/ SyncCountLoaded(t)
    BY <2>7, CountsMovable
  <2>8. CASE DepleteAndCommit(t)
    BY <2>8 DEF DepleteAndCommit, ContInv, NeverDepletes
  <2>9. CASE \E p \in Pallets : LockPalletRow(t, p)
    <3>1. /\ UNCHANGED <<tables, req, counts>>
          /\ \E step \in {"lock", "decide"} : pc' = [pc EXCEPT ![t] = step]
          /\ \A c \in Containers : owner'[c] = owner[c]
      BY <2>9, LoadJobsAssumption DEF LockPalletRow, Goto, IInv, LocalType, Rows
    <3> QED
      BY <3>1, MoveMovable DEF Steps
  <2>10. CASE PalletWritten(t) \/ UpdateCheckPlan(t) \/ UpdateCheckStatus(t)
    <3>1. /\ UNCHANGED <<tables, req, counts, owner>>
          /\ \E step \in {"readContainer", "checkStatus", "writeJob"} :
                pc' = [pc EXCEPT ![t] = step]
      BY <2>10 DEF PalletWritten, UpdateCheckPlan, UpdateCheckStatus, Goto
    <3> QED
      BY <3>1, MoveMovable DEF Steps
  <2>11. CASE UpdateStart(t)
    <3>1. /\ UNCHANGED <<tables, req, counts>> /\ pc' = [pc EXCEPT ![t] = "startRead"]
          /\ owner' = [owner EXCEPT ![req[t].job] = t] /\ req[t].job \in Jobs
      BY <2>11 DEF UpdateStart, Goto, IInv, LocalType, Requests
    <3>2. \A c \in Containers : owner'[c] = owner[c]
      BY <3>1, LoadJobsAssumption DEF IInv, LocalType, Rows
    <3> QED
      BY <3>1, <3>2, MoveMovable DEF Steps
  <2>12. ASSUME NEW c \in Containers, StartVisit(t, c) PROVE ContInv'
    <3>1. UNCHANGED <<tables, owner, req>> /\ pc[t] = "startRead"
      BY <2>12 DEF StartVisit
    <3>2. CASE CanMoveIntoLoading(contStatus[c])
      <4>1. counts'[t].id = c /\ pc'[t] = "startWrite" /\ \A u \in Tx : u = t
        BY <2>12, <3>2 DEF StartVisit, Goto, IInv, LocalType, ContViews, NoDepletion, OneAtATime
      <4>2. NeverDepletes' /\ CountsCurrent' /\ StillMovable'
        BY <3>1, <3>2, <4>1 DEF ContInv, NeverDepletes, CountsCurrent, StillMovable,
                                CanMoveIntoLoading, tables
      <4> QED
        BY <1>0, <3>1, <4>2 DEF ContInv, tables
    <3>3. CASE ~CanMoveIntoLoading(contStatus[c])
      <4>1. UNCHANGED counts /\ pc' = [pc EXCEPT ![t] = "startRead"]
        BY <2>12, <3>1, <3>3 DEF StartVisit, IInv, LocalType
      <4> QED
        BY <3>1, <4>1, MoveMovable DEF Steps
    <3> QED
      BY <3>2, <3>3
  <2>13. CASE StartWriteContainer(t)
    <3>1. /\ UNCHANGED <<tables, req, counts>> /\ pc[t] = "startWrite"
          /\ pc' = [pc EXCEPT ![t] = "startRead"]
          /\ owner' = [owner EXCEPT ![counts[t].id] = t]
      BY <2>13 DEF StartWriteContainer, Goto
    <3>2. counts[t].id \in Containers /\ CanMoveIntoLoading(contStatus[counts[t].id])
      BY <3>1 DEF ContInv, StillMovable
    <3>3. \A c \in Containers : owner'[c] = owner[c] \/ CanMoveIntoLoading(contStatus[c])
      BY <3>1, <3>2 DEF IInv, LocalType
    <3> QED
      BY <3>1, <3>3, MoveMovable DEF Steps
  <2> QED
    BY <2>1, <2>2, <2>4, <2>5, <2>6, <2>7, <2>8, <2>9, <2>10, <2>11, <2>12, <2>13 DEF Advance
<1> QED
  BY <1>1, <1>2

LEMMA ContainerInit == Init => ContInv
<1> SUFFICES ASSUME Init PROVE ContInv
  OBVIOUS
<1>1. NeverDepletes /\ CountsCurrent
  BY DEF Init, NeverDepletes, NoRequest, CountsCurrent
<1>2. StillMovable
  BY LoadJobsAssumption DEF Init, StillMovable, Rows
<1>3. ContainerAgrees
  <2>1. \A c \in Containers : Loaded(c) = {}
    BY LoadJobsAssumption DEF Init, Loaded, ContainerPallets
  <2>2. \A c \in Containers : contStatus[c] # "LOADED"
    BY LoadJobsAssumption DEF Init
  <2> QED
    BY <2>1, <2>2 DEF ContainerAgrees
<1> QED
  BY <1>1, <1>2, <1>3 DEF ContInv

\* Where requests do not overlap and none adjusts inventory, the status of every
\* container agrees with its pallets: the three reads of syncContainerStatusAfter-
\* PalletChange see one state, and the start of a job leaves loaded containers alone.
THEOREM SequentialContainers ==
    ASSUME NoDepletion
    PROVE  Spec => []ContainerAgrees
<1>1. Init => IInv /\ ContInv
  BY InitHolds, ContainerInit
<1>2. IInv /\ ContInv /\ [Next]_vars => (IInv /\ ContInv)'
  BY StepKeeps, ContainerStep
<1>3. ContInv => ContainerAgrees
  BY DEF ContInv
<1> QED
  BY <1>1, <1>2, <1>3, PTL DEF Spec

=============================================================================
