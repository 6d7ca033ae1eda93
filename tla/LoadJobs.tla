------------------------------- MODULE LoadJobs -------------------------------
(***************************************************************************)
(* Load jobs of the warehouse API (apps/api/src/load-jobs) and the manual  *)
(* inventory depletion that competes with them for the same pallets        *)
(* (apps/api/src/inventory-adjustments).                                   *)
(*                                                                         *)
(* Every request is one interactive Prisma transaction under PostgreSQL's  *)
(* READ COMMITTED: each statement sees what is committed when it runs,     *)
(* plus the transaction's own writes; a row written or selected FOR UPDATE *)
(* stays locked until the transaction ends.  A transaction is a process t, *)
(* and a step of it is a statement, or several when all but one touch rows *)
(* that t has locked.  The tables hold the COMMITTED values; what t wrote  *)
(* and has not committed follows from pc[t], req[t] and the rows t owns.   *)
(*                                                                         *)
(* Left out: identities, timestamps, free text, QR parsing, operators, and *)
(* external transfer lines, which never match a pallet.  A request refused *)
(* before it locks anything changes no state and is no step.               *)
(***************************************************************************)
EXTENDS Integers, FiniteSets, Sequences

CONSTANTS
    Tx,          \* concurrent transactions (a bound on concurrency)
    Jobs,        \* ids of load jobs; an id is never used twice
    Pallets,     \* ids of pallet rows; an id is never used twice
    Dests,       \* container destinations
    Containers,  \* containers
    DestOf,      \* [Pallets -> Dests], the destination of a pallet
    ContOf,      \* [Dests -> Containers], the container of a destination
    Plans,       \* the plans clients write: sequences of internal plan lines
    Ops,         \* the endpoints that clients call
    DockEdits,   \* what requests do to the dock number
    StartStatus, \* the statuses pallets have before the first load job
    ContStart,   \* the statuses containers have before the first load job
    NoJob, Nobody, Same

Scopes     == Dests \cup Containers
PlanLines  == [scope : Scopes, planned : Nat \ {0}]
JobStates  == {"PLANNED", "IN_PROGRESS", "COMPLETED"}
Endpoints  == {"create", "update", "close", "delete", "scan", "override",
               "reverse", "deplete"}

ASSUME LoadJobsAssumption ==
    /\ IsFiniteSet(Pallets)
    /\ DestOf \in [Pallets -> Dests]
    /\ ContOf \in [Dests -> Containers]
    /\ Plans \subseteq Seq(PlanLines)
    /\ Ops \subseteq Endpoints
    /\ DockEdits \subseteq {"keep", "set", "clear"}
    /\ StartStatus \subseteq {"PLANNED", "LABEL_PRINTED", "EXCEPTION",
                              "CANCELLED", "UNUSED"}
    /\ ContStart \subseteq {"CORRECTED", "LABELS_GENERATED", "UNLOADED"}
    /\ NoJob \notin Jobs /\ Same \notin Plans
    /\ Nobody \notin Tx \cup Pallets \cup Containers \cup Jobs
    /\ Pallets \cap Containers = {} /\ Pallets \cap Jobs = {}
    /\ Containers \cap Jobs = {}

VARIABLES
    jobStatus,      \* load_jobs.status
    jobPlan,        \* load_job_lines, in sequence order
    jobDock,        \* load_jobs.dock_no is set
    palletStatus,   \* pallets.status; UNUSED is a row not yet inserted
    palletJob,      \* pallets.load_job_id
    contStatus,     \* containers.status
    owner,          \* the transaction that locks a row
    pc,             \* where a transaction is
    req,            \* what it was asked to do
    seen,           \* the load job as its first statement read it
    counts,         \* what it has read of a container
    todo            \* containers markLoadJobContainersLoading has yet to visit

tables == <<jobStatus, jobPlan, jobDock, palletStatus, palletJob,
            contStatus>>
local  == <<pc, req, seen, counts, todo>>
vars   == <<tables, owner, local>>

Rows == Pallets \cup Containers \cup Jobs

NoRequest == [op |-> "none", job |-> NoJob, pals |-> {}, lines |-> Same,
              status |-> "PLANNED", dock |-> "keep"]
NothingSeen   == [status |-> "NONE", plan |-> Same, dock |-> FALSE]
NothingCounted == [id |-> Nobody, status |-> "none", active |-> 0, loaded |-> 0]

PalletStates == {"UNUSED", "GONE", "PLANNED", "LABEL_PRINTED", "EXCEPTION",
                 "LOADED", "ADJUSTED_OUT", "CANCELLED"}
ContStates   == {"CORRECTED", "LABELS_GENERATED", "UNLOADED", "LOADING_IN_PROGRESS", "LOADED"}
Steps == {"idle", "lock", "decide", "readContainer", "countActive",
          "countLoaded", "commitScan", "checkPlan", "checkStatus", "writeJob",
          "startRead", "startWrite"}
\* between the pallet's UPDATE and the commit of a scan, override or reversal
WroteSteps == {"readContainer", "countActive", "countLoaded", "commitScan"}

TypeOK ==
    /\ jobStatus \in [Jobs -> JobStates \cup {"NONE", "DELETED"}]
    /\ jobPlan \in [Jobs -> Plans \cup {Same}]
    /\ jobDock \in [Jobs -> BOOLEAN]
    /\ palletStatus \in [Pallets -> PalletStates]
    /\ palletJob \in [Pallets -> Jobs \cup {NoJob}]
    /\ contStatus \in [Containers -> ContStates]
    /\ owner \in [Rows -> Tx \cup {Nobody}]
    /\ pc \in [Tx -> Steps]
    /\ req \in [Tx -> [op : Endpoints \cup {"none"}, job : Jobs \cup {NoJob},
                       pals : SUBSET Pallets, lines : Plans \cup {Same},
                       status : JobStates, dock : {"keep", "set", "clear"}]]
    /\ seen \in [Tx -> [status : JobStates \cup {"NONE"},
                        plan : Plans \cup {Same}, dock : BOOLEAN]]
    /\ counts \in [Tx -> [id : Containers \cup {Nobody},
                          status : ContStates \cup {"none"},
                          active : Nat, loaded : Nat]]
    /\ todo \in [Tx -> SUBSET Containers]

-----------------------------------------------------------------------------
\* Helpers of the service

Exists(j) == jobStatus[j] \in JobStates

Removed == {"ADJUSTED_OUT", "CANCELLED"}
Missing == {"UNUSED", "GONE"}

LoadedIn(j) == {p \in Pallets : palletStatus[p] = "LOADED" /\ palletJob[p] = j}

\* A line for a destination covers its pallets; a line that names only a
\* container covers every pallet of it.
Covers(scope, p) == scope \in {DestOf[p], ContOf[DestOf[p]]}

Matching(lines, p) == {i \in DOMAIN lines : Covers(lines[i].scope, p)}

\* the line find() returns: the first that covers the pallet
MatchLine(lines, p) ==
    lines[CHOOSE i \in Matching(lines, p) : \A k \in Matching(lines, p) : i <= k]

LoadedForLine(j, line) ==
    Cardinality({p \in LoadedIn(j) : Covers(line.scope, p)})

ContOfPallet(p) == ContOf[DestOf[p]]

\* containerStatusFromInventoryCounts; where it returns null, which the caller
\* takes for "leave it alone", the current status is returned
StatusFromCounts(active, loaded, current) ==
    CASE active <= 0                           -> current
      [] active > 0 /\ loaded >= active        -> "LOADED"
      [] loaded > 0 /\ loaded < active         -> "LOADING_IN_PROGRESS"
      [] active > 0 /\ loaded = 0              ->
             IF current = "UNLOADED" THEN "UNLOADED" ELSE "LABELS_GENERATED"

\* A plan edit of a running job may neither lose a loaded pallet nor plan less
\* than a line has loaded.
PlanKeepsLoaded(j, lines) ==
    /\ \A p \in LoadedIn(j) : Matching(lines, p) # {}
    /\ \A i \in DOMAIN lines : LoadedForLine(j, lines[i]) <= lines[i].planned

DepletionEligible(p) ==
    /\ palletStatus[p] \in {"PLANNED", "LABEL_PRINTED", "EXCEPTION"}
    /\ palletJob[p] = NoJob

-----------------------------------------------------------------------------
\* Transactions

Begin(t, first, r, s) ==
    /\ pc[t] = "idle"
    /\ pc' = [pc EXCEPT ![t] = first]
    /\ req' = [req EXCEPT ![t] = r]
    /\ seen' = [seen EXCEPT ![t] = s]
    /\ UNCHANGED <<tables, owner, counts, todo>>

JobSeen(j) == [status |-> jobStatus[j], plan |-> jobPlan[j], dock |-> jobDock[j]]

\* Commit and rollback both release every lock; the caller says what is written.
Finish(t) ==
    /\ owner' = [r \in Rows |-> IF owner[r] = t THEN Nobody ELSE owner[r]]
    /\ pc' = [pc EXCEPT ![t] = "idle"]
    /\ req' = [req EXCEPT ![t] = NoRequest]
    /\ seen' = [seen EXCEPT ![t] = NothingSeen]
    /\ counts' = [counts EXCEPT ![t] = NothingCounted]
    /\ todo' = [todo EXCEPT ![t] = {}]

Goto(t, step) == pc' = [pc EXCEPT ![t] = step]

ThePallet(t) == CHOOSE p \in req[t].pals : TRUE
IsScan(t)    == req[t].op \in {"scan", "override"}

\* Deadlock detection, the transaction timeout of Prisma, a lost connection,
\* an exception thrown inside the callback.
Rollback(t) ==
    /\ pc[t] # "idle"
    /\ Finish(t)
    /\ UNCHANGED tables

-----------------------------------------------------------------------------
\* create: one statement, with its lines

Create(t, j, lines) ==
    /\ "create" \in Ops
    /\ pc[t] = "idle"
    /\ jobStatus[j] = "NONE"
    /\ jobStatus' = [jobStatus EXCEPT ![j] = "PLANNED"]
    /\ jobPlan' = [jobPlan EXCEPT ![j] = lines]
    /\ \E dock \in DockEdits : jobDock' = [jobDock EXCEPT ![j] = dock = "set"]
    /\ UNCHANGED <<palletStatus, palletJob, contStatus, owner,
                   local>>

-----------------------------------------------------------------------------
\* scan, with and without a permitted supervisor override, and reverseScan

ScanRead(t, j, p, op) ==
    /\ op \in Ops \cap {"scan", "override"}
    /\ jobStatus[j] = "IN_PROGRESS"
    /\ palletStatus[p] \notin Missing
    /\ Begin(t, "lock",
             [NoRequest EXCEPT !.op = op, !.job = j, !.pals = {p}], JobSeen(j))

ReverseRead(t, j, p) ==
    /\ "reverse" \in Ops
    /\ jobStatus[j] = "IN_PROGRESS"
    /\ palletStatus[p] \notin Missing
    /\ Begin(t, "lock",
             [NoRequest EXCEPT !.op = "reverse", !.job = j, !.pals = {p}],
             JobSeen(j))

AllLocked(t, rows) == \A r \in rows : owner[r] = t \/ palletStatus[r] = "GONE"

\* Mutant: a plain SELECT.
LockPalletRowPlain(t, p) ==
    /\ pc[t] = "lock"
    /\ p \in req[t].pals
    /\ Goto(t, "decide")
    /\ UNCHANGED <<tables, owner, req, seen, counts, todo>>

\* SELECT ... FOR UPDATE, a row at a time: waits for the owner, and locks
\* nothing when the row was deleted meanwhile
LockPalletRow(t, p) ==
    /\ pc[t] = "lock"
    /\ p \in req[t].pals
    /\ owner[p] = Nobody
    /\ owner' = IF palletStatus[p] = "GONE" THEN owner
                ELSE [owner EXCEPT ![p] = t]
    /\ IF AllLocked(t, req[t].pals \ {p}) THEN Goto(t, "decide")
                                          ELSE UNCHANGED pc
    /\ UNCHANGED <<tables, req, seen, counts, todo>>

\* Mutant: off by one.
LineAcceptsOneMore(t, p) ==
    LET lines == seen[t].plan
    IN  /\ Matching(lines, p) # {}
        /\ LoadedForLine(req[t].job, MatchLine(lines, p)) <= MatchLine(lines, p).planned

\* the plan line takes one more pallet: the line and its limit as read at the
\* beginning, the count as committed now
LineAccepts(t, p) ==
    LET j == req[t].job
        lines == seen[t].plan
    IN  /\ Matching(lines, p) # {}
        /\ LoadedForLine(j, MatchLine(lines, p)) < MatchLine(lines, p).planned

\* Mutant: the statuses of removed pallets are not refused.
ScanAcceptedRemoved(t, p) ==
    /\ palletStatus[p] = "LOADED" =>
           palletJob[p] # req[t].job /\ req[t].op = "override"
    /\ LineAccepts(t, p)

\* what scan decides from the pallet it read again under the lock
ScanAccepted(t, p) ==
    /\ palletStatus[p] \notin Removed \cup Missing
    /\ palletStatus[p] = "LOADED" =>
           palletJob[p] # req[t].job /\ req[t].op = "override"
    /\ LineAccepts(t, p)

ReverseAccepted(t, p) ==
    palletStatus[p] = "LOADED" /\ palletJob[p] = req[t].job

Accepted(t, p) == IF IsScan(t) THEN ScanAccepted(t, p) ELSE ReverseAccepted(t, p)

\* Mutant: a refusal leaves the transaction, and its locks, open.
PalletRefusedOpen(t) ==
    /\ pc[t] = "decide"
    /\ req[t].op # "deplete"
    /\ ~Accepted(t, ThePallet(t))
    /\ Goto(t, "idle")
    /\ UNCHANGED <<tables, owner, req, seen, counts, todo>>

\* an INVALID_SCAN or DUPLICATE_SCAN event, or an error: no table of the model
\* changes
PalletRefused(t) ==
    /\ pc[t] = "decide"
    /\ req[t].op # "deplete"
    /\ ~Accepted(t, ThePallet(t))
    /\ Finish(t)
    /\ UNCHANGED tables

\* The event names the load job, so its row must still exist; the key share
\* lock this takes on it is what DeleteWrite waits for.
PalletWritten(t) ==
    /\ pc[t] = "decide"
    /\ req[t].op # "deplete"
    /\ Accepted(t, ThePallet(t))
    /\ Exists(req[t].job)
    /\ Goto(t, "readContainer")
    /\ UNCHANGED <<tables, owner, req, seen, counts, todo>>

\* Mutant: a reversal leaves the pallet LOADING.
NewStatusLoading(t) == IF IsScan(t) THEN "LOADED" ELSE "LOADING"

NewStatus(t) == IF IsScan(t) THEN "LOADED" ELSE "LABEL_PRINTED"
NewJob(t)    == IF IsScan(t) THEN req[t].job ELSE NoJob

\* Mutant: the counts miss the pallet that this transaction has written.
StatusForOthers(t, p) == palletStatus[p]

\* syncContainerStatusAfterPalletChange: three reads, each of what is then
\* committed and of t's own pallet
StatusFor(t, p) == IF p \in req[t].pals THEN NewStatus(t) ELSE palletStatus[p]

ContainerPallets(c) == {p \in Pallets : ContOfPallet(p) = c}

CountedActive(t, c) ==
    {p \in ContainerPallets(c) : StatusFor(t, p) \notin Removed \cup Missing}
CountedLoaded(t, c) == {p \in ContainerPallets(c) : StatusFor(t, p) = "LOADED"}

SyncReadContainer(t) ==
    /\ pc[t] = "readContainer"
    /\ counts' = [counts EXCEPT
                    ![t].status = contStatus[ContOfPallet(ThePallet(t))]]
    /\ Goto(t, "countActive")
    /\ UNCHANGED <<tables, owner, req, seen, todo>>

SyncCountActive(t) ==
    /\ pc[t] = "countActive"
    /\ counts' = [counts EXCEPT ![t].active =
                    Cardinality(CountedActive(t, ContOfPallet(ThePallet(t))))]
    /\ Goto(t, "countLoaded")
    /\ UNCHANGED <<tables, owner, req, seen, todo>>

SyncCountLoaded(t) ==
    /\ pc[t] = "countLoaded"
    /\ counts' = [counts EXCEPT ![t].loaded =
                    Cardinality(CountedLoaded(t, ContOfPallet(ThePallet(t))))]
    /\ Goto(t, "commitScan")
    /\ UNCHANGED <<tables, owner, req, seen, todo>>

\* The container is written only when the status computed differs from the one
\* read, and then with the value computed, whatever is committed by now.  No
\* statement after this one waits, so the commit is part of the step.
SyncAndCommit(t) ==
    LET p    == ThePallet(t)
        c    == ContOfPallet(p)
        next == StatusFromCounts(counts[t].active, counts[t].loaded,
                                 counts[t].status)
    IN  /\ pc[t] = "commitScan"
        /\ \/ /\ next = counts[t].status
              /\ UNCHANGED contStatus
           \/ /\ next # counts[t].status
              /\ owner[c] = Nobody
              /\ contStatus' = [contStatus EXCEPT ![c] = next]
        /\ palletStatus' = [palletStatus EXCEPT ![p] = NewStatus(t)]
        /\ palletJob' = [palletJob EXCEPT ![p] = NewJob(t)]
        /\ Finish(t)
        /\ UNCHANGED <<jobStatus, jobPlan, jobDock>>

-----------------------------------------------------------------------------
\* update

DockAfter(dock, had) == dock = "set" \/ (dock = "keep" /\ had)

\* Mutant: completed jobs stay editable.
UpdateReadAny(t, j, lines, status, dock) ==
    /\ "update" \in Ops
    /\ Exists(j)
    /\ status = "COMPLETED" => DockAfter(dock, jobDock[j])
    /\ Begin(t, "checkPlan",
             [NoRequest EXCEPT !.op = "update", !.job = j, !.lines = lines,
                               !.status = status, !.dock = dock],
             JobSeen(j))

\* The job is read without a lock; lines = Same when the request has none, and
\* status is the stored one when it has none.
UpdateRead(t, j, lines, status, dock) ==
    /\ "update" \in Ops
    /\ jobStatus[j] \in {"PLANNED", "IN_PROGRESS"}
    /\ status = "COMPLETED" => DockAfter(dock, jobDock[j])
    /\ Begin(t, "checkPlan",
             [NoRequest EXCEPT !.op = "update", !.job = j, !.lines = lines,
                               !.status = status, !.dock = dock],
             JobSeen(j))

\* Mutant: the plan is taken as it comes.
PlanUnchecked(t) == TRUE

PlanCheckPasses(t) ==
    (req[t].lines # Same /\ seen[t].status = "IN_PROGRESS")
        => PlanKeepsLoaded(req[t].job, req[t].lines)

StatusCheckPasses(t) ==
    (req[t].status = "PLANNED" /\ seen[t].status = "IN_PROGRESS")
        => LoadedIn(req[t].job) = {}

UpdateCheckPlan(t) ==
    /\ pc[t] = "checkPlan"
    /\ PlanCheckPasses(t)
    /\ Goto(t, "checkStatus")
    /\ UNCHANGED <<tables, owner, req, seen, counts, todo>>

UpdateCheckStatus(t) ==
    /\ pc[t] = "checkStatus"
    /\ StatusCheckPasses(t)
    /\ Goto(t, "writeJob")
    /\ UNCHANGED <<tables, owner, req, seen, counts, todo>>

UpdateRefused(t) ==
    /\ \/ pc[t] = "checkPlan"   /\ ~PlanCheckPasses(t)
       \/ pc[t] = "checkStatus" /\ ~StatusCheckPasses(t)
    /\ Finish(t)
    /\ UNCHANGED tables

Starts(t) == req[t].status = "IN_PROGRESS" /\ seen[t].status # "IN_PROGRESS"

\* UPDATE ... WHERE id: only the columns that are in the request, or that differ
\* from what was READ, are written
WriteJob(t) ==
    LET j == req[t].job
        r == req[t]
    IN  /\ jobStatus' = [jobStatus EXCEPT
                           ![j] = IF r.status = seen[t].status THEN @ ELSE r.status]
        /\ jobPlan' = [jobPlan EXCEPT ![j] = IF r.lines = Same THEN @ ELSE r.lines]
        /\ jobDock' = [jobDock EXCEPT
                         ![j] = IF r.dock = "keep" THEN @ ELSE r.dock = "set"]

UpdateWrite(t) ==
    /\ pc[t] = "writeJob"
    /\ req[t].op = "update"
    /\ Exists(req[t].job)
    /\ owner[req[t].job] = Nobody
    /\ ~Starts(t)
    /\ WriteJob(t)
    /\ Finish(t)
    /\ UNCHANGED <<palletStatus, palletJob, contStatus>>

PlanContainers(lines) ==
    {IF lines[i].scope \in Containers THEN lines[i].scope ELSE ContOf[lines[i].scope] :
        i \in DOMAIN lines}

\* A job that starts keeps its row locked while markLoadJobContainersLoading
\* visits the containers of its plan, in the order of the client's lines.
UpdateStart(t) ==
    /\ pc[t] = "writeJob"
    /\ req[t].op = "update"
    /\ Exists(req[t].job)
    /\ owner[req[t].job] = Nobody
    /\ Starts(t)
    /\ owner' = [owner EXCEPT ![req[t].job] = t]
    /\ todo' = [todo EXCEPT ![t] =
                  PlanContainers(IF req[t].lines = Same THEN jobPlan[req[t].job]
                                                        ELSE req[t].lines)]
    /\ Goto(t, "startRead")
    /\ UNCHANGED <<tables, req, seen, counts>>

CanMoveIntoLoading(status) == status \in {"UNLOADED", "LABELS_GENERATED"}

\* A container is read, and written by a later statement if its status THEN
\* allowed it.
StartVisit(t, c) ==
    /\ pc[t] = "startRead"
    /\ c \in todo[t]
    /\ todo' = [todo EXCEPT ![t] = @ \ {c}]
    /\ IF CanMoveIntoLoading(contStatus[c])
       THEN /\ counts' = [counts EXCEPT ![t].id = c]
            /\ Goto(t, "startWrite")
       ELSE UNCHANGED <<counts, pc>>
    /\ UNCHANGED <<tables, owner, req, seen>>

StartWriteContainer(t) ==
    /\ pc[t] = "startWrite"
    /\ owner[counts[t].id] = Nobody
    /\ owner' = [owner EXCEPT ![counts[t].id] = t]
    /\ Goto(t, "startRead")
    /\ UNCHANGED <<tables, req, seen, counts, todo>>

StartCommit(t) ==
    /\ pc[t] = "startRead"
    /\ todo[t] = {}
    /\ WriteJob(t)
    /\ contStatus' = [c \in Containers |->
                        IF owner[c] = t THEN "LOADING_IN_PROGRESS" ELSE contStatus[c]]
    /\ Finish(t)
    /\ UNCHANGED <<palletStatus, palletJob>>

-----------------------------------------------------------------------------
\* close and delete

CloseRead(t, j, dock) ==
    /\ "close" \in Ops
    /\ jobStatus[j] \in {"PLANNED", "IN_PROGRESS"}
    /\ dock # "clear"
    /\ DockAfter(dock, jobDock[j])
    /\ Begin(t, "writeJob",
             [NoRequest EXCEPT !.op = "close", !.job = j, !.dock = dock], JobSeen(j))

\* the dock number read, or given, is written back with the status
CloseWrite(t) ==
    LET j == req[t].job
    IN  /\ pc[t] = "writeJob"
        /\ req[t].op = "close"
        /\ Exists(j)
        /\ owner[j] = Nobody
        /\ jobStatus' = [jobStatus EXCEPT ![j] = "COMPLETED"]
        /\ jobDock' = [jobDock EXCEPT ![j] = TRUE]
        /\ Finish(t)
        /\ UNCHANGED <<jobPlan, palletStatus, palletJob, contStatus>>

DeleteRead(t, j) ==
    /\ "delete" \in Ops
    /\ jobStatus[j] = "PLANNED"
    /\ Begin(t, "writeJob", [NoRequest EXCEPT !.op = "delete", !.job = j],
             JobSeen(j))

\* u has inserted an event that names load job j and has not ended
NamesJob(u, j) == req[u].job = j /\ pc[u] \in WroteSteps

\* DELETE ... WHERE id, with ON DELETE SET NULL on the pallets that refer to it
DeleteWrite(t) ==
    LET j == req[t].job
        referring == {p \in Pallets : palletJob[p] = j}
    IN  /\ pc[t] = "writeJob"
        /\ req[t].op = "delete"
        /\ Exists(j)
        /\ owner[j] = Nobody
        /\ \A u \in Tx : ~NamesJob(u, j)
        /\ \A p \in referring : owner[p] = Nobody
        /\ jobStatus' = [jobStatus EXCEPT ![j] = "DELETED"]
        /\ jobPlan' = [jobPlan EXCEPT ![j] = Same]
        /\ jobDock' = [jobDock EXCEPT ![j] = FALSE]
        /\ palletJob' = [p \in Pallets |->
                           IF p \in referring THEN NoJob ELSE palletJob[p]]
        /\ Finish(t)
        /\ UNCHANGED <<palletStatus, contStatus>>

-----------------------------------------------------------------------------
\* manual inventory depletion (inventory-adjustments): the pallets chosen are
\* locked one by one, read again, and all adjusted out or none

DepleteSelect(t, d, ps) ==
    /\ "deplete" \in Ops
    /\ ps # {}
    /\ \A p \in ps : DestOf[p] = d /\ DepletionEligible(p)
    /\ Begin(t, "lock", [NoRequest EXCEPT !.op = "deplete", !.pals = ps],
             NothingSeen)

\* Mutant: the pallets are not read again after they were locked.
DepleteAndCommitBlind(t) ==
    /\ pc[t] = "decide"
    /\ req[t].op = "deplete"
    /\ palletStatus' = [p \in Pallets |->
           IF p \in req[t].pals THEN "ADJUSTED_OUT" ELSE palletStatus[p]]
    /\ palletJob' = [p \in Pallets |->
           IF p \in req[t].pals THEN NoJob ELSE palletJob[p]]
    /\ Finish(t)
    /\ UNCHANGED <<jobStatus, jobPlan, jobDock, contStatus>>

DepleteAndCommit(t) ==
    /\ pc[t] = "decide"
    /\ req[t].op = "deplete"
    /\ \A p \in req[t].pals : DepletionEligible(p)
    /\ palletStatus' = [p \in Pallets |->
           IF p \in req[t].pals THEN "ADJUSTED_OUT" ELSE palletStatus[p]]
    /\ palletJob' = [p \in Pallets |->
           IF p \in req[t].pals THEN NoJob ELSE palletJob[p]]
    /\ Finish(t)
    /\ UNCHANGED <<jobStatus, jobPlan, jobDock, contStatus>>

DepleteRefused(t) ==
    /\ pc[t] = "decide"
    /\ req[t].op = "deplete"
    /\ \E p \in req[t].pals : ~DepletionEligible(p)
    /\ Finish(t)
    /\ UNCHANGED tables

-----------------------------------------------------------------------------
\* Specification

Init ==
    /\ jobStatus = [j \in Jobs |-> "NONE"]
    /\ jobPlan = [j \in Jobs |-> Same]
    /\ jobDock = [j \in Jobs |-> FALSE]
    /\ palletStatus \in [Pallets -> StartStatus]
    /\ palletJob = [p \in Pallets |-> NoJob]
    /\ contStatus \in [Containers -> ContStart]
    /\ owner = [r \in Rows |-> Nobody]
    /\ pc = [t \in Tx |-> "idle"]
    /\ req = [t \in Tx |-> NoRequest]
    /\ seen = [t \in Tx |-> NothingSeen]
    /\ counts = [t \in Tx |-> NothingCounted]
    /\ todo = [t \in Tx |-> {}]

\* a client's request arrives
Request(t) ==
    \/ \E j \in Jobs :
          \/ \E lines \in Plans : Create(t, j, lines)
          \/ \E lines \in Plans \cup {Same}, status \in JobStates,
                dock \in DockEdits :
                  UpdateRead(t, j, lines, status, dock)
          \/ \E dock \in DockEdits : CloseRead(t, j, dock)
          \/ DeleteRead(t, j)
          \/ \E p \in Pallets : \/ \E op \in {"scan", "override"} :
                                          ScanRead(t, j, p, op)
                                  \/ ReverseRead(t, j, p)
    \/ \E d \in Dests : \E ps \in SUBSET Pallets : DepleteSelect(t, d, ps)

\* a transaction that is open takes its next step
Advance(t) ==
    \/ \E p \in Pallets : LockPalletRow(t, p)
    \/ PalletRefused(t) \/ PalletWritten(t)
    \/ SyncReadContainer(t) \/ SyncCountActive(t) \/ SyncCountLoaded(t)
    \/ SyncAndCommit(t)
    \/ UpdateCheckPlan(t) \/ UpdateCheckStatus(t) \/ UpdateRefused(t)
    \/ UpdateWrite(t) \/ UpdateStart(t)
    \/ \E c \in Containers : StartVisit(t, c)
    \/ StartWriteContainer(t) \/ StartCommit(t)
    \/ CloseWrite(t) \/ DeleteWrite(t)
    \/ DepleteAndCommit(t) \/ DepleteRefused(t)

Next == \E t \in Tx : Request(t) \/ Advance(t) \/ Rollback(t)

Spec == Init /\ [][Next]_vars

\* The rows one of which t waits for; what waits elsewhere holds no lock.
Wanted(t) ==
    CASE pc[t] = "lock"       -> {p \in req[t].pals : owner[p] # t}
      [] pc[t] = "commitScan" -> {ContOfPallet(ThePallet(t))}
      [] pc[t] = "startWrite" -> {counts[t].id}
      [] OTHER                -> {}

\* t belongs to a set of transactions each of which waits for others of the set
Deadlocked(t) ==
    \E S \in SUBSET Tx :
        /\ t \in S
        /\ \A u \in S : Wanted(u) # {} /\ \A r \in Wanted(u) : owner[r] \in S \ {u}

\* the load job of t is gone, so t's next statement throws
JobLost(t) == pc[t] \in {"decide", "writeJob"} /\ req[t].job # NoJob
                  /\ ~Exists(req[t].job)

\* PostgreSQL queues the waiters of a row, so a transaction that can get it again
\* and again gets it, and it breaks a deadlock by rolling one transaction back.
FairSpec ==
    /\ Spec
    /\ \A t \in Tx : /\ SF_vars(Advance(t))
                     /\ WF_vars((Deadlocked(t) \/ JobLost(t)) /\ Rollback(t))

\* No request waits for ever, whatever others are doing; rollbacks are relied on
\* only where transactions lock rows in opposite orders.
EveryRequestEnds == \A t \in Tx : pc[t] # "idle" ~> pc[t] = "idle"

-----------------------------------------------------------------------------
\* Safety that the row locks and the second read of the pallet give

\* A pallet that is not LOADED belongs to no load job (reverseScan, the
\* depletion and the deletion of a job clear the column).
OnlyLoadedInJob == \A p \in Pallets : palletJob[p] # NoJob => palletStatus[p] = "LOADED"

\* What was cancelled or adjusted out never comes back: a scan that had found
\* the pallet before a depletion committed reads it again and refuses it.
RemovedStaysRemoved ==
    [][\A p \in Pallets : palletStatus[p] \in Removed
                              => palletStatus'[p] = palletStatus[p]]_vars

\* A depletion never takes a pallet that a scan has loaded, however the two
\* interleave: inventory that is on a truck is not written off.
LoadedIsNotDepleted ==
    [][\A p \in Pallets : palletStatus[p] = "LOADED"
                              => palletStatus'[p] # "ADJUSTED_OUT"]_vars

\* A pallet leaves a load job for another one only by a supervisor override,
\* even when both jobs scan it at the same time.
MovedOnlyByOverride ==
    [][\A p \in Pallets :
          (palletJob[p] # NoJob /\ palletJob'[p] \notin {NoJob, palletJob[p]})
             => \E t \in Tx : pc[t] = "commitScan" /\ pc'[t] = "idle"
                               /\ req[t].op = "override" /\ p \in req[t].pals]_vars

\* The pallets that would not have found the line's limit reached: those whose
\* first covering line is line i.
Assigned(j, i) == {p \in LoadedIn(j) : MatchLine(jobPlan[j], p) = jobPlan[j][i]
                                       /\ Matching(jobPlan[j], p) # {}}

\* A line takes at most one pallet too many for every other scan that counted
\* at the same time, and none when scans do not overlap (plans do not change).
OverrunBounded ==
    \A j \in Jobs : Exists(j) => \A i \in DOMAIN jobPlan[j] :
        Cardinality(Assigned(j, i)) <= jobPlan[j][i].planned + Cardinality(Tx) - 1

Active(c) == {p \in ContainerPallets(c) : palletStatus[p] \notin Removed \cup Missing}
Loaded(c) == {p \in ContainerPallets(c) : palletStatus[p] = "LOADED"}

\* The container's status agrees with its pallets: LOADED exactly when some
\* pallets are active and all of these are loaded, LOADING_IN_PROGRESS when
\* some but not all are.
ContainerAgrees ==
    \A c \in Containers :
        /\ contStatus[c] = "LOADED" <=> (Active(c) # {} /\ Loaded(c) = Active(c))
        /\ (Loaded(c) # {} /\ Loaded(c) # Active(c))
               => contStatus[c] = "LOADING_IN_PROGRESS"

-----------------------------------------------------------------------------
\* What the documentation promises and unlocked reads of the job do not give

\* docs/architecture/02-data-model.md: "Scan acceptance is limited by each
\* internal line's planned_pallets".
LineLimit ==
    \A j \in Jobs : Exists(j) => \A i \in DOMAIN jobPlan[j] :
        Cardinality(Assigned(j, i)) <= jobPlan[j][i].planned

\* docs/architecture/04-api-contracts.md: "COMPLETED jobs cannot be edited or
\* scanned": a completed job stays completed and gains no pallet.
CompletedIsFinal ==
    [][\A j \in Jobs : jobStatus[j] = "COMPLETED"
          => jobStatus'[j] = "COMPLETED" /\ LoadedIn(j)' \subseteq LoadedIn(j)]_vars

\* docs/architecture/04-api-contracts.md: edits of a running job "must not
\* remove already-loaded pallets": its plan covers what it has loaded.
PlanCoversLoaded ==
    \A j \in Jobs : jobStatus[j] = "IN_PROGRESS"
        => \A p \in LoadedIn(j) : Matching(jobPlan[j], p) # {}

=============================================================================
