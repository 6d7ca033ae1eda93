# Verification of the warehouse system (stripSystem)

TLA+ models of the parts of this repository whose correctness depends on the
order in which things happen: PostgreSQL transactions that overlap, background
jobs on Redis, and operations that read a row, work for minutes and write what
they found. Each model is checked by TLC on small instances, and what matters
most is proved with TLAPS for every instance.

Paths below are relative to `src/apps/api/src` unless they begin with `src/`.

## 1. The system

A NestJS API (`apps/api`, Prisma on PostgreSQL), a Python worker that the API
starts as a child process (`apps/worker-python`), a Next.js web client, a React
Native scanner app, and BullMQ on Redis for background jobs. A container's
unloading plan is imported from a workbook, parsed, corrected by hand, and turned
into destinations, pallets and labels. Pallets are scanned onto trucks by load
jobs. Attendance workbooks and completed containers become wage documents.

Everything that more than one request can touch is in PostgreSQL, under READ
COMMITTED. Requests are protected from each other by `SELECT ... FOR UPDATE` of a
row, by unique (also partial) indexes, by a revision number compared in an
`UPDATE`, by advisory locks, or not at all. Most of the hazards listed in
`PROJECT.json` come from the last case, or from a value read before a lock.

| component | state | operations | what is hard | correct when |
|---|---|---|---|---|
| load jobs `load-jobs/` | load_jobs, load_job_lines, pallets.status, pallets.load_job_id | create, update (plan, dock, status), close, delete, scan, supervisor override, reverse | the job and its plan are read without a lock; the pallet is locked and read again | a pallet is in one job, never written off while loaded, removed ones never come back; plan limits; completed jobs stay as they are |
| container status `common/container-lifecycle.ts` | containers.status | derived after each scan, correction, label run; start of loading | counts of rows that others are changing | it agrees with the pallets |
| inventory adjustments `inventory-adjustments/` | pallets, inventory_adjustments | manual depletion by pallet or count | selected without a lock, locked one by one, checked again | all or nothing, never a loaded pallet |
| background jobs `async-jobs/` | async_jobs, Bull jobs in Redis | submit, dispatch an outbox row, process, retry | two stores without a common transaction; lost answers, lost workers, two counts of the attempts | one run at a time per key, no job hangs, nothing captured is lost |
| attendance `attendance/` | attendance_imports (status, revision), attendance_rows, wage_generated_files | import, parse, generate a wage workbook, delete a day, delete the import | minutes without a lock between reading and writing | a current workbook holds exactly the active days |
| pallet inventory `pallet-inventory-sync/`, `labels/` | pallets, pallet_events, generated_files | synchronise before unloading, generate and reprint labels | a PDF made without a lock, pallets replaced under one | pallets that were scanned are never replaced, numbers are unique |
| corrections `corrections/` | containers, destinations, correction_feedback | edit, add and delete destinations, manual containers | counts computed from values read before the lock | the destination's counts belong to its values |
| imports `imports/` | import_files, containers | import, parse, delete | as attendance, without a revision | a deleted import has no containers, PARSING ends |
| artifacts `generated-files/`, `reports/` | generated_files, generated_file_replacements | activate, record a failure, report | two generations at once | one current file of each type per container |
| unloading wages `unloading-wage/` | pay_containers, unloading_wage_settlements | completion, pay container, monthly settlement | a settlement is computed before its transaction | nothing paid twice, nothing marked settled unseen |
| parser learning and profiles `parser-learning-cases/`, `parser-profiles/` | cases, families, versions, evidence, reviews | draft, link, unlink, close, replay, capture, submit, approve; stage, accept, reject, revoke | cases are not locked, replays take minutes; reviews decided in any order, trust streak | what is approved was compared with what was frozen; trusted only by consecutive acceptances |
| sessions `auth/`, `src/apps/mobile-scan-app/src/auth` | native_auth_sessions, native_refresh_tokens; tokens in the client | login, refresh, revoke | rotation with lost answers, concurrent refreshes | a used token revokes the session, an honest client stays signed in |
| offline queue `src/apps/mobile-scan-app/src/offline-queue` | queued scans on the device | queue, sync | the queue is rewritten as a whole | no scan is lost, none counted twice |
| pallet calculation `pallet-calculation/`, worker `pallets/calculator.py` | none | rounding rules, in two languages | boundaries | both agree |

How they interact: `labels`, `corrections`, `unloading-wage` and `load-jobs` all
write the same pallets and container status; `imports`, `reports`, `labels`,
`attendance` and `parser-learning-cases` run either inside a request or as a
background job, with the same service function; completing the unloading of a
container captures a parser learning case and writes its job in the same
transaction (an outbox), which is dispatched afterwards.

`PROJECT.json` lists all components, with those that are not modelled and why,
and every hazard at its line with the properties that watch it.

## 2. Modules

| module | what it is |
|---|---|
| `LoadJobs` | load jobs and manual depletion, statement by statement |
| `LoadJobsProofs` | its inductive invariants and eleven theorems; five of them for plans that never differ, or for requests that do not overlap |
| `AsyncJobs` | `async_jobs`, Bull's queue, requests and workers |
| `AsyncJobsProofs` | its inductive invariant and four theorems |
| `ContainerInventory` | one container: labels, corrections, synchronisation on unloading, reports, and what scans and depletions do to it |
| `ContainerInventoryProofs` | its inductive invariant and four theorems, all properties of its run; and three about `PalletCalculation`: both calculations agree, totals of one kind suffice, the pallets hold everything |
| `Imports` | parsing and deletion of imports, reviews of staged results, the trust of a parser profile |
| `ImportsProofs` | its inductive invariant and five theorems |
| `Settlement` | pay containers and the monthly settlements of unloading wages |
| `SettlementProofs` | its inductive invariant and four theorems, for settlements that run alone; five about `UnloadingShares`: the shares and the totals are exact for every team, rate and month; and five about `WorkHours`, for all days |
| `LearningCase` | one parser learning case: drafts, replays, the completion that is frozen, candidates and their approval |
| `LearningCaseProofs` | its inductive invariant and five theorems |
| `MobileScan` | the scan app of a device: its session, rotated by the API, and its offline queue |
| `MobileScanProofs` | its inductive invariants and four theorems: all properties of its run |
| `PalletCalculation` | how many pallets a destination fills: the worker's rules and the API's |
| `WorkHours` | the hours the worker calculates from punches, and the days of a period |
| `UnloadingShares` | how a rate is shared by unloaders: the API's methods and the worker's script |
| `WageLedger` | abstract: what an attendance import promises |
| `Attendance` | parse, generation and deletions of one attendance import; implements `WageLedger` |
| `AttendanceProofs` | its inductive invariant, and the refinement |
| `MCLoadJobs`, `MCAsyncJobs`, `MCAttendance`, `MCContainerInventory`, `MCImports`, `MCSettlement`, `MCMobileScan`, `MCLearningCase` | values of the constants for TLC |

Definitions marked `Mutant:` stand before the definition they spoil. They are not
used by any specification; each is a plausible bug that the property named in
`PROJECT.json` ("mutants") detects.

### 2.1 LoadJobs

A process `t` is one interactive Prisma transaction. A step is one SQL statement,
or several when all but one of them touch only rows that `t` has locked. The
variables `jobStatus` ... `contStatus` are the committed tables, `owner` the row
locks, and `pc`, `req`, `seen`, `counts`, `todo` the local variables of the
service function. What a transaction wrote and has not committed is not in the
tables: it follows from `pc`, `req` and the rows it owns (`StatusFor`), which is
what READ COMMITTED means to the others.

- `ScanRead` / `ReverseRead`: the load job is read (`seen`), its status checked.
- `LockPalletRow`: `SELECT ... FOR UPDATE`, waits for the owner.
- `PalletRefused` / `PalletWritten`: the decision from the second read, with the
  plan line and its limit from the first (`LineAccepts`); the scan event takes a
  key share lock on the load job (`NamesJob`), which a deletion waits for.
- `SyncReadContainer`, `SyncCountActive`, `SyncCountLoaded`, `SyncAndCommit`:
  `syncContainerStatusAfterPalletChange`, one statement each.
- `UpdateRead`, `UpdateCheckPlan`, `UpdateCheckStatus`, `UpdateWrite`,
  `UpdateStart`, `StartVisit`, `StartWriteContainer`, `StartCommit`: `update`,
  with `markLoadJobContainersLoading` for a job that starts.
- `CloseRead`/`CloseWrite`, `DeleteRead`/`DeleteWrite`, `Create`.
- `DepleteSelect`, `LockPalletRow`, `DepleteAndCommit`/`DepleteRefused`.
- `Rollback`: deadlock detection, the transaction timeout, a lost connection, an
  exception. Possible at any step.

A plan line is for a destination or for a whole container (`Covers`). A request
that is refused before it locks anything changes no table and is no step. The
load job status CANCELLED is left out: no endpoint sets it.

### 2.2 AsyncJobs

A record `r` is a row of `async_jobs` and the Bull job of the same id. `calls` are
requests inside `submitJob` or `dispatchRecordedJob`, one step per call to
PostgreSQL or Redis. `slots` are workers inside `process`. Redis and Bull are
modelled as the code uses them: `add` with an existing id does nothing,
`retry('failed')` throws unless the job has failed, a job held by a lost worker is
given to another one `MaxStalls` times and then failed without a call of
`process`, a completed job may be forgotten. `KeyTaken` is both
`findByIdempotencyKey` and the partial unique indexes. Failures are the actions
`QueueFails`, `AckLost`, `RecordFails`, `ApiCrash`, `WorkerCrash`, `MarkFails`,
`Remove`; `MaxFaults` bounds how often each kind occurs.

A worker that is alive keeps the lock of its job: `Stalled` happens only to jobs
no worker holds. A worker process blocked for longer than Bull's lock is outside
the model.

### 2.3 WageLedger and Attendance

`WageLedger` has four operations: `Rebuild` (read the workbook again, except for
struck days), `Strike` (delete a day), `Publish` (a workbook of exactly the
current days), `Close`. Each but `Publish` withdraws all workbooks.

`Attendance` is one import. A request does one operation, at once or through a
job (`SubmitJob`, tried again by `Fails`, delivered again by `Crash`). Reading,
the call of the worker and the commit are separate steps; the commit is one
transaction that locks the import first and compares the revision (`Stale`).
`ParseCommit` is the whole of `persistParsePayload`: rows replaced except for
deleted keys (`createMany` with `skipDuplicates`), revision incremented, workbooks
superseded. The mapping to the ledger takes the active and the deleted rows, the
deletion flag, and the input of each GENERATED workbook.

### 2.4 ContainerInventory

The rows one container has: its status, destinations (calculated, manual and final
count), pallets by destination and number, label PDFs and reports. A request is a
process; labels and reports do their work between an unlocked read and a
transaction. The lock of the container, of a pallet and the advisory lock of an
artifact type are variables (`contOwner`, `rowOwner`, `fileOwner`); a transaction
that waits for nothing after its first lock is one step.

- `LabelsRead`, `LockContainer`, `LabelsWrite`: drafts and PDF, then the lock, the
  comparison of the drafts with what is there now, and the replacement.
- `ReportRead`, `ActivateReport`, `ReportWrite`.
- `OfficeComplete`, `WageComplete`, `SyncWrite`: the two ways to complete
  unloading, and `synchronizeForUnloading` with the numbers it gives.
- `EditRead`, `EditWrite`, `CreateDestination`, `DeleteLock`, `DeleteWrite`,
  `EditFields`, `SetStatus`: corrections.
- `ScanPallet`, `ReversePallet`, `StartRead`, `StartWrite`, `DepletePallet` and the
  steps after them: load jobs and depletions, seen from the container. `LoadJobs`
  has them in full.

Inside the life of a pallet the two modules overlap: `LoadJobs` starts from pallets
that are there and shows what overlapping scans do, `ContainerInventory` has one
abstract job and shows what the rest of the system does around them.

### 2.5 Imports

A parse is a sequence of transactions and plain statements with the Python worker
between them (`ParseRead`, `ParseStart`, `Select`, then `NoMatch`, `Drift`,
`ExecutionFailed`, `Stage`, `CommitTrusted` or `Persist`, and the endings `Restore`
and `MarkError`). What a match will say is drawn in `Select`. A deletion checks,
removes the file and then writes (`DeleteCheck`, `DeleteCommit`), and other requests
may come between the two. `Accept`, `Reject`, `Revoke` and `Govern` are one
transaction each. The version's `lifecycle_revision` is kept as a mark on each parse
that says whether it has changed since (`NextRevision`).

### 2.6 Settlement

A unit is a pay container. A request reads its unit by a container or by its id
without a lock, decides the new status from what it read, and writes in one
transaction (`ReadSave`/`WriteSave`, `ReadComplete`/`WriteComplete`,
`ReadUnloaders`/`WriteUnloaders`, `ReadCompleteUnit`/`WriteCompleteUnit`);
`CreatePayContainer` depends on nothing it reads. `ReadGenerate` computes the lines
of a month, `WriteGenerate` supersedes, inserts and settles, `WriteFiles` comes after
the commit. Money is a rate, an allocation is the set of rates it adds up to.

### 2.7 MobileScan

Tasks are the async functions of the app: a protected request, a scan, the sending
of the queue, restoring, sign-in and sign-out. What runs between two awaits is one
step. `flight` is the refresh all tasks share. The API's side is one step per
request, under the row lock of the session. A request or its answer may be lost
(`FlightLost`, the alternatives of `Call`), tokens come near their end and expire
(`Tick`), the app is killed (`Kill`) and an administrator ends all sessions
(`RevokeAll`).

### 2.8 LearningCase

Nothing locks a learning case. A request is two statements: `Read...` takes the row
and decides, `Write...` updates it under the conditions of its UPDATE (a revision, a
missing link, a missing snapshot) or by id alone; `RowCheck` is the CHECK constraint
of the table, and an UPDATE it refuses ends the request (`Abort`). `ReadCapture`,
`Freeze` and `RecordMissingJob` are `captureCompletionInTransaction`, which
`AsyncJobs` sees only as the insert of a row. A replay is a job: `StartRun` reads the
case, `Claim` takes the token, `Work` runs the worker and reads again, `Commit` writes
the file and, if the case is still the one it claimed, the summary; every failure goes
through `FailArtifact` and `RecordFailure`, a lost process starts again (`Lost`).
What a container contains, a draft extracts and a completion froze are members of
`Facts`, and a replay passes when they agree: the comparison itself (`buildReplayDiff`)
is in the model as this equality. `Imports` has the version after its approval.

### 2.9 PalletCalculation

No state: operators for `calculator.py` and `rules.py` of the worker and for
`pallet-calculation.ts` of the API, side by side. A line has pieces, a volume and a
package; `WorkerMode` decides for each line whether it counts by the piece, `Load` and
`Merge` add up what lines of one destination amount to, `WorkerPallets` divides and
rounds. `ApiPallets` does the same from the totals of a destination, which is what a
correction (`corrections/corrections.service.ts:1928`) and a review
(`parser-profiles/parser-profile-reviews.service.ts:1683`) give it.
`ContainerInventory` has the result as `Counts`.

What is true of both (`CalculationsAgree`, `RecalculationKeeps`, `PalletsHold`) speaks of
no state, so no run lists it: `ContainerInventoryProofs` proves it, and TLC evaluates it
first, as the assumption `BothCalculations` of `MCContainerInventory` (no proof uses it),
for all pairs of lines in `Boundaries`: none to three pieces, or a missing count, with
volumes of zero and just below, at and above one, two and three pallets of either height.

### 2.10 WorkHours and UnloadingShares

No state either. `WorkHours` is `calculate_attendance_hours` and `_day_columns` of the
worker: punches in chronological order, paired or from the first to the last, lunch
once, hours rounded to hundredths and added up by employee. Minutes and hundredths are
integers. TLC evaluates `HoursBounded`, `NextIntervalPaid`, `ForgottenPunchKeeps`,
`RoundingBounded` and `PeriodCovered` as the assumption `HoursAreRight` of
`MCAttendance`, for all days of up to five punches at five times of day.

`UnloadingShares` is `settlementInputs`, `allocations` and `workerTotals` of the API, and
the grouping, the comparison and the shares of the worker's script
(`unloading_wage/settlement.py`), in cents. `SharesAddUp`, `PercentagesMet`,
`MonthIsPaidOut`, `ScriptPaysRates` and `ScriptAgrees` are the assumption
`SharesArePaidOut` of `MCSettlement`: up to three unloaders, rates that do not divide,
and all pairs of work items of two containers with and without a trailer and a pay
container. Rates stay below 21.47 dollars where percentages are multiplied, since TLC's
integers have 32 bits.

All these formulas are proved in `SettlementProofs`, for every team, rate and month, and
for days of any number of punches. For this `Chronological` says what sorting is without
saying how it is done: the i-th punch is the time before which there are fewer than i
punches and up to which there are at least i.

## 3. Runs

Every run finishes in a few minutes with two workers of TLC. Deadlock checking is
off: when all ids are used up, or nobody asks for anything, the system stops.

| run | instance | asks | result |
|---|---|---|---|
| `LoadJobs_races` | 2 transactions, 2 jobs, 1 pallet, all endpoints, symmetric transactions | what does the pallet lock with the second read protect? | TypeOK, RemovedStaysRemoved, LoadedIsNotDepleted, MovedOnlyByOverride hold |
| `LoadJobs_sequential` | 1 transaction, 2 jobs, 2 pallets of 2 destinations, plans with overlapping lines, all but depletion | do the rules hold when nothing overlaps? | ContainerAgrees, LineLimit, PlanCoversLoaded, CompletedIsFinal hold |
| `LoadJobs_lines` | 2 transactions, 1 job, 3 pallets, a line of one pallet; scan, depletion, edits, deletion of the job | how far can a line be overrun, and does every request end? | OverrunBounded, EveryRequestEnds hold |
| `AsyncJobs_submit` | 2 rows of one key, 2 requests, 2 workers, 2 attempts, each failure once | does a submitted job run alone and end? | OneRunPerKey, EveryJobEnds hold |
| `AsyncJobs_outbox` | 1 outbox row, 2 requests, 2 workers, every failure once, two lost workers | does what was captured reach the queue, once? | OneHolder, CaptureReachesQueue hold |
| `Attendance` | 3 requests, 2 days, 2 readings of the workbook, 2 attempts, each process lost once | is what can be downloaded current, and do jobs and PARSING end? | TypeOK, NoJobOnRemoved, WorkbookIsCurrent, ParsingEnds and the ledger hold |
| `ContainerInventory` | 2 requests of all 13 endpoints, 1 destination of one or two pallets | what survives when labels, corrections, completions, reports and scans overlap? | TypeOK, PrintedOnCurrentFile, HistoryStays, CommittedCountsMatch hold |
| `Imports` | 2 parses or deletions, 2 workbooks, one of them labelled, paid or deleted | is trust earned, and does what was reviewed or paid stay? | TypeOK, TrustIsEarned, ReviewedStays, OnlyTrustedCommits, BusinessRecordsStay hold |
| `Settlement` | 2 requests, 2 containers, 2 months, 2 rates, 2 teams, 4 edits, 3 settlements | is a settlement what its units are, and is nobody paid twice? | TypeOK, GeneratedIsCurrent, SettledIsPaid, NeverPaidTwice hold |
| `Settlement_ghost` | the same, 1 request | is a unit without containers paid? | yes: PaidForContainers is violated |
| `LearningCase` | 2 requests, 2 replay jobs, 2 drafts, 1 container that is corrected once | is what is approved what was compared, whatever overlaps? | TypeOK, ApprovedIsProved, SummaryIsCurrent, FrozenOnce, ClosedIsFinal hold |
| `MobileScan` | 2 tasks, 2 pallets, 3 tokens | what can cost a device its session, or a queued scan? | TypeOK, SessionKept, ScansKept hold |

Why the bounds are enough. The hazards of load jobs are between two transactions
about one pallet (races), or between two pallets counted against one line or one
container (lines): two transactions and two or three pallets show
each. Two jobs are what a move by override needs. `LoadJobs_sequential` has one
transaction because the rules it checks are those the code keeps only when
requests do not overlap (section 6); it has plans whose lines cover the same
pallet, since which line a scan counts for depends on the order of the lines.
In `AsyncJobs`, two rows of one key and two of every actor give each race a
rival, and each failure is present once in the same run, so all combinations
occur. Three requests in `Attendance` allow a parse, a generation and one
operation that gets in between, each twice because of its second attempt; the
revision is bounded by the number of
requests, each of which does one thing. In `ContainerInventory` two requests suffice for each race between an unlocked read
and a transaction; two pallets let a count be one too high or too low, and free,
cancelled and adjusted numbers stand beside each other. `MaxNo` and `MaxId` bound
pallet numbers and the PDFs anything still refers to, after which ids are used
again. In `Imports`, `Needed` is 2 where the code has 3 (two acceptances that a
correction can separate), `Earlier` lets a version begin with one acceptance from
imports that are not modelled, `Mortal` ends a request while the worker runs or
between the two steps of a deletion (a parse stores nothing between these and its
last step, so ending it later adds no state), and `Busy` lets one import be deleted and come into
use: it and the other one, which only gets parsed and reviewed, meet in the
container number and the version. `Settlement` has two containers because a set and
a unit that lost one need two, two months because a completion may move a unit to
another one, and `MaxSettlements` 3 with `MaxEdits` 4: save, complete, edit again and
one more between settlements of which the last supersedes. `LearningCase` has
two facts, so that a draft and a container can disagree, two drafts that fit one each,
and two jobs, one for the completion and one before it; `Asks` gives one request
everything that edits the case and the other everything that ends something, both with
captures, since two requests that save, or two that close, differ by the revision or
not at all. One correction (`Corrected`) lets a replay see other facts than it read.
`MobileScan` has three
tokens: a session, its refresh, and a refresh of that or a second session.

No state constraint is used; all bounds are sizes of the constant sets, `MaxFaults`,
`MaxAttempts`, `MaxStalls`, `MaxNo`, `MaxId`, `MaxEdits`, `MaxSettlements`,
`MaxTokens`, `MaxRevision`, `Asks`, `Corrected`, `Earlier`, `Busy` and `Mortal`. Two constants restrict which things overlap, because the code does not
keep its rules otherwise (section 6): `GenerationAlone`, a month is settled while no
edit and no other settlement is under way, and `Apart`, the pairs of tasks of the app
that are not under way together: a scan and the sending of the queue, and restoring,
sign-in or sign-out with anything. Of the latter not all is needed: `SessionIsKept`
(section 5) holds when only restoring and sign-in are apart, and the run keeps sign-outs
apart to stay small.

## 4. Fairness

- `LoadJobs`: `SF(Advance(t))` for every transaction. PostgreSQL queues the
  waiters of a row lock, so a transaction that can get a row again and again gets
  it. `WF` of a rollback only for a transaction in a deadlock, which PostgreSQL
  detects and breaks, and for one whose load job is gone, whose next statement
  throws. No request need ever arrive, and other rollbacks are never relied on.
- `AsyncJobs`: `WF` of the next step of each request and worker, of taking a
  waiting job and of Bull's stalled check. `CatchUpSpec` adds `SF(Dispatch)` for a
  captured row: the catch-up of completed learning cases dispatches every row,
  again and again, as long as somebody runs it. No failure is ever required.
- `ContainerInventory`, `Imports`, `Settlement`, `LearningCase` and `MobileScan` state no fairness:
  their properties are about what may never happen. A request may end at any point
  (`Abort`, `Lost`, `Rollback`, `Kill`).
- `Attendance`: `WF(Continue(p))`. The worker process has a timeout
  (`attendance/worker-attendance.service.ts:169`), every transaction ends, and a
  queued job is delivered.

## 5. Proofs

The theorems hold for all values of the constants that satisfy the assumptions
`LoadJobsAssumption`, `AsyncJobsAssumption`, `AttendanceAssumption`,
`ImportsAssumption`, `SettlementAssumption`, `LearningCaseAssumption`,
`MobileScanAssumption`, `PalletCalculationAssumption` and `ContainerInventoryAssumption`:
the sets are disjoint where the ids are, functions have their types, the numbers of
attempts, stalls and tokens are natural numbers, capacities are positive, no count exceeds
the highest number. TLC evaluates the assumptions in every run.

Some properties are not kept by the code whatever overlaps (section 6). Their theorems
have a hypothesis, which the instance of the run satisfies. It says which requests there
are and which of them overlap, and nothing of what a request does:

| hypothesis | theorems | what it says, and why it is there |
|---|---|---|
| `OnePlan` | `OverrunIsBounded` | transactions are finitely many and all plans are the same one: any number of scans may commit between the check of an edit that shrinks a line and its write |
| `OneAtATime` | `SequentialLineLimit`, `SequentialPlanCovers`, `SequentialCompletedFinal` | at most one transaction: the rows of jobs and plans are read without a lock |
| `NoDepletion` | `SequentialContainers` | besides, no manual depletion, which leaves the status of the container alone |
| `GenerationAlone` | those about `Settlement` | a month is settled while nobody edits or settles |
| `QueueApart` | `QueueKeepsScans` | no scan is made while the queue is sent |
| `ScreensApart` | `SessionIsKept` | nothing else is under way while the app restores its session or signs in; sign-outs may overlap with anything |

An induction that the library's theorems would give is done by the least counterexample:
`LeastOfNaturals` and `SmallestSet` say that a non-empty set of numbers, or of finite
sets, has a least one, and the step leads from it to a smaller one.

**LoadJobs.** `Invariant`: `Spec => []IInv`. The safety properties are not
inductive: at its commit a scan writes a pallet without looking at it again, so
one must know that what it decided is still true. `IInv` adds that a transaction
owns the row of its pallet from the second read on (`Locked`), that a scan,
override or reversal has exactly one pallet (`OnePalletEach`), and therefore that
the decision still stands (`StillDecided`): a row is written only by its owner.
`PlansKnown` and `StartHolds` give the type of a plan that a starting job walks.
One lemma per action, `StepKeeps` collects them. The action properties
`RemovedStaysRemoved`, `LoadedIsNotDepleted` and `MovedOnlyByOverride` follow step
by step, `EachPalletStep` names the few steps that write pallets.

`OverrunIsBounded` counts. The pallets loaded on a line (`OnLine`) say nothing of the
scans that were accepted for it and have yet to commit (`Pending`); together they are at
most the planned number and one for every other transaction (`FewOnLine`). A scan is
accepted when the line is not full: it joins `Pending` beside at most all the others; its
commit moves it from `Pending` to `OnLine`; `NoMoreOnLine` shows that no other step adds
to either.

When requests do not overlap, `LineLimit`, `PlanCoversLoaded` and `CompletedIsFinal` rest
on three facts: that what a request has read of its job is still so (`SeenCurrent`), that an edit has
looked at every loaded pallet (`EditChecked`) and that the line of an accepted scan still
has room (`StillAccepts`): together `TransactionInv`. A job that does not run has no
pallets (`HoldsNothing`, in `JobsInv`), so its plan may be edited freely. `ContInv` does
the same for the status of a container: what `syncContainerStatusAfterPalletChange` has
counted is still the number (`CountsCurrent`), though the commit itself changes the
counted pallet, and a starting job has a container that may move (`StillMovable`).

**AsyncJobs.** That no Bull job has two workers (`OneHolder`) is nearly inductive:
a job some worker holds is active, and one is taken only when waiting. That no
key runs twice (`OneRunPerKey`) is the longer argument: a row whose business job
runs is RUNNING (`RunningIsRecorded`), at most one row of a key is active
(`OneActive`, the partial unique index), hence two workers that run one key hold
one row, hence they are one. What could break `RunningIsRecorded` is the FAILED
written by a submission; `SubmitsAlone` says that while no answer was lost, a
submission that can still write FAILED has a job Redis does not know.

**Attendance.** The workbook is current because a generation that is not stale
holds the active days as input (`FreshInput`): its rows were read after the
revision, and everything that changes rows also changes the revision.
`ReadNoLater` is needed because a new revision must differ from all that were read
before; `PublishedLast` because a published workbook must not be written again by
a retry. `ImplementsLedger` maps each step: `ParseCommit` to `Rebuild`, `DeleteRow`
to `Strike`, `GenerateCommit` of a revision that is still the same to `Publish`,
`DeleteImport` to `Close`, and all others to a stutter. The invariant is used at
`Publish`, where the input must equal the ledger's days.

**Imports.** `IInv` adds to the types who may hold an import: only one deletion that
has checked it (`HasImport`, `OneDeletion`), and nothing gives a deleted import a
container (`UsedIsThere`). `TrustEarned` rests on `TrustIsEarned`, which counts the
streak over the reviews: `AcceptedVersion` and `Demoted` say what an acceptance and
everything else make of it. `ReviewsKept` follows from `ReviewedStays` and from the fact
that only a transaction that locks the review writes it. One lemma per action.

**Settlement.** The data agree (`GeneratedIsCurrent`, `OneInForce`, `InForceSettled`,
`SettledIsPaid`, `SettledPayable`) because of what requests know of them between their
read and their write (`SavesKnow`, `CompletesKnow`, `UnloadersKnow`, `UnitsKnow`,
`GenerateKnows`). `EditWrites` says once what any edit writes: a unit that was settled
needs review, with the settlement it was in. `GenerateKnows` is what `GenerationAlone`
is for: the lines of a settlement are still the units' when it is written.

**LearningCase.** A request that approves has checked the case some steps before, and
nothing locks the case. That `ApprovedIsProved` holds all the same is the argument of
`IInv`: what the approval relies on (`Proved`) speaks only of what no step changes again
(`Stable`): a frozen snapshot, the job the case names for it, a recorded job's revision, a
file that is GENERATED. `Knows` says what each request carries from its read to its write.
What a file says of its draft (`FilesTell`) comes from what the process says
(`RunsTell`), because a draft is never saved under a revision that has one
(`DraftIsSaved`). `FrozenOnce` rests on `CompletionNamed`: while the case names no job
there is no replay of a completion, so the condition of the UPDATE and the idempotency
key are enough. `ClosedIsFinal` rests on `RowCheck`: a closed case has no source, and an
update of any other status would need one; only `close` writes CLOSED
(`OnlyClosing`), and then the row stays the same.

**PalletCalculation.** Both roundings give the one number q with
c * (q - 1) < v <= c * q (`CeilingBounds`, `Unique`, hence `RoundAlike`), so `Agreement`
is left with the cases of one rule or the other (`ModeAlike`, `BaseIsCeiling`).
`TotalsSuffice` needs that two lines of one kind stay of that kind together, which is
that products distribute; for lines of different kinds this is what fails (section 6).
`HoldAll` is `CeilingBounds` for what two lines load (`TogetherTyped`).

**ContainerInventory.** The four properties of the run, for any number of requests,
destinations and pallets. `IInv` says what a request may rely on between its lock and
its write: a scan or a depletion holds the lock of a pallet that is still a row of an
accepted status (`SlotHeld`), an activation has seen the reports that are current
(`FileHeld`). `WritesSpareHeld` is why: everything that deletes or replaces pallets
waits for the locks of all of them. `Contiguous`, that the numbers of a destination
leave no gap, is needed for the counts: only then are the numbers of a synchronisation
those that follow (`NextNumbers`), as many as are short; with number 1 free and none
wanted it would create them all. `LowestCount` is the counting argument for the
surplus: the rank of a pallet is a bijection between the pallets and the numbers below
their count. One lemma per step that writes (`LabelsWriteDoes` and so on), one for
each part of `IInv` by steps.

**MobileScan.** `Types` strengthens the types: a task carries a token exactly at the
stages that use one (`Fits`), and a refresh is under way exactly while a task waits for
it (`Shared`); `OneTask` and a lemma for each action say which record replaces a task's
own. `QueueKeepsScans` needs `Guarded` (a task that has read the queue is a scan or the
sending, and as they are apart, the only one that writes) and `QueueSeen` (what it has
read is still the queue). `SessionIsKept` is the argument about rotation. The tokens the device works with, but for the one of a sign-in, are of one session
(`OneSession`). A stored token of a live session was exchanged only if the answer was lost
or is on its way (`StoredIsNew`); so was one that is sent (`FlightFits`). Hence a session
that ended as a replay is one that lost an answer (`ReplayWasLost`). A task
that is about to clear the store does so for a session that has ended, or finds it empty
(`Cleared`), which is what a sign-in beside it would break; and restoring writes back the
token that is stored (`RestoresStored`).

**UnloadingShares.** The sums of the model are the library's `SumFunction`, a fold that
chooses one element after the other. `SumsExist` shows that there is such a recursive
function and `SumsAgree` that it does not depend on the set one starts from; `SumStep`,
that an element adds its value whichever is chosen, and `SumByKind`, that what is added up
by kind is the sum of all. `EqualUpTo` counts the cents the first unloaders get more;
`PercentBounds` and `SumsApart` bound what rounding moves to the last one. The totals by
worker and by pay container add up the same parts in two orders (`PartsPaid`). For the
script, `GroupShares` shows that any item of a consistent group has its shares. Hypotheses:
amounts and percentages are integers, rates are natural numbers (`Paid`), a team or a list
of manual amounts names nobody twice (`Read`: `settlement.py` refuses such an item), and
there are finitely many workers, pay containers and items.

**WorkHours.** `ChronologicalIs` shows that there is a time for each place, that it is the
only one (`PlacedOnce`) and that the times are in order: the least of the times up to
which there are i punches is the one, and the time before it is up to fewer.
`OrderedStays` is for a day a punch was taken from, `LaterPunches` for one that goes on.
`PairsBounded` adds up pairs to less than the time from first to last. The total of an
employee is `SumsApart` again. A punch may be any integer.

Only model-checked: the liveness properties, since the proof system does not
handle fairness and ENABLED (`EveryRequestEnds`, `EveryJobEnds`,
`CaptureReachesQueue`, `ParsingEnds`). Every invariant and every action property of a
passing run is a theorem.

## 6. Where the code and its documents disagree

One run expects a violation. `PROJECT.json` ("findings") quotes the sentence.

- `Settlement_ghost`: an association moves containers to one unit and leaves the unit
  they came from COMPLETED, with its unloaders. Save and complete a container, save
  and complete another, associate them, settle: the set is paid, and so is the unit
  without a container.

Seven more were found and shown with runs that are no longer kept (TLC finds each in
seconds once the named definition is put into the cfg that is named):

- `deleteContainerDestination` looks at the container and its pallets, waits for the
  locks of pallets, and deletes them all (`CorrectionsSpareLoaded` in
  `ContainerInventory` with three requests, `Ops <- DeleteRace`, `Parsed <- D1` and
  `SetTo = {}`, `corrections/corrections.service.ts:842`). A scan that holds one of
  these locks has loaded its pallet by then; the container says LABELS_GENERATED
  because another pallet was reversed meanwhile. The message at
  corrections.service.ts:1751 is "This container has entered loading or has been
  loaded, so destination corrections are locked."
- The limit of a plan line (`LineLimit` in `LoadJobs_lines`) is compared with a count
  of committed pallets without locking the job or the line: two overlapping scans of
  different pallets both find room (`load-jobs/load-jobs.service.ts:1088`), though
  docs/architecture/02-data-model.md:350 says "Scan acceptance is limited by each
  internal line's `planned_pallets`". `OverrunBounded` says by how much at most.
- A scan that read the job before a close commits after it (`CompletedIsFinal` in
  `LoadJobs_races`, `load-jobs/load-jobs.service.ts:804`):
  docs/architecture/04-api-contracts.md:419 says "`COMPLETED` jobs cannot be edited or
  scanned."
- A depletion changes the number of active pallets and does not compute the
  container's status again (`ContainerAgrees` in `LoadJobs_sequential` with "deplete"
  among `Ops`, `inventory-adjustments/inventory-adjustments.service.ts:228`). No
  overlap is needed: a container whose last unloaded pallet is adjusted out stays
  LOADING_IN_PROGRESS, while common/container-lifecycle.spec.ts:40 expects LOADED when
  as many are loaded as are active.
- `dispatchRecordedJob` writes QUEUED after the job was added
  (`SuccessStays` in `AsyncJobs_outbox`, `async-jobs/async-jobs.service.ts:311`): the
  SUCCEEDED of a worker that finished in between is overwritten, and as Bull still
  knows the job, every later dispatch returns early and the row stays QUEUED. The
  comment at async-jobs.service.ts:273 says "Repeated calls are safe because the Bull
  job id is the database job id."
- Of two parses of one import the first stages a result for review, the second then
  writes PARSING, finds the review and answers with it: PARSING stays though nothing
  is under way (`StatusIsAccurate` in `Imports`, `imports/imports.service.ts:471`). A
  conflict restores the status read at the start, PARSING of another or of a lost
  parse included (line 501). docs/architecture/04-api-contracts.md:96 says "Set
  `import_files.parse_status` accurately."

- A destination is calculated again from its totals, by corrections
  (`corrections/corrections.service.ts:1928`) and for reviews
  (`parser-profiles/parser-profile-reviews.service.ts:1683`), also where its lines are of
  different kinds (`MixedKeeps` as an assumption of `MCContainerInventory`). With a
  capacity of 2.040, one piece of 5.000 and ten cartons of 1.000 in all are two pallets
  for the worker and three for the API. docs/product/03-pallet-calculation-rules.md:109
  says "Do not aggregate mixed standard cartons, explicit wooden crates, and oversize
  pieces before choosing the calculation rule."

And one statement of which the repository says nothing about overlaps: `FinalFollows`
(the final count of a destination is its manual count, or else the calculated one).
Two overlapping corrections break it: each computes the counts from what it read and
writes only what differs (`corrections/corrections.service.ts:569`). Put it among the
INVARIANTS of `ContainerInventory` with an override in `Overrides` and edits of both
kinds to see it.

Also seen while modelling, and kept out of the passing runs by the hypothesis that
is named with each property:

- With overlapping requests the rules `CompletedIsFinal`, `PlanCoversLoaded` and
  `ContainerAgrees` do not hold, and a completed job may lose its
  dock, for the same reason as the first two of these: the load job is never locked. That is why they are checked for one
  transaction only.
- An override may take a pallet out of a job that is COMPLETED; `MovedOnlyByOverride`
  allows it, as the code does. `CompletedIsFinal` is about gains only.
- A job whose worker is lost more often than Bull allows is failed by Bull alone,
  and its row stays RUNNING; a submission whose API process ends before `queue.add`
  stays QUEUED. Nothing recovers either. `AsyncJobs_submit` therefore has one lost
  worker and no lost API process.
- When the answer of `queue.add` is lost, the row says FAILED while the job runs,
  and a new submission of its key may run beside it: the hypothesis of
  `OneRunPerKey`.
- A parse without a job whose process is lost leaves PARSING behind, and the
  import's days cannot be deleted until it is parsed again: the second alternative
  of `ParsingEnds`.
- Two settlements of a month that overlap both stay GENERATED, and what is edited
  between the read of a settlement and its commit goes unseen, though
  docs/product/02-work-hours-and-unloading-wage-settlement.md:526 has "the affected
  settlement must be marked stale, superseded, or needs review". With
  `GenerationAlone = FALSE` all three properties of `Settlement` fail.
- A unit in NEEDS_REVIEW is left out of a settlement of its month that is generated
  again, without a warning; the files of a settlement are written after its
  transaction, and stay downloadable when it needs review; an ocean unit is named after
  its container, so a container whose unit another one has taken over cannot be saved
  as an ocean container again (unloading-wage/unloading-wage.service.ts:2057).
- A report begun before the completion of the unloading sets the container back from
  UNLOADED to REPORT_GENERATED (`reports/reports.service.ts:461`).
- A replay that has read a learning case takes its token without looking at the link
  (`parser-learning-cases.service.ts:1071`). If the container was unlinked in between,
  neither its result nor its failure passes the conditions of their UPDATE: the token
  stays with a job that has ended, and after the next link every other replay is
  refused as running, until a draft is saved or the container is unlinked once more
  (`TokenIsAlive` in `LearningCase`).
- A worker lost during a replay, and a draft saved or a container unlinked before the
  job is delivered again, leave the file GENERATING for ever, and the case cannot be
  closed (`GeneratingEnds` in `LearningCase`, line 1419).
- The replay of the completion exists once per case. A candidate of a newer draft
  submitted after it, or any other replay that writes the summary after it, can never
  be approved: PROFILE_APPROVAL_COMPLETION_REPLAY_REQUIRED
  (`parser-profiles/parser-profiles.service.ts:436`) asks for a replay that nothing
  starts again.
- A close that read no active version writes after an approval: the case is CLOSED
  with an ACTIVE version, though
  docs/reports/parser-profile-01-foundation-verification.md:53 has "Verify a case with
  non-draft profile history or evidence cannot be closed".
- A case that is unlinked and linked to another container keeps the snapshot and the
  summary of the former one.
- When the answer of a refresh is lost, the next refresh is taken for a replay: the
  session ends and the app clears it, though
  docs/product/01-cross-platform-mobile-scan-app.md:175 says "Temporary network failure
  must preserve an otherwise valid local session". `SessionKept` allows this one way.
- A sign-out during a refresh: the save of the refresh puts the session back into the
  store that was cleared. Restoring writes back the session it read before its request,
  and a late answer about an old session clears the one that was signed in since. These
  are why restoring, sign-in and sign-out are `Apart` in the run. The first does not cost
  the device a session: `SessionIsKept` holds with sign-outs that overlap with anything.
- A scan and the sending of the queue may overlap in the app; each writes the queue it
  has read, and the scan queued in between is gone. With `Apart` without that pair
  `ScansKept` fails.
- A scan whose answer was lost is queued, sent again, refused as already loaded, and
  stays FAILED although it counts.
- A late parse may give a container to an import deleted meanwhile, and a result may
  wait for review beside a container the built-in parser made; the files of an import
  are gone when its deletion is rolled back after them.
- A pallet id contains the position of its destination in a query; a destination
  inserted before one of the same code shifts it (`SyncAllowed` has the unique
  constraint as a guard; with one destination in the instance it never bites).
- Percentages round each share but the last, which gets what is left
  (`unloading-wage/unloading-wage.service.ts:1669`): 50, 50 and 0 percent of a rate with
  odd cents leave the third 0.01 below zero (`SharesNotNegative` in `UnloadingShares`, put
  into the assumption of `MCSettlement`).
- A period that ends in the next month loses the days of that month, without a warning:
  columns are looked for in the month of its first day only
  (`worker_python/wage/attendance.py:581`; `NextMonthCovered` in `WorkHours`).
- A punch that is recorded twice makes an even number odd and the day is paid from the
  first punch to the last, breaks included, or makes an odd one even
  (`SecondSwipeKeeps`). A day that becomes odd is marked for review; one that becomes even
  is not.
- Wage workbooks are named by period and second, and the row key of a day contains
  its position in the workbook. The models have neither file names nor positions.

## 7. Not modelled

Audit events and feedback rows (written with the change they describe, never
read by it), timestamps, free text, QR parsing, permissions, users, lists and
downloads, external transfer lines (they match no pallet), parsed JSON files and
task reports. In `Attendance`, `importFile` (an insert that the unique SHA index
decides) and WARNING, which every guard treats as PARSED. In `LoadJobs`, the
statuses containers get from parsing, labels and corrections are start values and
do not change meanwhile; `ContainerInventory` has these. In `ContainerInventory`,
reprints and manual containers. In `Imports`, several versions of a
profile; in `LearningCase`, names and families of versions, the conflict with another
active version, the creation of a case, and what becomes of an approved version. In `Settlement`, the worker directory.
In `MobileScan`, expiry of a whole session, rate limits, browser sessions, and a
second scan of a pallet that is already in the queue. The web client holds no state
the other parts rely on. The remaining components are listed with reasons in
`PROJECT.json`.

## 8. Plan

1. Browser sessions, and the expiry of sessions.
2. Abstract specifications for `LoadJobs` and `LearningCase`, as `WageLedger` is for
   `Attendance`: the rules of one request at a time, and the approval of a version as one
   step.
