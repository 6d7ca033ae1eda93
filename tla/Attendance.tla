------------------------------ MODULE Attendance -----------------------------
(***************************************************************************)
(* One attendance import (apps/api/src/attendance): parsing its workbook   *)
(* into employee days, generating wage workbooks from them, deleting a day *)
(* by hand and deleting the import, by requests that overlap.              *)
(*                                                                         *)
(* Parsing and generating read the import, call the Python worker for      *)
(* seconds or minutes without any lock, and commit in a transaction that   *)
(* locks the import's row first.  Deletions are one such transaction each, *)
(* and so is the insert of a job.  Everything else that writes the import  *)
(* is a single UPDATE of the locked row, so a transaction is one step.     *)
(*                                                                         *)
(* A request does one operation, at once or as a background job, which is  *)
(* tried again when it fails and delivered again when its worker is lost   *)
(* (AsyncJobs).  Left out: the audit events, the parsed JSON and the task  *)
(* reports, counts and periods, and WARNING, which is treated as PARSED.   *)
(***************************************************************************)
EXTENDS Integers, FiniteSets

CONSTANTS
    Requests,    \* requests to the import; each does one operation
    Days,        \* row keys of employee days
    Results,     \* what the worker may find in the workbook: sets of days
    MaxAttempts  \* the attempts a job is given

ASSUME AttendanceAssumption ==
    /\ Results \subseteq SUBSET Days
    /\ MaxAttempts \in Nat \ {0}

VARIABLES
    status,    \* attendance_imports.parse_status
    revision,  \* attendance_imports.data_revision
    removed,   \* attendance_imports.deleted_at is set
    row,       \* attendance_rows
    file,      \* the wage workbook of a request, wage_generated_files.status
    input,     \* the days it was made from
    kind,      \* what a request does
    step,      \* where it is
    readRev,   \* the revision it has read
    job,       \* its row in async_jobs: none, active, ended
    tries,     \* the attempts it has failed
    crashed    \* requests and workers that were lost (each once at most)

import == <<status, revision, removed, row>>
books  == <<file, input>>
local  == <<kind, step, readRev, job, tries, crashed>>
vars   == <<import, books, local>>

Kinds == {"none", "parse", "generate", "deleteRow", "deleteImport"}
Steps == {"new", "queued", "start", "rows", "work", "done"}

TypeOK ==
    /\ status \in {"NOT_PARSED", "PARSING", "PARSED", "ERROR"}
    /\ revision \in Nat
    /\ removed \in BOOLEAN
    /\ row \in [Days -> {"none", "active", "deleted"}]
    /\ file \in [Requests -> {"none", "GENERATED", "SUPERSEDED", "FAILED"}]
    /\ input \in [Requests -> SUBSET Days]
    /\ kind \in [Requests -> Kinds]
    /\ step \in [Requests -> Steps]
    /\ readRev \in [Requests -> Nat]
    /\ job \in [Requests -> {"none", "active", "ended"}]
    /\ tries \in [Requests -> 0 .. MaxAttempts - 1]
    /\ crashed \subseteq Requests

Init ==
    /\ status = "NOT_PARSED" /\ revision = 0 /\ removed = FALSE
    /\ row = [d \in Days |-> "none"]
    /\ file = [p \in Requests |-> "none"]
    /\ input = [p \in Requests |-> {}]
    /\ kind = [p \in Requests |-> "none"]
    /\ step = [p \in Requests |-> "new"]
    /\ readRev = [p \in Requests |-> 0]
    /\ job = [p \in Requests |-> "none"]
    /\ tries = [p \in Requests |-> 0]
    /\ crashed = {}

-----------------------------------------------------------------------------
\* Helpers

ActiveDays == {d \in Days : row[d] = "active"}

\* Mutant: only the deletion of the import is looked at.
StaleRemoved(p) == removed

\* the import is not the one the request has read
Stale(p) == removed \/ revision # readRev[p]

Goto(p, s) == /\ step' = [step EXCEPT ![p] = s]
              /\ UNCHANGED <<job, tries>>

\* The request is answered; the job of it, if any, has ended.
Ends(p) == /\ step' = [step EXCEPT ![p] = "done"]
           /\ job' = [job EXCEPT ![p] = IF @ = "active" THEN "ended" ELSE @]
           /\ UNCHANGED tries

\* Mutant: off by one.
FailsOnceMore(p) ==
    IF job[p] = "active" /\ tries[p] < MaxAttempts
    THEN /\ step' = [step EXCEPT ![p] = "queued"]
         /\ tries' = [tries EXCEPT ![p] = @ + 1]
         /\ UNCHANGED job
    ELSE Ends(p)

\* The operation throws; a job with attempts left stays active and is tried
\* again.
Fails(p) ==
    IF job[p] = "active" /\ tries[p] + 1 < MaxAttempts
    THEN /\ step' = [step EXCEPT ![p] = "queued"]
         /\ tries' = [tries EXCEPT ![p] = @ + 1]
         /\ UNCHANGED job
    ELSE Ends(p)

\* The workbooks made so far are not current any more.
Superseded == [p \in Requests |->
                  IF file[p] = "GENERATED" THEN "SUPERSEDED" ELSE file[p]]

\* Mutant: the status alone tells whether the import is busy.
NotParsing == status # "PARSING"

\* assertNoActiveAttendanceJob, and no parse under way
NotBusy == status # "PARSING" /\ \A p \in Requests : job[p] # "active"

-----------------------------------------------------------------------------
\* createJobRecord: the import is locked and looked at again; the job's key
\* is free
SubmitJob(p, k) ==
    /\ step[p] = "new" /\ k \in {"parse", "generate"}
    /\ ~removed
    /\ \A q \in Requests : job[q] = "active" => kind[q] # k
    /\ kind' = [kind EXCEPT ![p] = k]
    /\ step' = [step EXCEPT ![p] = "queued"]
    /\ job' = [job EXCEPT ![p] = "active"]
    /\ UNCHANGED <<import, books, readRev, tries, crashed>>

\* findImportOrThrow at the beginning of parse, for a request or for a job
ParseRead(p) ==
    /\ \/ step[p] = "new" /\ ~removed
       \/ step[p] = "queued" /\ kind[p] = "parse"
    /\ kind' = [kind EXCEPT ![p] = "parse"]
    /\ readRev' = [readRev EXCEPT ![p] = revision]
    /\ IF removed THEN Fails(p) ELSE Goto(p, "start")
    /\ UNCHANGED <<import, books, crashed>>

\* and of generateWageRecord, with assertReadyForWageGeneration
GenerateRead(p) ==
    /\ \/ step[p] = "new" /\ ~removed /\ status = "PARSED"
       \/ step[p] = "queued" /\ kind[p] = "generate"
    /\ kind' = [kind EXCEPT ![p] = "generate"]
    /\ readRev' = [readRev EXCEPT ![p] = revision]
    /\ IF removed \/ status # "PARSED" THEN Fails(p) ELSE Goto(p, "rows")
    /\ UNCHANGED <<import, books, crashed>>

\* What updateMany does to the status of the revision the request has read
Mark(p, s) == status' = IF Stale(p) THEN status ELSE s

\* assertStoredFileExists
FileMissing(p) ==
    /\ step[p] \in {"start", "rows"}
    /\ Mark(p, "ERROR")
    /\ Fails(p)
    /\ UNCHANGED <<revision, removed, row, books, kind, readRev, crashed>>

-----------------------------------------------------------------------------
\* parse

ParseStart(p) ==
    /\ step[p] = "start"
    /\ Mark(p, "PARSING")
    /\ IF Stale(p) THEN Fails(p) ELSE Goto(p, "work")
    /\ UNCHANGED <<revision, removed, row, books, kind, readRev, crashed>>

\* Mutant: the error is passed on and the import is not marked.
ParseBrokenOnly(p) ==
    /\ step[p] = "work" /\ kind[p] = "parse"
    /\ Fails(p)
    /\ UNCHANGED <<import, books, kind, readRev, crashed>>

\* markParseInvocationFailed
ParseBroken(p) ==
    /\ step[p] = "work" /\ kind[p] = "parse"
    /\ Mark(p, "ERROR")
    /\ Fails(p)
    /\ UNCHANGED <<revision, removed, row, books, kind, readRev, crashed>>

\* persistParsePayload on a stale import: the output is kept as evidence only
ParseStale(p) ==
    /\ step[p] = "work" /\ kind[p] = "parse"
    /\ Stale(p)
    /\ Fails(p)
    /\ UNCHANGED <<import, books, kind, readRev, crashed>>

\* persistParsePayload with errors in the workbook
ParseError(p) ==
    /\ step[p] = "work" /\ kind[p] = "parse"
    /\ ~Stale(p)
    /\ status' = "ERROR"
    /\ Fails(p)
    /\ UNCHANGED <<revision, removed, row, books, kind, readRev, crashed>>

\* Mutant: rows of a key that exists are replaced.
RebuiltAll(found) == [d \in Days |-> IF d \in found THEN "active"
                                     ELSE IF row[d] = "deleted" THEN "deleted"
                                     ELSE "none"]

\* deleteMany of the active rows and createMany with skipDuplicates, which
\* leaves the deleted ones
Rebuilt(found) == [d \in Days |-> IF row[d] = "deleted" THEN "deleted"
                                  ELSE IF d \in found THEN "active" ELSE "none"]

ParseCommit(p, found) ==
    /\ step[p] = "work" /\ kind[p] = "parse"
    /\ ~Stale(p)
    /\ row' = Rebuilt(found)
    /\ status' = "PARSED"
    /\ revision' = revision + 1
    /\ file' = Superseded
    /\ Ends(p)
    /\ UNCHANGED <<removed, input, kind, readRev, crashed>>

-----------------------------------------------------------------------------
\* generateWageRecord

\* the active rows, read after the import and written to the worker's input;
\* there may be none, and the disk may be full
GenerateRows(p) ==
    /\ step[p] = "rows"
    /\ input' = [input EXCEPT ![p] = ActiveDays]
    /\ \/ Fails(p)
       \/ ActiveDays # {} /\ Goto(p, "work")
    /\ UNCHANGED <<import, file, kind, readRev, crashed>>

\* the worker fails, or its workbook does not pass the validation: recorded as
\* FAILED either way
GenerateBroken(p) ==
    /\ step[p] = "work" /\ kind[p] = "generate"
    /\ file' = [file EXCEPT ![p] = "FAILED"]
    /\ Fails(p)
    /\ UNCHANGED <<import, input, kind, readRev, crashed>>

GenerateCommit(p) ==
    /\ step[p] = "work" /\ kind[p] = "generate"
    /\ file' = [file EXCEPT ![p] = IF Stale(p) THEN "SUPERSEDED" ELSE "GENERATED"]
    /\ IF Stale(p) THEN Fails(p) ELSE Ends(p)
    /\ UNCHANGED <<import, input, kind, readRev, crashed>>

-----------------------------------------------------------------------------
\* deleteRow of an active row, deleteImport of an active import; a repeated
\* deletion and a refused one change nothing

DeleteRow(p, d) ==
    /\ step[p] = "new"
    /\ ~removed /\ NotBusy
    /\ row[d] = "active"
    /\ row' = [row EXCEPT ![d] = "deleted"]
    /\ revision' = revision + 1
    /\ file' = Superseded
    /\ kind' = [kind EXCEPT ![p] = "deleteRow"]
    /\ Ends(p)
    /\ UNCHANGED <<status, removed, input, readRev, crashed>>

DeleteImport(p) ==
    /\ step[p] = "new"
    /\ ~removed /\ NotBusy
    /\ removed' = TRUE
    /\ revision' = revision + 1
    /\ file' = Superseded
    /\ kind' = [kind EXCEPT ![p] = "deleteImport"]
    /\ Ends(p)
    /\ UNCHANGED <<status, row, input, readRev, crashed>>

-----------------------------------------------------------------------------
\* The process is lost before its commit.  A request is gone; a job is
\* delivered again.
Crash(p) ==
    /\ step[p] \in {"start", "rows", "work"}
    /\ p \notin crashed
    /\ crashed' = crashed \cup {p}
    /\ Goto(p, IF job[p] = "active" THEN "queued" ELSE "done")
    /\ UNCHANGED <<import, books, kind, readRev>>

Continue(p) ==
    \/ step[p] = "queued" /\ (ParseRead(p) \/ GenerateRead(p))
    \/ FileMissing(p) \/ ParseStart(p) \/ ParseBroken(p) \/ ParseStale(p)
    \/ ParseError(p) \/ GenerateRows(p) \/ GenerateBroken(p) \/ GenerateCommit(p)
    \/ \E found \in Results : ParseCommit(p, found)

Arrive(p) ==
    \/ step[p] = "new" /\ (ParseRead(p) \/ GenerateRead(p))
    \/ \E k \in Kinds : SubmitJob(p, k)
    \/ \E d \in Days : DeleteRow(p, d)
    \/ DeleteImport(p)

Next == \E p \in Requests : Continue(p) \/ Arrive(p) \/ Crash(p)

Spec == Init /\ [][Next]_vars

\* A request and a job that can go on do; the worker has a timeout.
FairSpec == Spec /\ \A p \in Requests : WF_vars(Continue(p))

-----------------------------------------------------------------------------
\* Properties

\* A workbook that may be downloaded holds exactly the active days of an
\* import that was not deleted, whatever was parsed, struck or deleted while
\* the worker made it (02-data-model.md: a workbook produced from an older
\* revision is never current).
WorkbookIsCurrent ==
    \A p \in Requests :
        file[p] = "GENERATED" => input[p] = ActiveDays /\ ~removed

\* No job is queued or running for a deleted import: its worker would work on
\* data nobody can reach.
NoJobOnRemoved == removed => \A p \in Requests : job[p] # "active"

\* PARSING ends, and with it the refusal of every deletion, also when the
\* worker of a parse job was lost; only a lost request leaves it behind.
ParsingEnds ==
    status = "PARSING" ~>
        status # "PARSING" \/ \E p \in crashed : job[p] = "none"

\* The import keeps the promises of the ledger: no struck day returns, nothing
\* late changes a deleted import, and what is published is what is there.
Ledger == INSTANCE WageLedger
          WITH days   <- ActiveDays,
               struck <- {d \in Days : row[d] = "deleted"},
               closed <- removed,
               book   <- [p \in Requests |-> IF file[p] = "GENERATED"
                                             THEN {input[p]} ELSE {}]
LedgerSpec == Ledger!Spec

=============================================================================
