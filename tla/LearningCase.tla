------------------------------ MODULE LearningCase ------------------------------
(***************************************************************************)
(* One parser learning case (apps/api/src/parser-learning-cases), from the *)
(* first draft of a mapping to the approval of a profile version           *)
(* (apps/api/src/parser-profiles).                                         *)
(*                                                                         *)
(* Nothing locks the case.  A request (t) reads it and writes it in two    *)
(* statements; what keeps overlapping requests apart are conditions in the *)
(* UPDATE, the CHECK constraint of the table (RowCheck) and the token of a *)
(* replay.  A replay is a background job (j): it reads, runs the Python    *)
(* worker for minutes, reads again and writes.                             *)
(*                                                                         *)
(* Facts are abstract: the content of a container, what a complete draft   *)
(* extracts from the workbook, and a frozen snapshot are members of one    *)
(* set, and a replay passes when draft and container agree.  Left out: the *)
(* builder's inspection and preview, names and families, matcher conflicts *)
(* of approval, error codes, and the life of a version after its approval  *)
(* (Imports).                                                              *)
(***************************************************************************)
EXTENDS Naturals

CONSTANTS
    Tx,            \* concurrent requests (a bound on concurrency)
    Containers,    \* manual containers the case may be linked to
    Facts,         \* what containers contain and mappings extract
    DraftOf,       \* what the draft of each revision extracts
    Jobs,          \* replay jobs (a bound: how many are ever recorded)
    Asks,          \* bound: what each request may ask for
    Corrected,     \* bound: <<f, g>> when a correction may make g of f
    MaxRevision,   \* bound: drafts that are ever saved
    Incomplete,    \* a draft that lacks a required field
    Null

Revisions == 1..MaxRevision

ASSUME LearningCaseAssumption ==
    /\ MaxRevision \in Nat
    /\ Incomplete \notin Facts /\ DraftOf \in [Revisions -> Facts \cup {Incomplete}]
    /\ Asks \in [Tx -> SUBSET {"save", "link", "unlink", "close", "submit", "capture",
                               "approve"}]
    /\ Corrected \subseteq Facts \X Facts
    /\ Null \notin Containers \cup Facts \cup Jobs \cup {Incomplete}

VARIABLES
    row,        \* the row of the case in parser_learning_cases
    version,    \* parser_profile_versions of the case, by source draft revision
    latest,     \* the revision of the version created last
    facts,      \* what each container contains
    unloaded,   \* the containers whose unloading is completed
    job,        \* async_jobs
    artifact,   \* the generated file of each job's replay
    run,        \* the worker process of a job
    request     \* requests under way

data  == <<row, version, latest, facts, unloaded, job, artifact>>
vars  == <<data, run, request>>

SummaryType ==
    [job : Jobs, revision : Revisions, passed : BOOLEAN, manual : Facts]
Statuses ==
    {"OPEN", "MAPPING", "READY_FOR_REPLAY", "REPLAY_FAILED", "AWAITING_COMPLETION",
     "AWAITING_APPROVAL", "CLOSED"}
RowType ==
    [status    : Statuses,
     source    : BOOLEAN,                    \* source_import_id is set
     link      : Containers \cup {Null},
     revision  : 0..MaxRevision,
     draft     : Facts \cup {Incomplete, Null},
     snapshot  : Facts \cup {Null},
     replayJob : Jobs \cup {Null},           \* completion_replay_job_id
     replay    : SummaryType \cup {Null},    \* replay_summary
     token     : Jobs \cup {Null}]

VersionType == [status : {"NONE", "DRAFT", "ACTIVE"}, draft : Facts \cup {Null}]
JobType ==
    [status     : {"NONE", "RECORDED", "QUEUED", "RUNNING", "FAILED",
                   "SUCCEEDED"},
     revision   : 0..MaxRevision,
     completion : BOOLEAN]
ArtifactType ==
    [status : {"NONE", "GENERATING", "GENERATED", "FAILED"},
     passed : BOOLEAN,
     manual : Facts \cup {Null}]

\* what the process of a job knows: what it compares with, whether a candidate waits
\* for it, and whether it passes so far
RunType ==
    [step : {"idle", "claim", "work", "commit", "fail", "record", "finish"},
     manual : Facts \cup {Null}, candidate : BOOLEAN, passed : BOOLEAN]

\* what a request has read and decided: the status, the revision and the content
\* (a draft, a container, or facts) it is going to write
RequestType ==
    [kind     : {"idle", "save", "link", "unlink", "close", "submit", "freeze",
                 "record", "approve"},
     status   : Statuses,
     revision : 0..MaxRevision,
     content  : Facts \cup Containers \cup {Incomplete, Null}]

NewCase ==
    [status |-> "OPEN", source |-> TRUE, link |-> Null, revision |-> 0, draft |-> Null,
     snapshot |-> Null, replayJob |-> Null, replay |-> Null, token |-> Null]
IdleRun ==
    [step |-> "idle", manual |-> Null, candidate |-> FALSE, passed |-> FALSE]
Idle == [kind |-> "idle", status |-> "OPEN", revision |-> 0, content |-> Null]

Init ==
    /\ row = NewCase
    /\ version = [r \in Revisions |-> [status |-> "NONE", draft |-> Null]]
    /\ latest = 0
    /\ facts \in [Containers -> Facts]
    /\ unloaded = {}
    /\ job = [j \in Jobs |-> [status |-> "NONE", revision |-> 0, completion |-> FALSE]]
    /\ artifact = [j \in Jobs |-> [status |-> "NONE", passed |-> FALSE, manual |-> Null]]
    /\ run = [j \in Jobs |-> IdleRun]
    /\ request = [t \in Tx |-> Idle]
-----------------------------------------------------------------------------
(* The case *)

\* Mutant: the constraint allows a closed case whatever it refers to
NoCheck(new) == new.status \in {"OPEN", "MAPPING", "CLOSED"} \/ new.link # Null

\* the CHECK constraint of the table: a closed case refers to nothing, and
\* beyond mapping a case has a container
RowCheck(new) ==
    IF new.status = "CLOSED"
    THEN ~new.source /\ new.link = Null /\ new.token = Null
    ELSE new.source /\ (new.status \in {"OPEN", "MAPPING"} \/ new.link # Null)

\* Mutant: the constraint is not enforced
UpdateUnchecked(new) == row' = new

\* an UPDATE of the row; if the constraint refuses it, the transaction ends (Abort)
Update(new) == RowCheck(new) /\ row' = new

CaseOpen(r) == r.status # "CLOSED" /\ r.source
Complete(draft) == draft \notin {Incomplete, Null}

StatusForDraft(draft, linked) ==
    CASE draft = Null                -> "OPEN"
      [] linked /\ Complete(draft)   -> "READY_FOR_REPLAY"
      [] OTHER                       -> "MAPPING"

\* a request reads the case and decides what it will write
Decide(t, kind, status, revision, content) ==
    request' = [request EXCEPT ![t] = [kind |-> kind, status |-> status,
                                       revision |-> revision, content |-> content]]
End(t)      == request' = [request EXCEPT ![t] = Idle]
IsIdle(t)   == request[t].kind = "idle"
Asked(t, kind) == IsIdle(t) /\ kind \in Asks[t]
Is(t, kind) == request[t].kind = kind

\* what a replay compares with: the snapshot of the unloading, or else the container
ManualSnapshot(r) == IF r.snapshot # Null THEN r.snapshot ELSE facts[r.link]
-----------------------------------------------------------------------------
(* Drafts and the link to a container *)

ReadSave(t) ==
    /\ Asked(t, "save") /\ CaseOpen(row) /\ row.revision < MaxRevision
    /\ LET draft == DraftOf[row.revision + 1]
       IN  Decide(t, "save", StatusForDraft(draft, row.link # Null), row.revision + 1, draft)
    /\ UNCHANGED <<data, run>>

WriteSave(t) ==
    /\ Is(t, "save")
    /\ row.revision = request[t].revision - 1 /\ row.status # "CLOSED"
    /\ Update([row EXCEPT !.draft = request[t].content, !.revision = request[t].revision,
                          !.status = request[t].status, !.replay = Null,
                          !.token = Null])
    /\ End(t)
    /\ UNCHANGED <<version, latest, facts, unloaded, job, artifact, run>>

ReadLink(t) ==
    /\ Asked(t, "link") /\ row.status # "CLOSED" /\ row.link = Null
    /\ \E c \in Containers : Decide(t, "link", StatusForDraft(row.draft, TRUE), 0, c)
    /\ UNCHANGED <<data, run>>

WriteLink(t) ==
    /\ Is(t, "link")
    /\ row.status # "CLOSED" /\ row.link = Null /\ row.source
    /\ Update([row EXCEPT !.link = request[t].content, !.status = request[t].status])
    /\ End(t)
    /\ UNCHANGED <<version, latest, facts, unloaded, job, artifact, run>>

ReadUnlink(t) ==
    /\ Asked(t, "unlink") /\ row.status # "CLOSED" /\ row.link # Null
    /\ Decide(t, "unlink", IF row.draft = Null THEN "OPEN" ELSE "MAPPING", 0, Null)
    /\ UNCHANGED <<data, run>>

\* by id, whatever the case has become
WriteUnlink(t) ==
    /\ Is(t, "unlink")
    /\ Update([row EXCEPT !.link = Null, !.status = request[t].status,
                          !.token = Null])
    /\ End(t)
    /\ UNCHANGED <<version, latest, facts, unloaded, job, artifact, run>>

ReadClose(t) ==
    /\ Asked(t, "close") /\ row.status # "CLOSED"
    /\ \A r \in Revisions : version[r].status # "ACTIVE"
    /\ \A j \in Jobs : artifact[j].status # "GENERATING"
    /\ Decide(t, "close", "CLOSED", 0, Null)
    /\ UNCHANGED <<data, run>>

WriteClose(t) ==
    /\ Is(t, "close")
    /\ Update([row EXCEPT !.source = FALSE, !.link = Null, !.status = "CLOSED",
                          !.token = Null])
    /\ End(t)
    /\ UNCHANGED <<version, latest, facts, unloaded, job, artifact, run>>
-----------------------------------------------------------------------------
(* Replays *)

NewJob(j, status, revision, completion) ==
    /\ job[j].status = "NONE"
    /\ job' = [job EXCEPT ![j] = [status |-> status, revision |-> revision,
                                  completion |-> completion]]

ReplayReady == CaseOpen(row) /\ Complete(row.draft) /\ row.link # Null

\* A later submission of the job would only make its revision older, as a later draft
\* does: reading and submitting are one step.
Queue ==
    /\ ReplayReady
    /\ \E j \in Jobs : NewJob(j, "QUEUED", row.revision, FALSE)
    /\ UNCHANGED <<row, version, latest, facts, unloaded, artifact, run, request>>

\* recordReplayFailure: the replay of a revision has failed, under its token
ReplayFailed(revision, token) ==
    IF /\ row.revision = revision /\ row.link # Null /\ row.status # "CLOSED"
       /\ row.token = token
    THEN Update([row EXCEPT !.status = "REPLAY_FAILED", !.token = Null])
    ELSE UNCHANGED row

\* the job cannot be submitted; recorded only while the case is as it was read
QueueFails ==
    /\ ReplayReady
    /\ ReplayFailed(row.revision, Null)
    /\ UNCHANGED <<version, latest, facts, unloaded, job, artifact, run, request>>

Goto(j, step) == run' = [run EXCEPT ![j].step = step]
RunAt(j, step) == run[j].step = step

\* Mutant: a job that is delivered again executes again
NeverDone(j) == FALSE

Done(j) == artifact[j].status = "GENERATED"

\* A worker takes the job and reads the case; the file is there from an attempt
\* before, or is marked as being generated.
StartRun(j) ==
    /\ job[j].status = "QUEUED" /\ RunAt(j, "idle")
    /\ job' = [job EXCEPT ![j].status = "RUNNING"]
    /\ LET fits == /\ CaseOpen(row) /\ row.revision = job[j].revision
                   /\ row.draft # Null /\ row.link # Null
       IN  \/ ~fits /\ Goto(j, "record") /\ UNCHANGED artifact
           \/ fits /\ Done(j) /\ Goto(j, "finish") /\ UNCHANGED artifact
           \/ /\ fits /\ ~Done(j)
              /\ artifact' = [artifact EXCEPT ![j].status = "GENERATING"]
              /\ run' = [run EXCEPT ![j] =
                            [step |-> "claim", manual |-> ManualSnapshot(row),
                             candidate |-> row.snapshot # Null /\ latest # 0,
                             passed |-> row.draft = ManualSnapshot(row)]]
    /\ UNCHANGED <<row, version, latest, facts, unloaded, request>>

\* one replay at a time: the token is free, or the job's own from an attempt before
Claim(j) ==
    /\ RunAt(j, "claim")
    /\ IF /\ row.revision = job[j].revision /\ row.status # "CLOSED"
          /\ row.token \in {Null, j}
       THEN Update([row EXCEPT !.token = j]) /\ Goto(j, "work")
       ELSE Goto(j, "fail") /\ UNCHANGED row
    /\ UNCHANGED <<version, latest, facts, unloaded, job, artifact, request>>

\* after the worker the case is read again
Work(j) ==
    /\ RunAt(j, "work")
    /\ LET changed == row.link = Null \/ ManualSnapshot(row) # run[j].manual
       IN  run' = [run EXCEPT ![j].step = "commit", ![j].passed = @ /\ ~changed]
    /\ UNCHANGED <<data, request>>

\* the worker fails, or a write does
WorkFails(j) ==
    /\ run[j].step \in {"work", "commit"}
    /\ Goto(j, "fail")
    /\ UNCHANGED <<data, request>>

Replayed(j) ==
    [row EXCEPT !.status = CASE ~run[j].passed   -> "REPLAY_FAILED"
                             [] run[j].candidate -> "AWAITING_APPROVAL"
                             [] OTHER            -> "READY_FOR_REPLAY",
                !.replay = [job |-> j, revision |-> job[j].revision,
                            passed |-> run[j].passed, manual |-> run[j].manual],
                !.token = Null]

\* the case is still the one that was claimed; otherwise the result is stale
Claimed(j) ==
    row.revision = job[j].revision /\ row.token = j /\ row.status # "CLOSED"

Commit(j) ==
    /\ RunAt(j, "commit")
    /\ artifact' = [artifact EXCEPT ![j] =
                       [status |-> "GENERATED", passed |-> run[j].passed,
                        manual |-> run[j].manual]]
    /\ IF Claimed(j) THEN Update(Replayed(j)) ELSE UNCHANGED row
    /\ Goto(j, "finish")
    /\ UNCHANGED <<version, latest, facts, unloaded, job, request>>

Finish(j) ==
    /\ RunAt(j, "finish")
    /\ job' = [job EXCEPT ![j].status = "SUCCEEDED"]
    /\ run' = [run EXCEPT ![j] = IdleRun]
    /\ UNCHANGED <<row, version, latest, facts, unloaded, artifact, request>>

FailArtifact(j) ==
    /\ RunAt(j, "fail")
    /\ artifact' = [artifact EXCEPT ![j].status = "FAILED"]
    /\ Goto(j, "record")
    /\ UNCHANGED <<row, version, latest, facts, unloaded, job, request>>

\* the attempt has failed; Bull tries again or gives up
RecordFailure(j) ==
    /\ RunAt(j, "record")
    /\ ReplayFailed(job[j].revision, j)
    /\ \E status \in {"QUEUED", "FAILED"} : job' = [job EXCEPT ![j].status = status]
    /\ run' = [run EXCEPT ![j] = IdleRun]
    /\ UNCHANGED <<version, latest, facts, unloaded, artifact, request>>

\* the worker process is lost, and the job is delivered again (AsyncJobs has the job
\* that is lost too often)
Lost(j) ==
    /\ ~RunAt(j, "idle")
    /\ job' = [job EXCEPT ![j].status = "QUEUED"]
    /\ run' = [run EXCEPT ![j] = IdleRun]
    /\ UNCHANGED <<row, version, latest, facts, unloaded, artifact, request>>
-----------------------------------------------------------------------------
(* The completion of the unloading *)

Correct ==
    /\ \E c \in Containers, f \in Facts :
          <<facts[c], f>> \in Corrected /\ facts' = [facts EXCEPT ![c] = f]
    /\ UNCHANGED <<row, version, latest, unloaded, job, artifact, run, request>>

\* in a transaction of its own; the capture follows at once, with a submission, or
\* when somebody catches up
CompleteUnloading ==
    /\ \E c \in Containers : unloaded' = unloaded \cup {c}
    /\ UNCHANGED <<row, version, latest, facts, job, artifact, run, request>>

\* the case of a completed container, and what the container contains
ReadCapture(t) ==
    /\ Asked(t, "capture") /\ row.status # "CLOSED" /\ row.link \in unloaded
    /\ LET status == IF latest # 0 THEN "READY_FOR_REPLAY" ELSE row.status
       IN  \/ /\ row.snapshot = Null
              /\ Decide(t, "freeze", status, latest, facts[row.link])
           \/ /\ row.snapshot # Null /\ row.replayJob = Null /\ latest # 0
              /\ Decide(t, "record", status, latest, Null)
    /\ UNCHANGED <<data, run>>

\* Mutant: the snapshot is written whatever the case has become
FreezeAgain == TRUE

\* the condition of the UPDATE that freezes
NotFrozen == row.snapshot = Null

\* the first completion is frozen, with a replay job if there is a version
Freeze(t) ==
    /\ Is(t, "freeze") /\ NotFrozen
    /\ \/ /\ request[t].revision = 0
          /\ Update([row EXCEPT !.snapshot = request[t].content, !.replayJob = Null,
                                !.status = request[t].status])
          /\ UNCHANGED job
       \/ /\ request[t].revision # 0
          /\ \E j \in Jobs :
                /\ NewJob(j, "RECORDED", request[t].revision, TRUE)
                /\ Update([row EXCEPT !.snapshot = request[t].content, !.replayJob = j,
                                      !.status = request[t].status])
    /\ End(t)
    /\ UNCHANGED <<version, latest, facts, unloaded, artifact, run>>

\* the idempotency key of a completion replay is made of the frozen snapshot
KeyFree == \A j \in Jobs : ~job[j].completion

\* the version came after the completion: the job is recorded now
RecordMissingJob(t) ==
    /\ Is(t, "record") /\ KeyFree
    /\ \E j \in Jobs :
          /\ NewJob(j, "RECORDED", request[t].revision, TRUE)
          /\ Update([row EXCEPT !.replayJob = j, !.status = request[t].status])
    /\ End(t)
    /\ UNCHANGED <<version, latest, facts, unloaded, artifact, run>>

\* a capture dispatches the job it has recorded or found (AsyncJobs has this in full)
Dispatch(j) ==
    /\ job[j].completion /\ job[j].status \in {"RECORDED", "FAILED"}
    /\ job' = [job EXCEPT ![j].status = "QUEUED"]
    /\ UNCHANGED <<row, version, latest, facts, unloaded, artifact, run, request>>
-----------------------------------------------------------------------------
(* Candidates and their approval *)

PassedReplay ==
    /\ row.replay # Null /\ row.replay.revision = row.revision /\ row.replay.passed
    /\ artifact[row.replay.job].status = "GENERATED"

ReadSubmit(t) ==
    /\ Asked(t, "submit")
    /\ CaseOpen(row) /\ Complete(row.draft) /\ PassedReplay
    /\ version[row.revision].status = "NONE"
    /\ Decide(t, "submit",
              IF row.snapshot # Null THEN "AWAITING_APPROVAL" ELSE "AWAITING_COMPLETION",
              row.revision, row.draft)
    /\ UNCHANGED <<data, run>>

\* one version for each revision
WriteSubmit(t) ==
    /\ Is(t, "submit")
    /\ version[request[t].revision].status = "NONE"
    /\ version' = [version EXCEPT ![request[t].revision] =
                      [status |-> "DRAFT", draft |-> request[t].content]]
    /\ latest' = request[t].revision
    /\ Update([row EXCEPT !.status = request[t].status])
    /\ End(t)
    /\ UNCHANGED <<facts, unloaded, job, artifact, run>>

\* Mutant: any passed replay of the revision will do
AnyReplay == row.replayJob # Null

\* the replay of the completion itself has succeeded
CompletionReplay ==
    /\ row.replayJob # Null /\ row.replay.job = row.replayJob
    /\ job[row.replayJob].status = "SUCCEEDED"

\* approvalEligibilityCodes
Eligible(r) ==
    /\ version[r].status = "DRAFT"
    /\ row.source /\ row.link # Null /\ row.snapshot # Null
    /\ row.revision = r
    /\ row.replay # Null /\ row.replay.passed /\ row.replay.revision = r
    /\ CompletionReplay
    /\ row.replay.manual = row.snapshot

ReadApprove(t) ==
    /\ Asked(t, "approve")
    /\ \E r \in Revisions : Eligible(r) /\ Decide(t, "approve", "OPEN", r, Null)
    /\ UNCHANGED <<data, run>>

\* the version is locked, the case is not
WriteApprove(t) ==
    /\ Is(t, "approve")
    /\ version[request[t].revision].status = "DRAFT"
    /\ version' = [version EXCEPT ![request[t].revision].status = "ACTIVE"]
    /\ End(t)
    /\ UNCHANGED <<row, latest, facts, unloaded, job, artifact, run>>

\* a condition fails, the constraint refuses, a process or connection is lost
Abort(t) ==
    /\ ~IsIdle(t)
    /\ End(t)
    /\ UNCHANGED <<data, run>>
-----------------------------------------------------------------------------
RequestStep(t) ==
    \/ ReadSave(t)    \/ WriteSave(t)
    \/ ReadLink(t)    \/ WriteLink(t)
    \/ ReadUnlink(t)  \/ WriteUnlink(t)
    \/ ReadClose(t)   \/ WriteClose(t)
    \/ ReadCapture(t) \/ Freeze(t) \/ RecordMissingJob(t)
    \/ ReadSubmit(t)  \/ WriteSubmit(t)
    \/ ReadApprove(t) \/ WriteApprove(t)
    \/ Abort(t)

JobStep(j) ==
    \/ Dispatch(j) \/ StartRun(j) \/ Claim(j) \/ Work(j) \/ WorkFails(j)
    \/ Commit(j) \/ Finish(j) \/ FailArtifact(j) \/ RecordFailure(j) \/ Lost(j)

Next ==
    \/ Queue \/ QueueFails \/ Correct \/ CompleteUnloading
    \/ \E t \in Tx : RequestStep(t)
    \/ \E j \in Jobs : JobStep(j)

Spec == Init /\ [][Next]_vars
-----------------------------------------------------------------------------
(* Properties *)

\* the tables and the processes have their types, and the row passes its constraint
TypeOK ==
    /\ row \in RowType
    /\ version \in [Revisions -> VersionType]
    /\ latest \in 0..MaxRevision
    /\ facts \in [Containers -> Facts]
    /\ unloaded \in SUBSET Containers
    /\ job \in [Jobs -> JobType]
    /\ artifact \in [Jobs -> ArtifactType]
    /\ run \in [Jobs -> RunType]
    /\ request \in [Tx -> RequestType]
    /\ RowCheck(row)

\* An approved version extracts from the workbook exactly what was frozen when the
\* unloading was completed: the replay of the completion has compared this revision
\* with that snapshot, it passed, and its file is still there to be shown.  Nothing
\* locks the case between the check of all this and the approval.
ApprovedIsProved ==
    \A r \in Revisions : version[r].status = "ACTIVE" =>
        /\ row.snapshot # Null /\ version[r].draft = row.snapshot
        /\ row.replayJob # Null
        /\ job[row.replayJob].revision = r
        /\ artifact[row.replayJob] =
              [status |-> "GENERATED", passed |-> TRUE, manual |-> row.snapshot]

\* Of the captures of two completions, of catch-ups and submissions, one freezes the
\* facts and one records a job: neither is replaced, and no recorded job is without
\* the case that names it.
FrozenOnce ==
    [][/\ row.snapshot # Null => row'.snapshot = row.snapshot
       /\ row.replayJob # Null => row'.replayJob = row.replayJob
       /\ \A j \in Jobs : job'[j].completion => row'.replayJob = j]_vars

\* No request that read the case before it was closed opens it again, gives it a
\* container, a version's status or a result: the constraint refuses what is written
\* by id.
ClosedIsFinal == [][row.status = "CLOSED" => row' = row]_vars

\* The summary that a submission and an approval rely on is of the draft as it is now,
\* and says what its file says.
SummaryIsCurrent ==
    row.replay # Null =>
        /\ row.replay.revision = row.revision
        /\ LET file == artifact[row.replay.job]
           IN  file.status = "GENERATED" /\ file.passed = row.replay.passed
                                         /\ file.manual = row.replay.manual

(* Two statements the code does not keep; no run checks them (README). *)

\* a case is not locked out of replays by one that has ended
TokenIsAlive ==
    row.token # Null => job[row.token].status \in {"QUEUED", "RUNNING"}

\* a case is not kept from closing by a replay that has ended
GeneratingEnds ==
    \A j \in Jobs : artifact[j].status = "GENERATING" =>
        job[j].status \in {"QUEUED", "RUNNING"}
=============================================================================
