-------------------------- MODULE LearningCaseProofs --------------------------
(***************************************************************************)
(* What holds of LearningCase for every number of requests, replays,       *)
(* containers and drafts: what is approved was compared with what was      *)
(* frozen, and a closed case stays as it is.                               *)
(***************************************************************************)
EXTENDS LearningCase, TLAPS

\* The draft of a case is the one that was saved with its revision.
DraftIsSaved ==
    row.draft = IF row.revision = 0 THEN Null ELSE DraftOf[row.revision]

\* A job that is not recorded has no file and no process, and one that is has a draft.
JobsKnown == \A j \in Jobs :
    /\ job[j].status = "NONE" =>
          artifact[j].status = "NONE" /\ run[j].step = "idle" /\ ~job[j].completion
    /\ job[j].status # "NONE" => job[j].revision \in Revisions

\* A file that passed says that the draft of its job extracts what it was compared with.
FilesTell == \A j \in Jobs :
    artifact[j].status = "GENERATED" /\ artifact[j].passed =>
        artifact[j].manual = DraftOf[job[j].revision]

\* So does a process that passes so far; and it writes no file that is there already.
RunsTell == \A j \in Jobs :
    /\ run[j].step \in {"claim", "work", "commit"} =>
          /\ run[j].manual \in Facts
          /\ run[j].passed => run[j].manual = DraftOf[job[j].revision]
    /\ run[j].step \in {"claim", "work", "commit", "fail"} =>
          artifact[j].status # "GENERATED"

\* The summary is that of a file, of the draft as it is now.
SummaryIsOfFile == row.replay # Null =>
    /\ row.replay.revision = row.revision
    /\ job[row.replay.job].revision = row.revision
    /\ artifact[row.replay.job] =
          [status |-> "GENERATED", passed |-> row.replay.passed,
           manual |-> row.replay.manual]

\* The case names its completion's job, the only one there is, and what it froze.
CompletionNamed ==
    /\ \A j \in Jobs : job[j].completion => row.replayJob = j
    /\ row.replayJob # Null =>
          row.snapshot # Null /\ job[row.replayJob].completion

\* The replay of the completion has compared this revision with the snapshot (of the
\* case c, among the jobs js with their files fs).
Proved(r, c, js, fs) ==
    /\ c.snapshot # Null /\ DraftOf[r] = c.snapshot
    /\ c.replayJob # Null /\ js[c.replayJob].revision = r
    /\ fs[c.replayJob] = [status |-> "GENERATED", passed |-> TRUE, manual |-> c.snapshot]

VersionsProved == \A r \in Revisions :
    /\ version[r].status # "NONE" => version[r].draft = DraftOf[r]
    /\ version[r].status = "ACTIVE" => Proved(r, row, job, artifact)

\* What a request is going to write.
Knows(q, c, js, fs) ==
    /\ q.status = "CLOSED" => q.kind = "close"
    /\ q.kind \in {"save", "submit"} =>
          q.revision \in Revisions /\ q.content = DraftOf[q.revision]
    /\ q.kind = "submit" => q.content \in Facts
    /\ q.kind = "link" => q.content \in Containers
    /\ q.kind = "freeze" => q.content \in Facts
    /\ q.kind = "record" => q.revision \in Revisions /\ c.snapshot # Null
    /\ q.kind = "approve" => q.revision \in Revisions /\ Proved(q.revision, c, js, fs)

RequestsKnow == \A t \in Tx : Knows(request[t], row, job, artifact)

IInv == /\ TypeOK /\ DraftIsSaved /\ JobsKnown /\ FilesTell /\ RunsTell
        /\ SummaryIsOfFile /\ CompletionNamed /\ VersionsProved /\ RequestsKnow

-----------------------------------------------------------------------------
\* What every step keeps

\* A snapshot, the name of the completion's job, and files that are there.
Stable ==
    /\ row.snapshot # Null => row'.snapshot = row.snapshot
    /\ row.replayJob # Null => row'.replayJob = row.replayJob
    /\ \A j \in Jobs :
          /\ job[j].status # "NONE" => job'[j].revision = job[j].revision
          /\ artifact[j].status = "GENERATED" => artifact'[j] = artifact[j]

\* What was proved stays proved.
LEMMA ProvedStays ==
    ASSUME IInv, Stable, NEW r, Proved(r, row, job, artifact)
    PROVE  Proved(r, row', job', artifact')
<1>1. row.replayJob \in Jobs /\ row.snapshot # Null /\ row.replayJob # Null
  BY DEF IInv, TypeOK, RowType, Proved
<1>2. job[row.replayJob].status # "NONE"
  BY <1>1 DEF IInv, JobsKnown, Proved
<1>3. row'.snapshot = row.snapshot /\ row'.replayJob = row.replayJob
  BY <1>1 DEF Stable
<1>4. /\ job'[row.replayJob].revision = job[row.replayJob].revision
      /\ artifact'[row.replayJob] = artifact[row.replayJob]
  BY <1>1, <1>2 DEF Stable, Proved
<1> QED
  BY <1>3, <1>4 DEF Proved

\* What a request knows stays true.
LEMMA KnowsStays ==
    ASSUME IInv, Stable, NEW q, Knows(q, row, job, artifact)
    PROVE  Knows(q, row', job', artifact')
<1>1. q.kind = "approve" => Proved(q.revision, row', job', artifact')
  BY ProvedStays DEF Knows
<1>2. q.kind = "record" => row'.snapshot # Null
  BY DEF Knows, Stable
<1> QED
  BY <1>1, <1>2 DEF Knows

\* A request reads and knows what it has read, or ends.
Turns(t, q) ==
    /\ q \in RequestType /\ Knows(q, row', job', artifact')
    /\ request' = [request EXCEPT ![t] = q]

LEMMA RequestsStay ==
    ASSUME IInv, Stable, UNCHANGED request \/ \E t \in Tx : \E q : Turns(t, q)
    PROVE  RequestsKnow' /\ request' \in [Tx -> RequestType]
<1>1. request \in [Tx -> RequestType] /\ \A t \in Tx : Knows(request[t], row', job', artifact')
  BY KnowsStays DEF IInv, TypeOK, RequestsKnow
<1> QED
  BY <1>1 DEF RequestsKnow, Turns

\* An ended request knows nothing.
LEMMA EndTurns ==
    ASSUME NEW t, End(t)
    PROVE  Turns(t, Idle)
  BY LearningCaseAssumption DEF End, Turns, Idle, RequestType, Knows, Statuses

\* What was proved of versions stays.
LEMMA VersionsStay ==
    ASSUME IInv, Stable, UNCHANGED version
    PROVE  VersionsProved'
<1>1. \A r \in Revisions : Proved(r, row, job, artifact) => Proved(r, row', job', artifact')
  BY ProvedStays
<1> QED
  BY <1>1 DEF IInv, VersionsProved

-----------------------------------------------------------------------------
\* Steps that change little

\* The row keeps what the invariant is about, and passes its constraint.
RowKept ==
    /\ row' \in RowType /\ RowCheck(row')
    /\ row'.draft = row.draft /\ row'.revision = row.revision
    /\ row'.snapshot = row.snapshot /\ row'.replayJob = row.replayJob
    /\ row'.replay = row.replay

Turning == UNCHANGED request \/ \E t \in Tx : \E q : Turns(t, q)

\* A step that changes no job, file, process or version keeps the invariant.
LEMMA QuietStep ==
    ASSUME IInv, RowKept, Turning,
           UNCHANGED <<version, latest, job, artifact, run>>,
           facts' \in [Containers -> Facts], unloaded' \in SUBSET Containers
    PROVE  IInv'
<1>1. Stable
  BY DEF RowKept, Stable
<1>2. RequestsKnow' /\ request' \in [Tx -> RequestType]
  BY <1>1, RequestsStay DEF Turning
<1>3. VersionsProved'
  BY <1>1, VersionsStay
<1>4. TypeOK'
  BY <1>2 DEF IInv, TypeOK, RowKept
<1>5. DraftIsSaved'
  BY DEF IInv, DraftIsSaved, RowKept
<1>6. JobsKnown' /\ FilesTell' /\ RunsTell'
  BY DEF IInv, JobsKnown, FilesTell, RunsTell
<1>7. SummaryIsOfFile' /\ CompletionNamed'
  BY DEF IInv, SummaryIsOfFile, CompletionNamed, RowKept
<1> QED
  BY <1>2, <1>3, <1>4, <1>5, <1>6, <1>7 DEF IInv

\* A request that reads.
LEMMA ReadKeeps ==
    ASSUME IInv, NEW t \in Tx, NEW q, q \in RequestType, Knows(q, row, job, artifact),
           request' = [request EXCEPT ![t] = q], UNCHANGED <<data, run>>
    PROVE  IInv'
<1>1. Turns(t, q)
  BY DEF Turns, data
<1>2. RowKept
  BY DEF RowKept, IInv, TypeOK, data
<1> QED
  BY <1>1, <1>2, QuietStep DEF Turning, IInv, TypeOK, data

\* The draft of a status is that of the case, and no derived status is CLOSED.
LEMMA StatusOfDraft ==
    ASSUME NEW draft, NEW linked \in BOOLEAN
    PROVE  StatusForDraft(draft, linked) \in Statuses \ {"CLOSED"}
  BY DEF StatusForDraft, Statuses

LEMMA DraftOfType ==
    ASSUME NEW r \in Revisions
    PROVE  /\ DraftOf[r] \in Facts \cup {Incomplete}
           /\ r \in 0..MaxRevision /\ r \in Nat \ {0}
  BY LearningCaseAssumption DEF Revisions

LEMMA ReadStep ==
    ASSUME IInv, NEW t \in Tx,
           \/ ReadSave(t) \/ ReadLink(t) \/ ReadUnlink(t) \/ ReadClose(t)
           \/ ReadCapture(t) \/ ReadSubmit(t) \/ ReadApprove(t) \/ Abort(t)
    PROVE  IInv'
<1> USE LearningCaseAssumption
<1>0. /\ row \in RowType /\ row.revision \in 0..MaxRevision /\ row.status \in Statuses
      /\ latest \in 0..MaxRevision
  BY DEF IInv, TypeOK, RowType
<1>1. CASE ReadSave(t)
  <2> DEFINE r == row.revision + 1
  <2> DEFINE s == StatusForDraft(DraftOf[r], row.link # Null)
  <2> DEFINE q == [kind |-> "save", status |-> s, revision |-> r, content |-> DraftOf[r]]
  <2>1. r \in Revisions
    BY <1>0, <1>1 DEF ReadSave, Revisions
  <2>2. s \in Statuses \ {"CLOSED"}
    BY StatusOfDraft
  <2>3. q \in RequestType
    BY <2>1, <2>2, DraftOfType DEF RequestType
  <2>4. Knows(q, row, job, artifact)
    BY <2>1, <2>2 DEF Knows
  <2>5. request' = [request EXCEPT ![t] = q] /\ UNCHANGED <<data, run>>
    BY <1>1 DEF ReadSave, Decide
  <2> QED
    BY <2>3, <2>4, <2>5, ReadKeeps
<1>2. CASE ReadLink(t)
  <2> DEFINE s == StatusForDraft(row.draft, TRUE)
  <2>1. PICK c \in Containers : Decide(t, "link", s, 0, c)
    BY <1>2 DEF ReadLink
  <2> DEFINE q == [kind |-> "link", status |-> s, revision |-> 0, content |-> c]
  <2>2. s \in Statuses \ {"CLOSED"}
    BY StatusOfDraft
  <2>3. q \in RequestType /\ Knows(q, row, job, artifact)
    <3> HIDE DEF s
    <3>1. q \in RequestType
      BY <2>2 DEF RequestType
    <3>2. Knows(q, row, job, artifact)
      BY <2>2 DEF Knows
    <3> QED
      BY <3>1, <3>2
  <2>4. request' = [request EXCEPT ![t] = q] /\ UNCHANGED <<data, run>>
    BY <1>2, <2>1 DEF ReadLink, Decide
  <2> QED
    BY <2>3, <2>4, ReadKeeps
<1>3. CASE ReadUnlink(t)
  <2> DEFINE s == IF row.draft = Null THEN "OPEN" ELSE "MAPPING"
  <2> DEFINE q == [kind |-> "unlink", status |-> s, revision |-> 0, content |-> Null]
  <2>1. q \in RequestType /\ Knows(q, row, job, artifact)
    BY DEF RequestType, Knows, Statuses
  <2>2. request' = [request EXCEPT ![t] = q] /\ UNCHANGED <<data, run>>
    BY <1>3 DEF ReadUnlink, Decide
  <2> QED
    BY <2>1, <2>2, ReadKeeps
<1>4. CASE ReadClose(t)
  <2> DEFINE q == [kind |-> "close", status |-> "CLOSED", revision |-> 0, content |-> Null]
  <2>1. q \in RequestType /\ Knows(q, row, job, artifact)
    BY DEF RequestType, Knows, Statuses
  <2>2. request' = [request EXCEPT ![t] = q] /\ UNCHANGED <<data, run>>
    BY <1>4 DEF ReadClose, Decide
  <2> QED
    BY <2>1, <2>2, ReadKeeps
<1>5. CASE ReadCapture(t)
  <2> DEFINE s == IF latest # 0 THEN "READY_FOR_REPLAY" ELSE row.status
  <2>1. s \in Statuses \ {"CLOSED"}
    BY <1>0, <1>5 DEF ReadCapture, Statuses
  <2>2. CASE row.snapshot = Null /\ Decide(t, "freeze", s, latest, facts[row.link])
    <3> DEFINE q == [kind |-> "freeze", status |-> s, revision |-> latest,
                     content |-> facts[row.link]]
    <3>1. facts[row.link] \in Facts
      BY <1>5 DEF ReadCapture, IInv, TypeOK
    <3>2. q \in RequestType /\ Knows(q, row, job, artifact)
      BY <1>0, <2>1, <3>1 DEF RequestType, Knows
    <3>3. request' = [request EXCEPT ![t] = q] /\ UNCHANGED <<data, run>>
      BY <1>5, <2>2 DEF ReadCapture, Decide
    <3> QED
      BY <3>2, <3>3, ReadKeeps
  <2>3. CASE row.snapshot # Null /\ latest # 0 /\ Decide(t, "record", s, latest, Null)
    <3> DEFINE q == [kind |-> "record", status |-> s, revision |-> latest, content |-> Null]
    <3>1. q \in RequestType /\ Knows(q, row, job, artifact)
      BY <1>0, <2>1, <2>3 DEF RequestType, Knows, Revisions
    <3>2. request' = [request EXCEPT ![t] = q] /\ UNCHANGED <<data, run>>
      BY <1>5, <2>3 DEF ReadCapture, Decide
    <3> QED
      BY <3>1, <3>2, ReadKeeps
  <2> QED
    BY <1>5, <2>2, <2>3 DEF ReadCapture
<1>6. CASE ReadSubmit(t)
  <2> DEFINE s == IF row.snapshot # Null THEN "AWAITING_APPROVAL" ELSE "AWAITING_COMPLETION"
  <2> DEFINE q == [kind |-> "submit", status |-> s, revision |-> row.revision,
                   content |-> row.draft]
  <2>1. Complete(row.draft) /\ row.draft \in Facts \cup {Incomplete, Null}
    BY <1>6 DEF ReadSubmit, IInv, TypeOK, RowType
  <2>2. row.draft \in Facts
    BY <2>1 DEF Complete
  <2>3. row.revision # 0 /\ row.draft = DraftOf[row.revision]
    BY <2>2 DEF IInv, DraftIsSaved
  <2>4. q \in RequestType /\ Knows(q, row, job, artifact)
    BY <1>0, <2>2, <2>3 DEF RequestType, Knows, Revisions, Statuses
  <2>5. request' = [request EXCEPT ![t] = q] /\ UNCHANGED <<data, run>>
    BY <1>6 DEF ReadSubmit, Decide
  <2> QED
    BY <2>4, <2>5, ReadKeeps
<1>7. CASE ReadApprove(t)
  <2>1. PICK r \in Revisions : Eligible(r) /\ Decide(t, "approve", "OPEN", r, Null)
    BY <1>7 DEF ReadApprove
  <2> DEFINE q == [kind |-> "approve", status |-> "OPEN", revision |-> r, content |-> Null]
  <2>2. /\ row.replay # Null /\ row.replay.passed /\ row.replay.revision = r
        /\ row.replayJob # Null /\ row.replay.job = row.replayJob
        /\ row.snapshot # Null /\ row.replay.manual = row.snapshot
    BY <2>1 DEF Eligible, CompletionReplay
  <2>3. row.replay \in SummaryType /\ row.replayJob \in Jobs
    BY <1>0, <2>2 DEF RowType
  <2>4. /\ job[row.replayJob].revision = r
        /\ artifact[row.replayJob] =
              [status |-> "GENERATED", passed |-> TRUE, manual |-> row.snapshot]
    BY <2>2, <2>3 DEF IInv, SummaryIsOfFile, SummaryType
  <2>5. DraftOf[r] = row.snapshot
    BY <2>3, <2>4 DEF IInv, FilesTell
  <2>6. Proved(r, row, job, artifact)
    BY <2>2, <2>4, <2>5 DEF Proved
  <2>7. q \in RequestType /\ Knows(q, row, job, artifact)
    BY <2>6, DraftOfType DEF RequestType, Knows, Statuses
  <2>8. request' = [request EXCEPT ![t] = q] /\ UNCHANGED <<data, run>>
    BY <1>7, <2>1 DEF ReadApprove, Decide
  <2> QED
    BY <2>7, <2>8, ReadKeeps
<1>8. CASE Abort(t)
  <2>1. Idle \in RequestType /\ Knows(Idle, row, job, artifact)
    BY DEF Idle, RequestType, Knows, Statuses
  <2> QED
    BY <1>8, <2>1, ReadKeeps DEF Abort, End
<1> QED
  BY <1>1, <1>2, <1>3, <1>4, <1>5, <1>6, <1>7, <1>8

-----------------------------------------------------------------------------
\* Requests that write

\* A summary that is not replaced stays that of its file.
LEMMA SummaryStays ==
    ASSUME IInv, Stable, row'.replay = row.replay, row'.revision = row.revision
    PROVE  SummaryIsOfFile'
<1>1. CASE row.replay = Null
  BY <1>1 DEF SummaryIsOfFile
<1>2. CASE row.replay # Null
  <2>1. row.replay \in SummaryType
    BY <1>2 DEF IInv, TypeOK, RowType
  <2>2. row.replay.job \in Jobs /\ artifact[row.replay.job].status = "GENERATED"
    BY <1>2, <2>1 DEF IInv, SummaryIsOfFile, SummaryType
  <2>3. job[row.replay.job].status # "NONE"
    BY <2>2 DEF IInv, JobsKnown
  <2> QED
    BY <1>2, <2>2, <2>3 DEF IInv, SummaryIsOfFile, Stable
<1> QED
  BY <1>1, <1>2

\* Writes that only touch the link, the status and the token.
LEMMA LinkStep ==
    ASSUME IInv, NEW t \in Tx, WriteLink(t) \/ WriteUnlink(t) \/ WriteClose(t)
    PROVE  IInv'
<1>0. row \in RowType /\ request[t] \in RequestType /\ Knows(request[t], row, job, artifact)
  BY DEF IInv, TypeOK, RequestsKnow
<1>1. End(t) /\ UNCHANGED <<version, latest, facts, unloaded, job, artifact, run>>
  BY DEF WriteLink, WriteUnlink, WriteClose
<1>2. Turning
  BY <1>1, EndTurns DEF Turning
<1>3. RowKept
  <2>1. CASE WriteLink(t)
    <3>1. request[t].content \in Containers /\ request[t].status \in Statuses
      BY <1>0, <2>1 DEF WriteLink, Is, Knows, RequestType
    <3> QED
      BY <1>0, <2>1, <3>1 DEF WriteLink, Update, RowKept, RowType
  <2>2. CASE WriteUnlink(t)
    <3>1. request[t].status \in Statuses
      BY <1>0 DEF RequestType
    <3> QED
      BY <1>0, <2>2, <3>1 DEF WriteUnlink, Update, RowKept, RowType
  <2>3. CASE WriteClose(t)
    BY <1>0, <2>3 DEF WriteClose, Update, RowKept, RowType, Statuses
  <2> QED
    BY <2>1, <2>2, <2>3
<1> QED
  BY <1>1, <1>2, <1>3, QuietStep DEF IInv, TypeOK

\* A saved draft takes the summary of the former one with it.
LEMMA SaveStep ==
    ASSUME IInv, NEW t \in Tx, WriteSave(t)
    PROVE  IInv'
<1> DEFINE q == request[t]
<1>0. row \in RowType /\ q \in RequestType /\ Knows(q, row, job, artifact) /\ q.kind = "save"
  BY DEF IInv, TypeOK, RequestsKnow, WriteSave, Is
<1>1. q.revision \in Revisions /\ q.content = DraftOf[q.revision] /\ q.status \in Statuses
  BY <1>0 DEF Knows, RequestType
<1>2. q.content \in Facts \cup {Incomplete} /\ q.revision \in 0..MaxRevision /\ q.revision # 0
  BY <1>1, DraftOfType
<1>3. /\ row' = [row EXCEPT !.draft = q.content, !.revision = q.revision,
                            !.status = q.status, !.replay = Null, !.token = Null]
      /\ RowCheck(row') /\ End(t)
      /\ UNCHANGED <<version, latest, facts, unloaded, job, artifact, run>>
  BY DEF WriteSave, Update
<1> HIDE DEF q
<1>4. row' \in RowType
  BY <1>0, <1>1, <1>2, <1>3 DEF RowType
<1>5. /\ row'.draft = q.content /\ row'.revision = q.revision /\ row'.replay = Null
      /\ row'.snapshot = row.snapshot /\ row'.replayJob = row.replayJob
  BY <1>0, <1>3 DEF RowType
<1>6. Stable
  BY <1>3, <1>5 DEF Stable
<1>7. RequestsKnow' /\ request' \in [Tx -> RequestType]
  BY <1>3, <1>6, EndTurns, RequestsStay
<1>8. VersionsProved'
  BY <1>3, <1>6, VersionsStay
<1>9. TypeOK'
  BY <1>3, <1>4, <1>7 DEF IInv, TypeOK
<1>10. DraftIsSaved'
  BY <1>1, <1>2, <1>5 DEF DraftIsSaved
<1>11. JobsKnown' /\ FilesTell' /\ RunsTell'
  BY <1>3 DEF IInv, JobsKnown, FilesTell, RunsTell
<1>12. SummaryIsOfFile' /\ CompletionNamed'
  BY <1>3, <1>5 DEF IInv, SummaryIsOfFile, CompletionNamed
<1> QED
  BY <1>7, <1>8, <1>9, <1>10, <1>11, <1>12 DEF IInv

\* A job that is recorded was not there before.
LEMMA NewJobKeeps ==
    ASSUME IInv, NEW j \in Jobs, NEW s \in {"QUEUED", "RECORDED"}, NEW r \in Revisions,
           NEW c \in BOOLEAN, NewJob(j, s, r, c), UNCHANGED <<artifact, run>>
    PROVE  /\ job' \in [Jobs -> JobType]
           /\ JobsKnown' /\ FilesTell' /\ RunsTell'
           /\ ~job[j].completion /\ job'[j].completion = c
           /\ \A i \in Jobs : i # j => job'[i] = job[i]
           /\ \A i \in Jobs : job[i].status # "NONE" => job'[i] = job[i]
<1> DEFINE new == [status |-> s, revision |-> r, completion |-> c]
<1>0. job \in [Jobs -> JobType]
  BY DEF IInv, TypeOK
<1>1. job[j].status = "NONE" /\ job' = [job EXCEPT ![j] = new]
  BY DEF NewJob
<1>2. new \in JobType /\ new.status # "NONE" /\ new.revision \in Revisions
  BY DraftOfType DEF JobType
<1>3. /\ artifact[j].status = "NONE" /\ run[j].step = "idle" /\ ~job[j].completion
  BY <1>1 DEF IInv, JobsKnown
<1>4. new.completion = c
  OBVIOUS
<1> HIDE DEF new
<1>5. /\ job'[j] = new
      /\ \A i \in Jobs : i # j => job'[i] = job[i]
  BY <1>0, <1>1
<1>6. job' \in [Jobs -> JobType]
  BY <1>0, <1>1, <1>2
<1>7. JobsKnown'
  BY <1>2, <1>5 DEF IInv, JobsKnown
<1>8. FilesTell'
  BY <1>3, <1>5 DEF IInv, FilesTell
<1>9. RunsTell'
  BY <1>3, <1>5 DEF IInv, RunsTell
<1> QED
  BY <1>1, <1>3, <1>4, <1>5, <1>6, <1>7, <1>8, <1>9

\* A replay a user asks for.
LEMMA QueueStep ==
    ASSUME IInv, Queue
    PROVE  IInv'
<1>1. PICK j \in Jobs : NewJob(j, "QUEUED", row.revision, FALSE)
  BY DEF Queue
<1>2. UNCHANGED <<row, version, latest, facts, unloaded, artifact, run, request>>
  BY DEF Queue
<1>3. row.revision \in Revisions
  BY LearningCaseAssumption
     DEF Queue, ReplayReady, Complete, IInv, TypeOK, RowType, DraftIsSaved, Revisions
<1>4. /\ job' \in [Jobs -> JobType] /\ JobsKnown' /\ FilesTell' /\ RunsTell'
      /\ ~job[j].completion /\ ~job'[j].completion
      /\ \A i \in Jobs : i # j => job'[i] = job[i]
      /\ \A i \in Jobs : job[i].status # "NONE" => job'[i] = job[i]
  BY <1>1, <1>2, <1>3, NewJobKeeps
<1>5. Stable
  BY <1>2, <1>4 DEF Stable
<1>6. RequestsKnow' /\ VersionsProved' /\ SummaryIsOfFile'
  BY <1>2, <1>5, RequestsStay, VersionsStay, SummaryStays
<1>7. TypeOK'
  BY <1>2, <1>4 DEF IInv, TypeOK
<1>8. DraftIsSaved'
  BY <1>2 DEF IInv, DraftIsSaved
<1>9. CompletionNamed'
  <2>1. row.replayJob # Null => row.replayJob \in Jobs /\ row.replayJob # j
    BY <1>4 DEF IInv, TypeOK, RowType, CompletionNamed
  <2> QED
    BY <1>2, <1>4, <2>1 DEF IInv, CompletionNamed
<1> QED
  BY <1>4, <1>6, <1>7, <1>8, <1>9 DEF IInv

-----------------------------------------------------------------------------
\* Captures, submissions and approvals

\* While no snapshot, or no job, is named there is no replay of a completion.
LEMMA NoCompletion ==
    ASSUME IInv, row.snapshot = Null \/ KeyFree
    PROVE  row.replayJob = Null /\ \A j \in Jobs : ~job[j].completion
<1>1. row.replayJob \in Jobs \cup {Null}
  BY DEF IInv, TypeOK, RowType
<1>2. row.replayJob = Null
  BY <1>1 DEF IInv, CompletionNamed, KeyFree
<1>3. \A j \in Jobs : j # Null
  BY LearningCaseAssumption
<1> QED
  BY <1>2, <1>3 DEF IInv, CompletionNamed

\* A job of a completion is recorded, and the case names it.
LEMMA CaptureKeeps ==
    ASSUME IInv, NEW t \in Tx, NEW j \in Jobs, NEW r \in Revisions, NEW f \in Facts,
           NEW s \in Statuses,
           NewJob(j, "RECORDED", r, TRUE),
           row' = [row EXCEPT !.snapshot = f, !.replayJob = j, !.status = s],
           RowCheck(row'), End(t),
           row.snapshot = Null \/ (row.snapshot = f /\ KeyFree),
           UNCHANGED <<version, latest, facts, unloaded, artifact, run>>
    PROVE  IInv'
<1>0. row \in RowType
  BY DEF IInv, TypeOK
<1>1. row.replayJob = Null /\ \A i \in Jobs : ~job[i].completion
  BY NoCompletion
<1>2. /\ job' \in [Jobs -> JobType] /\ JobsKnown' /\ FilesTell' /\ RunsTell'
      /\ job'[j].completion
      /\ \A i \in Jobs : i # j => job'[i] = job[i]
      /\ \A i \in Jobs : job[i].status # "NONE" => job'[i] = job[i]
  BY NewJobKeeps
<1>3. /\ row' \in RowType /\ row'.snapshot = f /\ row'.replayJob = j
      /\ row'.replay = row.replay /\ row'.revision = row.revision /\ row'.draft = row.draft
  BY <1>0 DEF RowType
<1>4. Stable
  BY <1>1, <1>2, <1>3 DEF Stable
<1>5. RequestsKnow' /\ request' \in [Tx -> RequestType]
  BY <1>4, EndTurns, RequestsStay
<1>6. VersionsProved' /\ SummaryIsOfFile'
  BY <1>3, <1>4, VersionsStay, SummaryStays
<1>7. TypeOK'
  BY <1>2, <1>3, <1>5 DEF IInv, TypeOK
<1>8. DraftIsSaved'
  BY <1>3 DEF IInv, DraftIsSaved
<1>9. CompletionNamed'
  BY <1>1, <1>2, <1>3, LearningCaseAssumption DEF CompletionNamed
<1> QED
  BY <1>2, <1>5, <1>6, <1>7, <1>8, <1>9 DEF IInv

LEMMA FreezeStep ==
    ASSUME IInv, NEW t \in Tx, Freeze(t)
    PROVE  IInv'
<1> DEFINE q == request[t]
<1>0. row \in RowType /\ q \in RequestType /\ Knows(q, row, job, artifact) /\ q.kind = "freeze"
  BY DEF IInv, TypeOK, RequestsKnow, Freeze, Is
<1>1. q.content \in Facts /\ q.status \in Statuses /\ q.revision \in 0..MaxRevision
  BY <1>0 DEF Knows, RequestType
<1>2. End(t) /\ UNCHANGED <<version, latest, facts, unloaded, artifact, run>>
  BY DEF Freeze
<1>3. row.snapshot = Null
  BY DEF Freeze, NotFrozen
<1>4. ASSUME q.revision = 0,
             Update([row EXCEPT !.snapshot = q.content, !.replayJob = Null,
                                !.status = q.status]),
             UNCHANGED job
      PROVE  IInv'
  <2>0. row.replayJob = Null
    BY <1>3, NoCompletion
  <2>1. /\ row' = [row EXCEPT !.snapshot = q.content, !.replayJob = Null,
                              !.status = q.status]
        /\ RowCheck(row')
    BY <1>4 DEF Update
  <2> HIDE DEF q
  <2>2. /\ row' \in RowType /\ row'.snapshot = q.content /\ row'.replayJob = Null
        /\ row'.replay = row.replay /\ row'.revision = row.revision
        /\ row'.draft = row.draft
    BY <1>0, <1>1, <2>1 DEF RowType
  <2>3. Stable
    BY <1>2, <1>3, <1>4, <2>0, <2>2 DEF Stable
  <2>4. RequestsKnow' /\ request' \in [Tx -> RequestType]
    BY <1>2, <2>3, EndTurns, RequestsStay
  <2>5. VersionsProved' /\ SummaryIsOfFile'
    BY <1>2, <2>2, <2>3, VersionsStay, SummaryStays
  <2>6. TypeOK'
    BY <1>2, <1>4, <2>1, <2>2, <2>4 DEF IInv, TypeOK
  <2>7. DraftIsSaved' /\ CompletionNamed'
    BY <1>4, <2>0, <2>2 DEF IInv, DraftIsSaved, CompletionNamed
  <2>8. JobsKnown' /\ FilesTell' /\ RunsTell'
    BY <1>2, <1>4 DEF IInv, JobsKnown, FilesTell, RunsTell
  <2> QED
    BY <2>4, <2>5, <2>6, <2>7, <2>8 DEF IInv
<1>5. ASSUME q.revision # 0, NEW j \in Jobs,
             NewJob(j, "RECORDED", q.revision, TRUE),
             Update([row EXCEPT !.snapshot = q.content, !.replayJob = j,
                                !.status = q.status])
      PROVE  IInv'
  <2>1. q.revision \in Revisions
    BY <1>1, <1>5, LearningCaseAssumption DEF Revisions
  <2>2. row' = [row EXCEPT !.snapshot = q.content, !.replayJob = j, !.status = q.status]
        /\ RowCheck(row')
    BY <1>5 DEF Update
  <2>3. row.snapshot = Null \/ (row.snapshot = q.content /\ KeyFree)
    BY <1>3
  <2>4. NewJob(j, "RECORDED", q.revision, TRUE)
    BY <1>5
  <2> QED
    BY <1>1, <1>2, <2>1, <2>2, <2>3, <2>4, CaptureKeeps
<1> QED
  BY <1>4, <1>5 DEF Freeze

LEMMA RecordStep ==
    ASSUME IInv, NEW t \in Tx, RecordMissingJob(t)
    PROVE  IInv'
<1> DEFINE q == request[t]
<1>0. row \in RowType /\ q \in RequestType /\ Knows(q, row, job, artifact) /\ q.kind = "record"
  BY DEF IInv, TypeOK, RequestsKnow, RecordMissingJob, Is
<1>1. q.revision \in Revisions /\ q.status \in Statuses /\ row.snapshot \in Facts
  BY <1>0 DEF Knows, RequestType, RowType
<1>2. /\ End(t) /\ KeyFree
      /\ UNCHANGED <<version, latest, facts, unloaded, artifact, run>>
  BY DEF RecordMissingJob
<1>3. PICK j \in Jobs : /\ NewJob(j, "RECORDED", q.revision, TRUE)
                        /\ Update([row EXCEPT !.replayJob = j, !.status = q.status])
  BY DEF RecordMissingJob
<1>4. row' = [row EXCEPT !.snapshot = row.snapshot, !.replayJob = j, !.status = q.status]
      /\ RowCheck(row')
  BY <1>0, <1>3 DEF Update, RowType
<1> QED
  BY <1>1, <1>2, <1>3, <1>4, CaptureKeeps

\* The version that is submitted, or approved, is the draft of its revision.
LEMMA VersionStep ==
    ASSUME IInv, NEW t \in Tx, WriteSubmit(t) \/ WriteApprove(t)
    PROVE  IInv'
<1> DEFINE q == request[t]
<1>0. /\ row \in RowType /\ q \in RequestType /\ Knows(q, row, job, artifact)
      /\ version \in [Revisions -> VersionType] /\ q.kind \in {"submit", "approve"}
  BY DEF IInv, TypeOK, RequestsKnow, WriteSubmit, WriteApprove, Is
<1>1. End(t) /\ UNCHANGED <<facts, unloaded, job, artifact, run>>
  BY DEF WriteSubmit, WriteApprove
<1>2. q.revision \in Revisions /\ q.revision \in 0..MaxRevision /\ q.status \in Statuses
  BY <1>0, DraftOfType DEF Knows, RequestType
<1>3. RowKept /\ latest' \in 0..MaxRevision
  <2>1. CASE WriteSubmit(t)
    <3>1. row' = [row EXCEPT !.status = q.status] /\ RowCheck(row') /\ latest' = q.revision
      BY <2>1 DEF WriteSubmit, Update
    <3> QED
      BY <1>0, <1>2, <3>1 DEF RowKept, RowType
  <2>2. CASE WriteApprove(t)
    BY <2>2 DEF WriteApprove, RowKept, IInv, TypeOK
  <2> QED
    BY <2>1, <2>2
<1>4. Stable
  BY <1>1, <1>3 DEF Stable, RowKept
<1>5. RequestsKnow' /\ request' \in [Tx -> RequestType]
  BY <1>1, <1>4, EndTurns, RequestsStay
<1>6. \A r \in Revisions : Proved(r, row, job, artifact) => Proved(r, row', job', artifact')
  BY <1>4, ProvedStays
<1>7. version' \in [Revisions -> VersionType] /\ VersionsProved'
  <2>1. CASE WriteSubmit(t)
    <3>1. q.content \in Facts /\ q.content = DraftOf[q.revision]
      BY <1>0, <2>1 DEF WriteSubmit, Is, Knows
    <3> DEFINE new == [status |-> "DRAFT", draft |-> q.content]
    <3>2. version' = [version EXCEPT ![q.revision] = new]
      BY <2>1 DEF WriteSubmit
    <3>3. new \in VersionType /\ new.draft = DraftOf[q.revision] /\ new.status = "DRAFT"
      BY <3>1 DEF VersionType
    <3> HIDE DEF new, q
    <3>4. version' \in [Revisions -> VersionType]
      BY <1>0, <1>2, <3>2, <3>3
    <3>5. VersionsProved'
      BY <1>0, <1>2, <1>6, <3>2, <3>3 DEF IInv, VersionsProved
    <3> QED
      BY <3>4, <3>5
  <2>2. CASE WriteApprove(t)
    <3>1. Proved(q.revision, row, job, artifact) /\ version[q.revision].status = "DRAFT"
      BY <1>0, <2>2 DEF WriteApprove, Is, Knows
    <3>2. version' = [version EXCEPT ![q.revision].status = "ACTIVE"]
      BY <2>2 DEF WriteApprove
    <3> QED
      BY <1>0, <1>2, <1>6, <3>1, <3>2 DEF IInv, VersionsProved, VersionType
  <2> QED
    BY <2>1, <2>2
<1>8. TypeOK'
  BY <1>1, <1>3, <1>5, <1>7 DEF IInv, TypeOK, RowKept
<1>9. DraftIsSaved' /\ CompletionNamed'
  BY <1>1, <1>3 DEF IInv, DraftIsSaved, CompletionNamed, RowKept
<1>10. JobsKnown' /\ FilesTell' /\ RunsTell'
  BY <1>1 DEF IInv, JobsKnown, FilesTell, RunsTell
<1>11. SummaryIsOfFile'
  BY <1>3, <1>4, SummaryStays DEF RowKept
<1> QED
  BY <1>5, <1>7, <1>8, <1>9, <1>10, <1>11 DEF IInv

-----------------------------------------------------------------------------
\* Steps of a job

\* The row keeps what RowKept says, except perhaps the summary.
CaseKept ==
    /\ row' \in RowType /\ RowCheck(row')
    /\ row'.draft = row.draft /\ row'.revision = row.revision
    /\ row'.snapshot = row.snapshot /\ row'.replayJob = row.replayJob

\* What RunsTell says of a process r and what FilesTell says of a file a.
RunTells(r, a, revision) ==
    /\ r.step \in {"claim", "work", "commit"} =>
          r.manual \in Facts /\ (r.passed => r.manual = DraftOf[revision])
    /\ r.step \in {"claim", "work", "commit", "fail"} => a.status # "GENERATED"
FileTells(a, revision) ==
    a.status = "GENERATED" /\ a.passed => a.manual = DraftOf[revision]

\* A job that is there takes another status, file and process.
LEMMA JobMoves ==
    ASSUME IInv, NEW j \in Jobs, job[j].status # "NONE",
           NEW s \in {"RECORDED", "QUEUED", "RUNNING", "FAILED", "SUCCEEDED"},
           NEW a \in ArtifactType, NEW r \in RunType,
           job' = [job EXCEPT ![j].status = s],
           artifact' = [artifact EXCEPT ![j] = a],
           run' = [run EXCEPT ![j] = r],
           artifact[j].status = "GENERATED" => a = artifact[j],
           FileTells(a, job[j].revision), RunTells(r, a, job[j].revision),
           CaseKept, row'.replay = row.replay \/ SummaryIsOfFile',
           UNCHANGED <<version, latest, facts, unloaded, request>>
    PROVE  IInv'
<1>0. /\ job \in [Jobs -> JobType] /\ artifact \in [Jobs -> ArtifactType]
      /\ run \in [Jobs -> RunType]
  BY DEF IInv, TypeOK
<1>1. /\ job'[j].status = s /\ artifact'[j] = a /\ run'[j] = r
      /\ \A i \in Jobs : /\ job'[i].revision = job[i].revision
                         /\ job'[i].completion = job[i].completion
      /\ \A i \in Jobs : i # j => /\ job'[i] = job[i] /\ artifact'[i] = artifact[i]
                                  /\ run'[i] = run[i]
  BY <1>0 DEF JobType
<1>2. /\ job' \in [Jobs -> JobType] /\ artifact' \in [Jobs -> ArtifactType]
      /\ run' \in [Jobs -> RunType]
  BY <1>0 DEF JobType
<1>3. Stable
  BY <1>1 DEF Stable, CaseKept
<1>4. RequestsKnow' /\ VersionsProved'
  BY <1>3, RequestsStay, VersionsStay
<1>5. TypeOK'
  BY <1>2 DEF IInv, TypeOK, CaseKept
<1>6. DraftIsSaved'
  BY DEF IInv, DraftIsSaved, CaseKept
<1>7. JobsKnown'
  BY <1>1 DEF IInv, JobsKnown
<1>8. FilesTell'
  BY <1>1 DEF IInv, FilesTell, FileTells
<1>9. RunsTell'
  BY <1>1 DEF IInv, RunsTell, RunTells
<1>10. SummaryIsOfFile'
  BY <1>3, SummaryStays DEF CaseKept
<1>11. CompletionNamed'
  <2>1. row.replayJob \in Jobs \cup {Null}
    BY DEF IInv, TypeOK, RowType
  <2> QED
    BY <1>1, <2>1 DEF IInv, CompletionNamed, CaseKept
<1> QED
  BY <1>4, <1>5, <1>6, <1>7, <1>8, <1>9, <1>10, <1>11 DEF IInv

\* A failed replay only moves the status and the token.
LEMMA FailedKeeps ==
    ASSUME IInv, NEW revision, NEW token, ReplayFailed(revision, token)
    PROVE  RowKept
<1>1. row \in RowType /\ RowCheck(row)
  BY DEF IInv, TypeOK
<1>2. CASE Update([row EXCEPT !.status = "REPLAY_FAILED", !.token = Null])
  BY <1>1, <1>2 DEF Update, RowKept, RowType, Statuses
<1>3. CASE UNCHANGED row
  BY <1>1, <1>3 DEF RowKept
<1> QED
  BY <1>2, <1>3 DEF ReplayFailed

\* A process that is under way has a job, and all are of their types.
LEMMA UnderWay ==
    ASSUME IInv, NEW j \in Jobs
    PROVE  /\ job[j] \in JobType /\ artifact[j] \in ArtifactType /\ run[j] \in RunType
           /\ IdleRun \in RunType
           /\ run[j].step # "idle" => job[j].status # "NONE"
           /\ FileTells(artifact[j], job[j].revision)
           /\ RunTells(run[j], artifact[j], job[j].revision)
           /\ RunTells(IdleRun, artifact[j], job[j].revision)
           /\ job[j].status \in {"NONE", "RECORDED", "QUEUED", "RUNNING", "FAILED",
                                 "SUCCEEDED"}
           /\ job = [job EXCEPT ![j].status = job[j].status]
           /\ artifact = [artifact EXCEPT ![j] = artifact[j]]
           /\ run = [run EXCEPT ![j] = run[j]]
           /\ UNCHANGED row => RowKept
<1>1. /\ job[j] \in JobType /\ artifact[j] \in ArtifactType /\ run[j] \in RunType
      /\ job \in [Jobs -> JobType] /\ artifact \in [Jobs -> ArtifactType]
      /\ run \in [Jobs -> RunType] /\ row \in RowType /\ RowCheck(row)
  BY DEF IInv, TypeOK
<1>2. IdleRun \in RunType
  BY DEF IdleRun, RunType
<1>3. run[j].step # "idle" => job[j].status # "NONE"
  BY DEF IInv, JobsKnown
<1>4. FileTells(artifact[j], job[j].revision)
  BY DEF IInv, FilesTell, FileTells
<1>5. RunTells(run[j], artifact[j], job[j].revision)
  BY DEF IInv, RunsTell, RunTells
<1>6. RunTells(IdleRun, artifact[j], job[j].revision)
  BY DEF RunTells, IdleRun
<1>7. job = [job EXCEPT ![j].status = job[j].status]
  BY <1>1 DEF JobType
<1>8. /\ artifact = [artifact EXCEPT ![j] = artifact[j]]
      /\ run = [run EXCEPT ![j] = run[j]]
  BY <1>1
<1>9. UNCHANGED row => RowKept
  BY <1>1 DEF RowKept
<1>10. job[j].status \in {"NONE", "RECORDED", "QUEUED", "RUNNING", "FAILED", "SUCCEEDED"}
  BY <1>1 DEF JobType
<1> QED
  BY <1>1, <1>2, <1>3, <1>4, <1>5, <1>6, <1>7, <1>8, <1>9, <1>10

\* Where a process goes next, it carries what it knows.
LEMMA GotoTells ==
    ASSUME IInv, NEW j \in Jobs, NEW step \in {"work", "commit", "fail", "record", "finish"},
           Goto(j, step),
           step \in {"work", "commit"} => run[j].step \in {"claim", "work", "commit"},
           step = "fail" => run[j].step \in {"claim", "work", "commit"}
    PROVE  \E r \in RunType : /\ run' = [run EXCEPT ![j] = r] /\ r.step = step
                              /\ RunTells(r, artifact[j], job[j].revision)
<1> DEFINE r == [run[j] EXCEPT !.step = step]
<1>1. run[j] \in RunType /\ RunTells(run[j], artifact[j], job[j].revision)
  BY UnderWay
<1>2. r \in RunType /\ r.step = step
  BY <1>1 DEF RunType
<1>3. r.manual = run[j].manual /\ r.passed = run[j].passed
  BY <1>1 DEF RunType
<1>4. run' = [run EXCEPT ![j] = r]
  BY DEF Goto
<1> HIDE DEF r
<1>5. RunTells(r, artifact[j], job[j].revision)
  BY <1>1, <1>2, <1>3 DEF RunTells
<1> QED
  BY <1>2, <1>4, <1>5

\* Steps that change neither the file nor what the process compares.
LEMMA PlainStep ==
    ASSUME IInv, NEW j \in Jobs,
           \/ Dispatch(j) \/ Claim(j) \/ WorkFails(j) \/ Finish(j)
           \/ RecordFailure(j) \/ Lost(j)
    PROVE  IInv'
<1>0. /\ job[j] \in JobType /\ artifact[j] \in ArtifactType /\ run[j] \in RunType
      /\ IdleRun \in RunType
      /\ run[j].step # "idle" => job[j].status # "NONE"
      /\ FileTells(artifact[j], job[j].revision)
      /\ RunTells(run[j], artifact[j], job[j].revision)
      /\ RunTells(IdleRun, artifact[j], job[j].revision)
      /\ job[j].status \in {"NONE", "RECORDED", "QUEUED", "RUNNING", "FAILED", "SUCCEEDED"}
      /\ job = [job EXCEPT ![j].status = job[j].status]
      /\ artifact = [artifact EXCEPT ![j] = artifact[j]]
      /\ run = [run EXCEPT ![j] = run[j]]
      /\ UNCHANGED row => RowKept
  BY UnderWay
<1>1. ASSUME job[j].status # "NONE", RowKept,
             NEW s \in {"RECORDED", "QUEUED", "RUNNING", "FAILED", "SUCCEEDED"},
             NEW r \in RunType, RunTells(r, artifact[j], job[j].revision),
             job' = [job EXCEPT ![j].status = s], run' = [run EXCEPT ![j] = r],
             UNCHANGED <<version, latest, facts, unloaded, artifact, request>>
      PROVE  IInv'
  <2>1. artifact' = [artifact EXCEPT ![j] = artifact[j]]
    BY <1>0, <1>1
  <2>2. CaseKept /\ row'.replay = row.replay
    BY <1>1 DEF RowKept, CaseKept
  <2> QED
    BY <1>0, <1>1, <2>1, <2>2, JobMoves
<1>2. CASE Dispatch(j)
  <2>1. /\ job[j].status # "NONE" /\ job' = [job EXCEPT ![j].status = "QUEUED"]
        /\ UNCHANGED <<row, version, latest, facts, unloaded, artifact, run, request>>
    BY <1>2 DEF Dispatch
  <2>2. run' = [run EXCEPT ![j] = run[j]]
    BY <1>0, <2>1
  <2> QED
    BY <1>0, <1>1, <2>1, <2>2
<1>3. CASE Claim(j)
  <2>1. /\ run[j].step = "claim" /\ job[j].status # "NONE"
        /\ UNCHANGED <<version, latest, facts, unloaded, job, artifact, request>>
    BY <1>0, <1>3 DEF Claim, RunAt
  <2>2. RowKept /\ (Goto(j, "work") \/ Goto(j, "fail"))
    <3>1. row \in RowType
      BY DEF IInv, TypeOK
    <3>2. CASE Update([row EXCEPT !.token = j]) /\ Goto(j, "work")
      BY <3>1, <3>2 DEF Update, RowKept, RowType
    <3> QED
      BY <1>0, <1>3, <3>2 DEF Claim
  <2>3. PICK r \in RunType : /\ run' = [run EXCEPT ![j] = r]
                             /\ RunTells(r, artifact[j], job[j].revision)
    BY <2>1, <2>2, GotoTells
  <2>4. job' = [job EXCEPT ![j].status = job[j].status]
    BY <1>0, <2>1
  <2> QED
    BY <1>0, <1>1, <2>1, <2>2, <2>3, <2>4
<1>4. CASE WorkFails(j)
  <2>1. /\ run[j].step \in {"work", "commit"} /\ job[j].status # "NONE"
        /\ Goto(j, "fail") /\ UNCHANGED <<data, request>>
    BY <1>0, <1>4 DEF WorkFails
  <2>2. PICK r \in RunType : /\ run' = [run EXCEPT ![j] = r]
                             /\ RunTells(r, artifact[j], job[j].revision)
    BY <2>1, GotoTells
  <2>3. job' = [job EXCEPT ![j].status = job[j].status]
    BY <1>0, <2>1 DEF data
  <2>4. RowKept /\ UNCHANGED <<version, latest, facts, unloaded, artifact, request>>
    BY <1>0, <2>1 DEF data
  <2> QED
    BY <1>0, <1>1, <2>1, <2>2, <2>3, <2>4
<1>5. CASE Finish(j)
  <2>1. /\ run[j].step # "idle" /\ job' = [job EXCEPT ![j].status = "SUCCEEDED"]
        /\ run' = [run EXCEPT ![j] = IdleRun]
        /\ UNCHANGED <<row, version, latest, facts, unloaded, artifact, request>>
    BY <1>5 DEF Finish, RunAt
  <2> QED
    BY <1>0, <1>1, <2>1
<1>6. CASE RecordFailure(j)
  <2>1. /\ run[j].step # "idle" /\ run' = [run EXCEPT ![j] = IdleRun]
        /\ UNCHANGED <<version, latest, facts, unloaded, artifact, request>>
        /\ \E s \in {"QUEUED", "FAILED"} : job' = [job EXCEPT ![j].status = s]
    BY <1>6 DEF RecordFailure, RunAt
  <2>2. RowKept
    BY <1>6, FailedKeeps DEF RecordFailure
  <2> QED
    BY <1>0, <1>1, <2>1, <2>2
<1>7. CASE Lost(j)
  <2>1. /\ run[j].step # "idle" /\ job' = [job EXCEPT ![j].status = "QUEUED"]
        /\ run' = [run EXCEPT ![j] = IdleRun]
        /\ UNCHANGED <<row, version, latest, facts, unloaded, artifact, request>>
    BY <1>7 DEF Lost, RunAt
  <2> QED
    BY <1>0, <1>1, <2>1
<1> QED
  BY <1>2, <1>3, <1>4, <1>5, <1>6, <1>7

\* A worker takes the job: the comparison starts from the draft of the job's revision.
LEMMA StartStep ==
    ASSUME IInv, NEW j \in Jobs, StartRun(j)
    PROVE  IInv'
<1>0. /\ job[j] \in JobType /\ artifact[j] \in ArtifactType /\ run[j] \in RunType
      /\ FileTells(artifact[j], job[j].revision)
      /\ RunTells(run[j], artifact[j], job[j].revision)
      /\ artifact = [artifact EXCEPT ![j] = artifact[j]]
      /\ UNCHANGED row => RowKept
  BY UnderWay
<1>1. /\ job[j].status # "NONE" /\ job' = [job EXCEPT ![j].status = "RUNNING"]
      /\ UNCHANGED <<row, version, latest, facts, unloaded, request>>
  BY DEF StartRun
<1>2. CaseKept /\ row'.replay = row.replay
  BY <1>0, <1>1 DEF RowKept, CaseKept
<1>3. ASSUME NEW step \in {"record", "finish"}, Goto(j, step), UNCHANGED artifact
      PROVE  IInv'
  <2>1. PICK r \in RunType : /\ run' = [run EXCEPT ![j] = r]
                             /\ RunTells(r, artifact[j], job[j].revision)
    BY <1>3, GotoTells
  <2>2. artifact' = [artifact EXCEPT ![j] = artifact[j]]
    BY <1>0, <1>3
  <2> QED
    BY <1>0, <1>1, <1>2, <2>1, <2>2, JobMoves
<1> DEFINE manual == ManualSnapshot(row)
<1> DEFINE r == [step |-> "claim", manual |-> manual,
                 candidate |-> row.snapshot # Null /\ latest # 0,
                 passed |-> row.draft = manual]
<1>4. ASSUME row.revision = job[j].revision, row.draft # Null, row.link # Null, ~Done(j),
             artifact' = [artifact EXCEPT ![j].status = "GENERATING"],
             run' = [run EXCEPT ![j] = r]
      PROVE  IInv'
  <2>1. manual \in Facts
    BY <1>4 DEF ManualSnapshot, IInv, TypeOK, RowType
  <2>2. row.draft = DraftOf[job[j].revision]
    BY <1>4 DEF IInv, DraftIsSaved
  <2>3. r \in RunType
    BY <2>1 DEF RunType
  <2> DEFINE a == [artifact[j] EXCEPT !.status = "GENERATING"]
  <2>4. a \in ArtifactType /\ a.status = "GENERATING"
    BY <1>0 DEF ArtifactType
  <2>5. artifact' = [artifact EXCEPT ![j] = a] /\ artifact[j].status # "GENERATED"
    BY <1>4 DEF Done
  <2>6. r.step = "claim" /\ r.manual = manual /\ (r.passed => row.draft = manual)
    OBVIOUS
  <2> HIDE DEF a, r
  <2>7. RunTells(r, a, job[j].revision) /\ FileTells(a, job[j].revision)
    BY <2>1, <2>2, <2>4, <2>6 DEF RunTells, FileTells
  <2> QED
    BY <1>1, <1>2, <1>4, <2>3, <2>4, <2>5, <2>7, JobMoves
<1> HIDE DEF r, manual
<1> QED
  BY <1>3, <1>4 DEF StartRun, CaseOpen, r, manual

\* The worker has compared; the file says what it found.
LEMMA WorkStep ==
    ASSUME IInv, NEW j \in Jobs, Work(j)
    PROVE  IInv'
<1>0. /\ job[j] \in JobType /\ artifact[j] \in ArtifactType /\ run[j] \in RunType
      /\ FileTells(artifact[j], job[j].revision)
      /\ RunTells(run[j], artifact[j], job[j].revision)
      /\ run[j].step # "idle" => job[j].status # "NONE"
      /\ job[j].status \in {"NONE", "RECORDED", "QUEUED", "RUNNING", "FAILED", "SUCCEEDED"}
      /\ job = [job EXCEPT ![j].status = job[j].status]
      /\ artifact = [artifact EXCEPT ![j] = artifact[j]]
      /\ UNCHANGED row => RowKept
  BY UnderWay
<1> DEFINE changed == row.link = Null \/ ManualSnapshot(row) # run[j].manual
<1>1. /\ run[j].step = "work" /\ job[j].status # "NONE"
      /\ run' = [run EXCEPT ![j].step = "commit", ![j].passed = @ /\ ~changed]
      /\ UNCHANGED <<data, request>>
  BY <1>0 DEF Work, RunAt
<1> DEFINE r == [run[j] EXCEPT !.step = "commit", !.passed = @ /\ ~changed]
<1>2. changed \in BOOLEAN
  OBVIOUS
<1> HIDE DEF changed
<1>3. r \in RunType
  BY <1>0, <1>2 DEF RunType
<1>4. r.step = "commit" /\ r.manual = run[j].manual /\ (r.passed => run[j].passed)
  BY <1>0 DEF RunType
<1>5. run' = [run EXCEPT ![j] = r]
  BY <1>1 DEF IInv, TypeOK, RunType
<1> HIDE DEF r
<1>6. RunTells(r, artifact[j], job[j].revision)
  BY <1>0, <1>1, <1>4 DEF RunTells
<1>7. /\ CaseKept /\ row'.replay = row.replay
      /\ UNCHANGED <<version, latest, facts, unloaded, request>>
      /\ job' = [job EXCEPT ![j].status = job[j].status]
      /\ artifact' = [artifact EXCEPT ![j] = artifact[j]]
  BY <1>0, <1>1 DEF RowKept, CaseKept, data
<1> QED
  BY <1>0, <1>1, <1>3, <1>5, <1>6, <1>7, JobMoves

\* The result is committed with its file, and as a summary if the case is still claimed.
LEMMA CommitStep ==
    ASSUME IInv, NEW j \in Jobs, Commit(j)
    PROVE  IInv'
<1>0. /\ job[j] \in JobType /\ artifact[j] \in ArtifactType /\ run[j] \in RunType
      /\ RunTells(run[j], artifact[j], job[j].revision)
      /\ run[j].step # "idle" => job[j].status # "NONE"
      /\ job[j].status \in {"NONE", "RECORDED", "QUEUED", "RUNNING", "FAILED", "SUCCEEDED"}
      /\ job = [job EXCEPT ![j].status = job[j].status]
      /\ UNCHANGED row => RowKept
      /\ row \in RowType /\ job \in [Jobs -> JobType] /\ artifact \in [Jobs -> ArtifactType]
  BY UnderWay DEF IInv, TypeOK
<1> DEFINE a == [status |-> "GENERATED", passed |-> run[j].passed, manual |-> run[j].manual]
<1>1. /\ run[j].step = "commit" /\ job[j].status # "NONE"
      /\ artifact' = [artifact EXCEPT ![j] = a] /\ Goto(j, "finish")
      /\ UNCHANGED <<version, latest, facts, unloaded, job, request>>
      /\ \/ Claimed(j) /\ Update(Replayed(j))
         \/ UNCHANGED row
  BY <1>0 DEF Commit, RunAt
<1>2. /\ run[j].manual \in Facts /\ artifact[j].status # "GENERATED"
      /\ run[j].passed \in BOOLEAN
      /\ run[j].passed => run[j].manual = DraftOf[job[j].revision]
  BY <1>0, <1>1 DEF RunTells, RunType
<1>3. a \in ArtifactType /\ FileTells(a, job[j].revision)
  BY <1>2 DEF ArtifactType, FileTells
<1>4. PICK r \in RunType : run' = [run EXCEPT ![j] = r] /\ r.step = "finish"
  BY <1>1, GotoTells
<1>5. RunTells(r, a, job[j].revision)
  BY <1>4 DEF RunTells
<1>6. CaseKept /\ (row'.replay = row.replay \/ SummaryIsOfFile')
  <2>1. CASE UNCHANGED row
    BY <1>0, <2>1 DEF RowKept, CaseKept
  <2>2. CASE Claimed(j) /\ Update(Replayed(j))
    <3> DEFINE s == CASE ~run[j].passed   -> "REPLAY_FAILED"
                      [] run[j].candidate -> "AWAITING_APPROVAL"
                      [] OTHER            -> "READY_FOR_REPLAY"
    <3> DEFINE m == [job |-> j, revision |-> job[j].revision,
                     passed |-> run[j].passed, manual |-> run[j].manual]
    <3>1. s \in Statuses
      BY DEF Statuses
    <3>2. row.revision = job[j].revision /\ job[j].revision \in Revisions
      BY <1>1, <2>2 DEF Claimed, IInv, JobsKnown
    <3>3. m \in SummaryType
      BY <1>2, <3>2 DEF SummaryType
    <3>4. /\ row' = [row EXCEPT !.status = s, !.replay = m, !.token = Null]
          /\ RowCheck(row')
      BY <2>2 DEF Update, Replayed
    <3>5. /\ m.job = j /\ m.revision = job[j].revision
          /\ m.passed = run[j].passed /\ m.manual = run[j].manual
      OBVIOUS
    <3> HIDE DEF s, m
    <3>6. CaseKept
      BY <1>0, <3>1, <3>3, <3>4 DEF CaseKept, RowType
    <3>7. row'.replay = m /\ row'.revision = row.revision
      BY <1>0, <3>4 DEF RowType
    <3>8. artifact'[j] = a /\ job' = job
      BY <1>0, <1>1
    <3>9. SummaryIsOfFile'
      BY <3>2, <3>5, <3>7, <3>8 DEF SummaryIsOfFile
    <3> QED
      BY <3>6, <3>9
  <2> QED
    BY <1>1, <2>1, <2>2
<1>7. job' = [job EXCEPT ![j].status = job[j].status]
  BY <1>0, <1>1
<1> HIDE DEF a
<1> QED
  BY <1>0, <1>1, <1>2, <1>3, <1>4, <1>5, <1>6, <1>7, JobMoves

\* The file of a failed attempt is no result.
LEMMA FailStep ==
    ASSUME IInv, NEW j \in Jobs, FailArtifact(j)
    PROVE  IInv'
<1>0. /\ artifact[j] \in ArtifactType
      /\ RunTells(run[j], artifact[j], job[j].revision)
      /\ run[j].step # "idle" => job[j].status # "NONE"
      /\ job[j].status \in {"NONE", "RECORDED", "QUEUED", "RUNNING", "FAILED", "SUCCEEDED"}
      /\ job = [job EXCEPT ![j].status = job[j].status]
      /\ UNCHANGED row => RowKept
  BY UnderWay
<1>1. /\ run[j].step = "fail" /\ job[j].status # "NONE" /\ Goto(j, "record")
      /\ artifact' = [artifact EXCEPT ![j].status = "FAILED"]
      /\ UNCHANGED <<row, version, latest, facts, unloaded, job, request>>
  BY <1>0 DEF FailArtifact, RunAt
<1> DEFINE a == [artifact[j] EXCEPT !.status = "FAILED"]
<1>2. a \in ArtifactType /\ a.status = "FAILED" /\ artifact' = [artifact EXCEPT ![j] = a]
  BY <1>0, <1>1 DEF ArtifactType
<1> HIDE DEF a
<1>3. PICK r \in RunType : run' = [run EXCEPT ![j] = r] /\ r.step = "record"
  BY <1>1, GotoTells
<1>4. RunTells(r, a, job[j].revision) /\ FileTells(a, job[j].revision)
  BY <1>2, <1>3 DEF RunTells, FileTells
<1>5. artifact[j].status # "GENERATED"
  BY <1>0, <1>1 DEF RunTells
<1>6. /\ CaseKept /\ row'.replay = row.replay
      /\ job' = [job EXCEPT ![j].status = job[j].status]
  BY <1>0, <1>1 DEF RowKept, CaseKept
<1>7. job[j].status \in {"RECORDED", "QUEUED", "RUNNING", "FAILED", "SUCCEEDED"}
  BY <1>0, <1>1
<1>8. artifact[j].status = "GENERATED" => a = artifact[j]
  BY <1>5
<1> QED
  BY <1>1, <1>2, <1>3, <1>4, <1>6, <1>7, <1>8, JobMoves

-----------------------------------------------------------------------------
\* The invariant

\* Steps beside the requests and the jobs.
LEMMA BesideStep ==
    ASSUME IInv, QueueFails \/ Correct \/ CompleteUnloading
    PROVE  IInv'
<1>1. /\ UNCHANGED <<version, latest, job, artifact, run, request>>
      /\ facts' \in [Containers -> Facts] /\ unloaded' \in SUBSET Containers
  BY DEF QueueFails, Correct, CompleteUnloading, IInv, TypeOK
<1>2. RowKept
  <2>1. UNCHANGED row => RowKept
    BY DEF RowKept, IInv, TypeOK
  <2>2. CASE QueueFails
    BY <2>2, FailedKeeps DEF QueueFails
  <2> QED
    BY <2>1, <2>2 DEF Correct, CompleteUnloading
<1> QED
  BY <1>1, <1>2, QuietStep DEF Turning

LEMMA IInvInit == Init => IInv
<1> SUFFICES ASSUME Init PROVE IInv
  OBVIOUS
<1> USE LearningCaseAssumption
<1>1. /\ row.draft = Null /\ row.revision = 0 /\ row.replay = Null
      /\ row.replayJob = Null /\ row.snapshot = Null /\ row.status = "OPEN"
      /\ row.source /\ row.link = Null
  BY DEF Init, NewCase
<1>2. TypeOK
  <2>1. row \in RowType /\ RowCheck(row)
    BY DEF Init, NewCase, RowType, Statuses, RowCheck
  <2>2. /\ version \in [Revisions -> VersionType] /\ latest \in 0..MaxRevision
        /\ facts \in [Containers -> Facts] /\ unloaded \in SUBSET Containers
    BY DEF Init, VersionType
  <2>3. /\ job \in [Jobs -> JobType] /\ artifact \in [Jobs -> ArtifactType]
        /\ run \in [Jobs -> RunType]
    BY DEF Init, JobType, ArtifactType, RunType, IdleRun
  <2>4. request \in [Tx -> RequestType]
    BY DEF Init, RequestType, Idle, Statuses
  <2> QED
    BY <2>1, <2>2, <2>3, <2>4 DEF TypeOK
<1>3. DraftIsSaved /\ SummaryIsOfFile
  BY <1>1 DEF DraftIsSaved, SummaryIsOfFile
<1>4. JobsKnown /\ FilesTell /\ RunsTell
  BY DEF Init, JobsKnown, FilesTell, RunsTell, IdleRun
<1>5. CompletionNamed
  BY <1>1 DEF Init, CompletionNamed
<1>6. VersionsProved
  BY DEF Init, VersionsProved
<1>7. RequestsKnow
  BY DEF Init, RequestsKnow, Idle, Knows
<1> QED
  BY <1>2, <1>3, <1>4, <1>5, <1>6, <1>7 DEF IInv

LEMMA IInvNext == IInv /\ [Next]_vars => IInv'
<1> SUFFICES ASSUME IInv, [Next]_vars PROVE IInv'
  OBVIOUS
<1>1. CASE Queue \/ QueueFails \/ Correct \/ CompleteUnloading
  BY <1>1, QueueStep, BesideStep
<1>2. ASSUME NEW t \in Tx, RequestStep(t) PROVE IInv'
  BY <1>2, ReadStep, LinkStep, SaveStep, FreezeStep, RecordStep, VersionStep
     DEF RequestStep
<1>3. ASSUME NEW j \in Jobs, JobStep(j) PROVE IInv'
  BY <1>3, PlainStep, StartStep, WorkStep, CommitStep, FailStep DEF JobStep
<1>4. CASE UNCHANGED vars
  <2>1. RowKept
    BY <1>4 DEF RowKept, IInv, TypeOK, vars, data
  <2> QED
    BY <1>4, <2>1, QuietStep DEF Turning, vars, data, IInv, TypeOK
<1> QED
  BY <1>1, <1>2, <1>3, <1>4 DEF Next

\* The inductive invariant holds of every behaviour of the case.
THEOREM Invariance == Spec => []IInv
  BY IInvInit, IInvNext, PTL DEF Spec

-----------------------------------------------------------------------------
\* The properties

\* The tables and processes have their types, and the row passes its constraint.
THEOREM TypeCorrect == Spec => []TypeOK
<1>1. IInv => TypeOK
  BY DEF IInv
<1> QED
  BY <1>1, Invariance, PTL

\* What is approved extracts exactly what was frozen when the unloading was completed.
THEOREM ApprovedProved == Spec => []ApprovedIsProved
<1>1. IInv => ApprovedIsProved
  BY DEF IInv, VersionsProved, Proved, ApprovedIsProved
<1> QED
  BY <1>1, Invariance, PTL

\* The summary that submissions and approvals rely on is current and says what its
\* file says.
THEOREM SummaryCurrent == Spec => []SummaryIsCurrent
<1>1. IInv => SummaryIsCurrent
  BY DEF IInv, SummaryIsOfFile, SummaryIsCurrent
<1> QED
  BY <1>1, Invariance, PTL

\* The steps that leave the snapshot and the completion's job alone.
LEMMA UnfrozenStep ==
    ASSUME IInv, NEW t \in Tx, RequestStep(t), ~Freeze(t), ~RecordMissingJob(t)
    PROVE  row'.snapshot = row.snapshot /\ row'.replayJob = row.replayJob
<1>0. row \in RowType
  BY DEF IInv, TypeOK
<1>1. CASE UNCHANGED row
  BY <1>1
<1>2. CASE WriteSave(t)
  BY <1>0, <1>2 DEF WriteSave, Update, RowType
<1>3. CASE WriteLink(t)
  BY <1>0, <1>3 DEF WriteLink, Update, RowType
<1>4. CASE WriteUnlink(t)
  BY <1>0, <1>4 DEF WriteUnlink, Update, RowType
<1>5. CASE WriteClose(t)
  BY <1>0, <1>5 DEF WriteClose, Update, RowType
<1>6. CASE WriteSubmit(t)
  BY <1>0, <1>6 DEF WriteSubmit, Update, RowType
<1>7. \/ UNCHANGED row \/ WriteSave(t) \/ WriteLink(t) \/ WriteUnlink(t) \/ WriteClose(t)
      \/ WriteSubmit(t)
  BY DEF RequestStep, ReadSave, ReadLink, ReadUnlink, ReadClose, ReadCapture, ReadSubmit,
         ReadApprove, WriteApprove, Abort, data
<1> QED
  BY <1>1, <1>2, <1>3, <1>4, <1>5, <1>6, <1>7

LEMMA UnfrozenJob ==
    ASSUME IInv, NEW j \in Jobs, JobStep(j)
    PROVE  row'.snapshot = row.snapshot /\ row'.replayJob = row.replayJob
<1>0. row \in RowType
  BY DEF IInv, TypeOK
<1>1. CASE UNCHANGED row
  BY <1>1
<1>2. CASE Update([row EXCEPT !.token = j])
  BY <1>0, <1>2 DEF Update, RowType
<1>3. CASE Update(Replayed(j))
  BY <1>0, <1>3 DEF Update, Replayed, RowType
<1>4. CASE ReplayFailed(job[j].revision, j)
  BY <1>4, FailedKeeps DEF RowKept
<1>5. \/ UNCHANGED row \/ Update([row EXCEPT !.token = j]) \/ Update(Replayed(j))
      \/ ReplayFailed(job[j].revision, j)
  BY DEF JobStep, Dispatch, StartRun, Claim, Work, WorkFails, Commit, Finish,
         FailArtifact, RecordFailure, Lost, data
<1> QED
  BY <1>1, <1>2, <1>3, <1>4, <1>5

\* A capture writes what was not there.
LEMMA CaptureFreezes ==
    ASSUME IInv, NEW t \in Tx, Freeze(t) \/ RecordMissingJob(t)
    PROVE  /\ row.snapshot # Null => row'.snapshot = row.snapshot
           /\ row.replayJob # Null => row'.replayJob = row.replayJob
<1>0. row \in RowType
  BY DEF IInv, TypeOK
<1>1. row.replayJob = Null
  BY NoCompletion DEF Freeze, NotFrozen, RecordMissingJob
<1>2. CASE Freeze(t)
  BY <1>1, <1>2 DEF Freeze, NotFrozen
<1>3. CASE RecordMissingJob(t)
  <2>1. PICK j \in Jobs :
           row' = [row EXCEPT !.replayJob = j, !.status = request[t].status]
    BY <1>3 DEF RecordMissingJob, Update
  <2> QED
    BY <1>0, <1>1, <2>1 DEF RowType
<1> QED
  BY <1>2, <1>3

\* One capture freezes and one records a job; neither is replaced, and no recorded job
\* is without the case that names it.
THEOREM Frozen == Spec => FrozenOnce
<1> DEFINE Step == /\ row.snapshot # Null => row'.snapshot = row.snapshot
                   /\ row.replayJob # Null => row'.replayJob = row.replayJob
                   /\ \A j \in Jobs : job'[j].completion => row'.replayJob = j
<1>1. ASSUME IInv, [Next]_vars PROVE Step
  <2>1. \A j \in Jobs : job'[j].completion => row'.replayJob = j
    BY <1>1, IInvNext DEF IInv, CompletionNamed
  <2>2. CASE UNCHANGED row
    BY <2>1, <2>2
  <2>3. CASE QueueFails
    BY <1>1, <2>1, <2>3, FailedKeeps DEF QueueFails, RowKept
  <2>4. ASSUME NEW t \in Tx, RequestStep(t) PROVE Step
    BY <1>1, <2>1, <2>4, UnfrozenStep, CaptureFreezes
  <2>5. ASSUME NEW j \in Jobs, JobStep(j) PROVE Step
    BY <1>1, <2>1, <2>5, UnfrozenJob
  <2> QED
    BY <1>1, <2>2, <2>3, <2>4, <2>5 DEF Next, Queue, Correct, CompleteUnloading, vars, data
<1>2. IInv /\ [Next]_vars => [Step]_vars
  BY <1>1
<1> QED
  BY <1>2, Invariance, PTL DEF Spec, FrozenOnce

-----------------------------------------------------------------------------
\* A closed case

\* A closed case has no source, and the constraint wants one of a case that is not.
LEMMA SourceIsGone ==
    ASSUME IInv, row.status = "CLOSED", RowCheck(row'), row'.source = row.source
    PROVE  row'.status = "CLOSED"
  BY DEF IInv, TypeOK, RowCheck

\* Only a request to close writes the status CLOSED.
LEMMA OnlyClosing ==
    ASSUME IInv, NEW t \in Tx, request[t].kind # "close"
    PROVE  request[t].status # "CLOSED"
  BY DEF IInv, RequestsKnow, Knows

\* A request does not change a closed case.
LEMMA ClosedToRequests ==
    ASSUME IInv, NEW t \in Tx, RequestStep(t), row.status = "CLOSED"
    PROVE  row' = row
<1>0. /\ row \in RowType /\ ~row.source /\ row.link = Null /\ row.token = Null
      /\ row.status = "CLOSED"
  BY DEF IInv, TypeOK, RowCheck
<1> DEFINE s == request[t].status
<1>1. CASE UNCHANGED row
  BY <1>1
<1>2. CASE WriteSave(t) \/ WriteLink(t)
  BY <1>2 DEF WriteSave, WriteLink
<1>3. CASE WriteUnlink(t)
  <2>1. row' = [row EXCEPT !.link = Null, !.status = s, !.token = Null] /\ RowCheck(row')
    BY <1>3 DEF WriteUnlink, Update
  <2>2. row'.status = s /\ row'.source = row.source
    BY <1>0, <2>1 DEF RowType
  <2> QED
    BY <1>3, <2>1, <2>2, SourceIsGone, OnlyClosing DEF WriteUnlink, Is
<1>4. CASE WriteClose(t)
  <2>1. row' = [row EXCEPT !.source = FALSE, !.link = Null, !.status = "CLOSED",
                           !.token = Null]
    BY <1>4 DEF WriteClose, Update
  <2>2. /\ row' \in RowType /\ row'.source = FALSE /\ row.source = FALSE
    BY <1>0, <2>1 DEF RowType, Statuses
  <2> QED
    BY <1>0, <2>1, <2>2 DEF RowType
<1>5. CASE Freeze(t)
  <2>1. PICK j : /\ row' = [row EXCEPT !.snapshot = request[t].content, !.replayJob = j,
                                       !.status = s]
                 /\ RowCheck(row')
    BY <1>5 DEF Freeze, Update
  <2>2. row'.status = s /\ row'.source = row.source
    BY <1>0, <2>1 DEF RowType
  <2> QED
    BY <1>5, <2>1, <2>2, SourceIsGone, OnlyClosing DEF Freeze, Is
<1>6. CASE RecordMissingJob(t)
  <2>1. PICK j \in Jobs : row' = [row EXCEPT !.replayJob = j, !.status = s] /\ RowCheck(row')
    BY <1>6 DEF RecordMissingJob, Update
  <2>2. row'.status = s /\ row'.source = row.source
    BY <1>0, <2>1 DEF RowType
  <2> QED
    BY <1>6, <2>1, <2>2, SourceIsGone, OnlyClosing DEF RecordMissingJob, Is
<1>7. CASE WriteSubmit(t)
  <2>1. row' = [row EXCEPT !.status = s] /\ RowCheck(row')
    BY <1>7 DEF WriteSubmit, Update
  <2>2. row'.status = s /\ row'.source = row.source
    BY <1>0, <2>1 DEF RowType
  <2> QED
    BY <1>7, <2>1, <2>2, SourceIsGone, OnlyClosing DEF WriteSubmit, Is
<1>8. \/ UNCHANGED row \/ WriteSave(t) \/ WriteLink(t) \/ WriteUnlink(t) \/ WriteClose(t)
      \/ Freeze(t) \/ RecordMissingJob(t) \/ WriteSubmit(t)
  BY DEF RequestStep, ReadSave, ReadLink, ReadUnlink, ReadClose, ReadCapture, ReadSubmit,
         ReadApprove, WriteApprove, Abort, data
<1> QED
  BY <1>1, <1>2, <1>3, <1>4, <1>5, <1>6, <1>7, <1>8

\* A replay does not change a closed case.
LEMMA ClosedToJobs ==
    ASSUME NEW j \in Jobs, JobStep(j), row.status = "CLOSED"
    PROVE  row' = row
  BY DEF JobStep, Dispatch, StartRun, Claim, Work, WorkFails, Commit, Claimed, Finish,
         FailArtifact, RecordFailure, ReplayFailed, Lost, data

\* No request that read the case before it was closed opens it again or adds to it.
THEOREM ClosedFinal == Spec => ClosedIsFinal
<1>1. ASSUME IInv, [Next]_vars, row.status = "CLOSED" PROVE row' = row
  <2>1. CASE UNCHANGED row
    BY <2>1
  <2>2. CASE QueueFails
    BY <1>1, <2>2 DEF QueueFails, ReplayReady, CaseOpen
  <2>3. ASSUME NEW t \in Tx, RequestStep(t) PROVE row' = row
    BY <1>1, <2>3, ClosedToRequests
  <2>4. ASSUME NEW j \in Jobs, JobStep(j) PROVE row' = row
    BY <1>1, <2>4, ClosedToJobs
  <2> QED
    BY <1>1, <2>1, <2>2, <2>3, <2>4
       DEF Next, Queue, Correct, CompleteUnloading, vars, data
<1>2. IInv /\ [Next]_vars => [row.status = "CLOSED" => row' = row]_vars
  BY <1>1
<1> QED
  BY <1>2, Invariance, PTL DEF Spec, ClosedIsFinal
=============================================================================
