------------------------------ MODULE AsyncJobs ------------------------------
(***************************************************************************)
(* Background jobs of the API (apps/api/src/async-jobs): a row of the      *)
(* async_jobs table in PostgreSQL and a BullMQ job in Redis that carries   *)
(* the row's id, written one after the other by different processes and    *)
(* never in one transaction.                                               *)
(*                                                                         *)
(* A call is an API request inside submitJob or dispatchRecordedJob; a     *)
(* worker is one concurrency slot of AsyncJobsProcessor.  A step is one    *)
(* statement on the database or one command on the queue.  The outbox rows *)
(* are those a business transaction writes and dispatchRecordedJob later   *)
(* hands to the queue (parser-learning-cases).                             *)
(*                                                                         *)
(* Left out: timestamps, results, metadata, the wait of a backoff (such a  *)
(* job is a waiting one that no worker has taken yet), and a worker that   *)
(* keeps running after Bull has declared its job stalled.                  *)
(***************************************************************************)
EXTENDS Integers, FiniteSets

CONSTANTS
    Records,     \* ids of async_jobs rows; an id is never used twice
    Outbox,      \* the rows that business transactions write
    Keys,        \* idempotency keys
    KeyOf,       \* [Records -> Keys], the key of a row
    Replays,     \* the keys of PARSER_PROFILE_REPLAY jobs
    Calls,       \* API requests at one time (a bound on concurrency)
    Workers,     \* concurrency slots of the processors
    MaxAttempts, \* the attempts a job is given
    MaxStalls,   \* BullMQ's maxStalledCount
    MaxFaults,   \* [FaultKinds -> Nat], how often each happens (a bound)
    NoRecord

FaultKinds == {"queueFails", "ackLost", "recordFails", "markFails", "apiCrash",
               "workerCrash", "jobRemoved"}

ASSUME AsyncJobsAssumption ==
    /\ Outbox \subseteq Records
    /\ KeyOf \in [Records -> Keys]
    /\ \A o \in Outbox, r \in Records : KeyOf[o] = KeyOf[r] => o = r
    /\ Replays \subseteq Keys
    /\ MaxAttempts \in Nat \ {0} /\ MaxStalls \in Nat
    /\ MaxFaults \in [FaultKinds -> Nat]
    /\ NoRecord \notin Records

VARIABLES
    status,    \* async_jobs.status; NONE is a row not yet inserted
    linked,    \* async_jobs.bull_job_id is set
    bull,      \* the state of the Bull job with the row's id
    made,      \* its attemptsMade, which matters only up to MaxAttempts
    stalls,    \* how often Bull has found it stalled
    callStep,  \* where a request is
    callRec,   \* the row it works on
    workStep,  \* where a worker is
    workRec,   \* the job it holds
    faults     \* how often each kind of failure has happened

queue == <<bull, made, stalls>>
calls == <<callStep, callRec>>
slots == <<workStep, workRec>>
vars  == <<status, linked, queue, calls, slots, faults>>

Active   == {"QUEUED", "RUNNING"}
Terminal == {"SUCCEEDED", "FAILED"}
Ended    == {"completed", "failed"}

CallSteps == {"idle", "create", "look", "lookFailed", "retry", "add", "record",
              "refuse"}
WorkSteps == {"idle", "start", "run", "ack", "throw"}

TypeOK ==
    /\ status \in [Records -> Active \cup Terminal \cup {"NONE"}]
    /\ linked \in [Records -> BOOLEAN]
    /\ bull \in [Records -> {"absent", "waiting", "active"} \cup Ended]
    /\ made \in [Records -> 0 .. MaxAttempts]
    /\ stalls \in [Records -> 0 .. MaxStalls]
    /\ callStep \in [Calls -> CallSteps]
    /\ callRec \in [Calls -> Records \cup {NoRecord}]
    /\ workStep \in [Workers -> WorkSteps]
    /\ workRec \in [Workers -> Records \cup {NoRecord}]
    /\ faults \in [FaultKinds -> Nat]
    /\ \A kind \in FaultKinds : faults[kind] <= MaxFaults[kind]

Init ==
    /\ status = [r \in Records |-> "NONE"]
    /\ linked = [r \in Records |-> FALSE]
    /\ bull = [r \in Records |-> "absent"]
    /\ made = [r \in Records |-> 0]
    /\ stalls = [r \in Records |-> 0]
    /\ callStep = [c \in Calls |-> "idle"]
    /\ callRec = [c \in Calls |-> NoRecord]
    /\ workStep = [w \in Workers |-> "idle"]
    /\ workRec = [w \in Workers |-> NoRecord]
    /\ faults = [kind \in FaultKinds |-> 0]

-----------------------------------------------------------------------------
\* Helpers

Exists(r) == status[r] # "NONE"
SameKey(r) == {q \in Records \ {r} : KeyOf[q] = KeyOf[r]}

\* Mutant: a running job does not take its key.
KeyQueued(r) == \E q \in SameKey(r) : status[q] = "QUEUED"

\* The rows findByIdempotencyKey finds for the key of r: the active ones, or
\* all of them when ended jobs are reused, which only the replay of a learning
\* case asks for.  The partial unique indexes on idempotency_key refuse to make
\* r active beside the same rows.
KeyTaken(r) == \E q \in SameKey(r) :
                   status[q] \in Active \/ (KeyOf[r] \in Replays /\ Exists(q))

CallTo(c, step) == /\ callStep' = [callStep EXCEPT ![c] = step]
                   /\ UNCHANGED callRec
CallEnds(c) == /\ callStep' = [callStep EXCEPT ![c] = "idle"]
               /\ callRec' = [callRec EXCEPT ![c] = NoRecord]

WorkTo(w, step) == /\ workStep' = [workStep EXCEPT ![w] = step]
                   /\ UNCHANGED workRec
WorkEnds(w) == /\ workStep' = [workStep EXCEPT ![w] = "idle"]
               /\ workRec' = [workRec EXCEPT ![w] = NoRecord]

Write(r, s) == status' = [status EXCEPT ![r] = s]
Move(r, s)  == bull' = [bull EXCEPT ![r] = s]

Happens(kind) == /\ faults[kind] < MaxFaults[kind]
                 /\ faults' = [faults EXCEPT ![kind] = @ + 1]

-----------------------------------------------------------------------------
\* submitJob

\* findByIdempotencyKey finds nothing to return.  The id is the one the row
\* will get; a request that finds a row changes nothing and is no step.
Submit(c, r) ==
    /\ callStep[c] = "idle"
    /\ r \notin Outbox /\ ~Exists(r)
    /\ \A d \in Calls : callRec[d] # r
    /\ ~KeyTaken(r)
    /\ callStep' = [callStep EXCEPT ![c] = "create"]
    /\ callRec' = [callRec EXCEPT ![c] = r]
    /\ UNCHANGED <<status, linked, queue, slots, faults>>

\* createJobRecord; when an index refuses the row the request returns the one
\* that won or fails, and changes nothing either way
Create(c) ==
    /\ callStep[c] = "create"
    /\ IF KeyTaken(callRec[c])
       THEN CallEnds(c) /\ UNCHANGED status
       ELSE Write(callRec[c], "QUEUED") /\ CallTo(c, "add")
    /\ UNCHANGED <<linked, queue, slots, faults>>

\* Mutant: the Bull job has an id of its own, and add always adds one.
AddAnother(r) == Move(r, "waiting")

\* queue.add, which leaves an existing job of the same id alone
AddToQueue(r) == Move(r, IF bull[r] = "absent" THEN "waiting" ELSE bull[r])

Enqueue(c) ==
    /\ callStep[c] = "add"
    /\ AddToQueue(callRec[c])
    /\ CallTo(c, "record")
    /\ UNCHANGED <<status, linked, made, stalls, slots, faults>>

\* Redis refuses a command of either function
QueueFails(c) ==
    /\ callStep[c] \in {"look", "lookFailed", "retry", "add"}
    /\ Happens("queueFails")
    /\ CallTo(c, "refuse")
    /\ UNCHANGED <<status, linked, queue, slots>>

\* Redis executes a command and its answer is lost
AckLost(c) ==
    LET r == callRec[c] IN
    /\ Happens("ackLost")
    /\ \/ callStep[c] = "add" /\ AddToQueue(r)
       \/ callStep[c] = "retry" /\ bull[r] = "failed" /\ Move(r, "waiting")
    /\ CallTo(c, "refuse")
    /\ UNCHANGED <<status, linked, made, stalls, slots>>

\* submitJob stores the Bull id only; dispatchRecordedJob also writes the
\* status it believes the row has
Record(c) ==
    LET r == callRec[c] IN
    /\ callStep[c] = "record"
    /\ linked' = [linked EXCEPT ![r] = TRUE]
    /\ IF r \in Outbox THEN Write(r, "QUEUED") ELSE UNCHANGED status
    /\ CallEnds(c)
    /\ UNCHANGED <<queue, slots, faults>>

RecordFails(c) ==
    /\ callStep[c] = "record"
    /\ Happens("recordFails")
    /\ CallTo(c, "refuse")
    /\ UNCHANGED <<status, linked, queue, slots>>

\* Mutant: the error is returned and the row is not touched.
RefuseOnly(c) ==
    /\ callStep[c] = "refuse"
    /\ CallEnds(c)
    /\ UNCHANGED <<status, linked, queue, slots, faults>>

\* the catch of both functions: QUEUE_ENQUEUE_FAILED
Refuse(c) ==
    /\ callStep[c] = "refuse"
    /\ Write(callRec[c], "FAILED")
    /\ CallEnds(c)
    /\ UNCHANGED <<linked, queue, slots, faults>>

-----------------------------------------------------------------------------
\* dispatchRecordedJob

\* captureCompletionInTransaction commits the row with the completion it
\* belongs to
Capture(r) ==
    /\ r \in Outbox /\ ~Exists(r)
    /\ Write(r, "QUEUED")
    /\ UNCHANGED <<linked, queue, calls, slots, faults>>

\* Mutant: a row that was refused once is not dispatched again.
DispatchesQueued(r) == r \in Outbox /\ status[r] = "QUEUED"

\* dispatchCompletionReplay dispatches the job of the completion, whatever its
\* status
Dispatches(r) == r \in Outbox /\ Exists(r)

\* findJobOrThrow: by the request that captured the row, or by a catch-up
Dispatch(c, r) ==
    /\ callStep[c] = "idle"
    /\ Dispatches(r)
    /\ callStep' = [callStep EXCEPT ![c] =
                      IF ~linked[r] THEN "add"
                      ELSE IF status[r] = "FAILED" THEN "lookFailed" ELSE "look"]
    /\ callRec' = [callRec EXCEPT ![c] = r]
    /\ UNCHANGED <<status, linked, queue, slots, faults>>

\* getJob
Look(c) ==
    /\ callStep[c] \in {"look", "lookFailed"}
    /\ \/ bull[callRec[c]] = "absent" /\ CallTo(c, "add")
       \/ bull[callRec[c]] # "absent" /\ callStep[c] = "look" /\ CallEnds(c)
       \/ /\ bull[callRec[c]] # "absent" /\ callStep[c] = "lookFailed"
          /\ CallTo(c, "retry")
    /\ UNCHANGED <<status, linked, queue, slots, faults>>

\* retry('failed'), which throws when the job is in any other state
Retry(c) ==
    LET r == callRec[c] IN
    /\ callStep[c] = "retry"
    /\ IF bull[r] = "failed" THEN Move(r, "waiting") /\ CallTo(c, "record")
                             ELSE UNCHANGED bull /\ CallTo(c, "refuse")
    /\ UNCHANGED <<status, linked, made, stalls, slots, faults>>

\* the API process ends; its requests stop where they are
ApiCrash(c) ==
    /\ callStep[c] # "idle"
    /\ Happens("apiCrash")
    /\ CallEnds(c)
    /\ UNCHANGED <<status, linked, queue, slots>>

-----------------------------------------------------------------------------
\* AsyncJobsProcessor.process and the Bull worker around it

Take(w, r) ==
    /\ workStep[w] = "idle"
    /\ bull[r] = "waiting"
    /\ Move(r, "active")
    /\ workStep' = [workStep EXCEPT ![w] = "start"]
    /\ workRec' = [workRec EXCEPT ![w] = r]
    /\ UNCHANGED <<status, linked, made, stalls, calls, faults>>

\* markRunning stands before the try: when an index refuses it, process throws
\* with the row as it was
MarkRunning(w) ==
    LET r == workRec[w] IN
    /\ workStep[w] = "start"
    /\ IF KeyTaken(r)
       THEN UNCHANGED <<status, linked>> /\ WorkTo(w, "throw")
       ELSE /\ Write(r, "RUNNING")
            /\ linked' = [linked EXCEPT ![r] = TRUE]
            /\ WorkTo(w, "run")
    /\ UNCHANGED <<queue, calls, faults>>

\* runBusinessJob returns, markSucceeded
MarkSucceeded(w) ==
    /\ workStep[w] = "run"
    /\ Write(workRec[w], "SUCCEEDED")
    /\ WorkTo(w, "ack")
    /\ UNCHANGED <<linked, queue, calls, faults>>

\* Mutant: off by one.
MayRetryOnceMore(r) == made[r] + 1 <= MaxAttempts

\* The attempt that ends is attemptsMade + 1; process compares it with the
\* attempts the job was given,
MayRetry(r) == made[r] + 1 < MaxAttempts

\* and so does Bull, for itself.
LastAttempt(r) == made[r] + 1 >= MaxAttempts

\* runBusinessJob or markSucceeded throws: markRetryableFailure or markFailed,
\* the first of which an index may refuse
MarkFailure(w) ==
    LET r == workRec[w] IN
    /\ workStep[w] = "run"
    /\ IF ~MayRetry(r) THEN Write(r, "FAILED")
       ELSE IF KeyTaken(r) THEN UNCHANGED status ELSE Write(r, "QUEUED")
    /\ WorkTo(w, "throw")
    /\ UNCHANGED <<linked, queue, calls, faults>>

\* the database fails under the processor, which throws
MarkFails(w) ==
    /\ workStep[w] \in {"start", "run"}
    /\ Happens("markFails")
    /\ WorkTo(w, "throw")
    /\ UNCHANGED <<status, linked, queue, calls>>

\* process returned: Bull completes the job
Ack(w) ==
    /\ workStep[w] = "ack"
    /\ Move(workRec[w], "completed")
    /\ WorkEnds(w)
    /\ UNCHANGED <<status, linked, made, stalls, calls, faults>>

\* process threw: Bull counts the attempt and retries or fails the job
Throw(w) ==
    LET r == workRec[w] IN
    /\ workStep[w] = "throw"
    /\ Move(r, IF LastAttempt(r) THEN "failed" ELSE "waiting")
    /\ made' = [made EXCEPT ![r] = IF LastAttempt(r) THEN MaxAttempts ELSE @ + 1]
    /\ WorkEnds(w)
    /\ UNCHANGED <<status, linked, stalls, calls, faults>>

WorkerCrash(w) ==
    /\ workStep[w] # "idle"
    /\ Happens("workerCrash")
    /\ WorkEnds(w)
    /\ UNCHANGED <<status, linked, queue, calls>>

StallsLeft(r) == stalls[r] < MaxStalls

\* Bull finds an active job whose lock has run out and gives it to another
\* worker, until it has stalled too often; then it fails the job without
\* calling process.
Stalled(r) ==
    /\ bull[r] = "active"
    /\ \A w \in Workers : workRec[w] # r
    /\ IF StallsLeft(r)
       THEN /\ Move(r, "waiting")
            /\ stalls' = [stalls EXCEPT ![r] = @ + 1]
       ELSE Move(r, "failed") /\ UNCHANGED stalls
    /\ UNCHANGED <<status, linked, made, calls, slots, faults>>

\* removeOnComplete: Bull forgets the job and how often it was tried
Remove(r) ==
    /\ bull[r] = "completed"
    /\ Happens("jobRemoved")
    /\ Move(r, "absent")
    /\ made' = [made EXCEPT ![r] = 0]
    /\ stalls' = [stalls EXCEPT ![r] = 0]
    /\ UNCHANGED <<status, linked, calls, slots>>

-----------------------------------------------------------------------------
CallNext(c) ==
    \/ Create(c) \/ Enqueue(c) \/ Record(c) \/ Refuse(c) \/ Look(c) \/ Retry(c)

CallFault(c) ==
    QueueFails(c) \/ AckLost(c) \/ RecordFails(c) \/ ApiCrash(c)

WorkNext(w) ==
    \/ MarkRunning(w) \/ MarkSucceeded(w) \/ MarkFailure(w) \/ Ack(w) \/ Throw(w)

WorkFault(w) == MarkFails(w) \/ WorkerCrash(w)

Next ==
    \/ \E c \in Calls, r \in Records : Submit(c, r) \/ Dispatch(c, r)
    \/ \E c \in Calls : CallNext(c) \/ CallFault(c)
    \/ \E r \in Records : Capture(r) \/ Stalled(r) \/ Remove(r)
    \/ \E w \in Workers, r \in Records : Take(w, r)
    \/ \E w \in Workers : WorkNext(w) \/ WorkFault(w)

Spec == Init /\ [][Next]_vars

(***************************************************************************)
(* A request and a worker that can go on do; Bull looks for stalled jobs   *)
(* and hands out waiting ones.  Nobody need submit anything, and nothing   *)
(* need fail.                                                              *)
(***************************************************************************)
Running ==
    /\ \A c \in Calls : WF_vars(CallNext(c))
    /\ \A w \in Workers : WF_vars(WorkNext(w))
    /\ \A r \in Records : /\ WF_vars(\E w \in Workers : Take(w, r))
                          /\ WF_vars(Stalled(r))

FairSpec == Spec /\ Running

\* and a completed learning case is caught up until its row is in the queue
CatchUpSpec ==
    /\ FairSpec
    /\ \A r \in Outbox : SF_vars(\E c \in Calls : Dispatch(c, r))

-----------------------------------------------------------------------------
\* Properties

\* No job is handed to two workers: not when it is dispatched again while it
\* is in the queue or runs, not when Bull retries it or takes it from a worker
\* that was lost.
OneHolder ==
    \A v, w \in Workers : workRec[v] = workRec[w] /\ workRec[v] # NoRecord => v = w

\* runBusinessJob never runs twice at one time for one idempotency key, that
\* is, for two rows either, as long as submitJob has not written FAILED to a
\* row whose job was added all the same: its answer was lost, or the update
\* after it failed.
OneRunPerKey ==
    faults["ackLost"] = 0 /\ faults["recordFails"] = 0 =>
        \A v, w \in Workers :
            /\ workStep[v] = "run" /\ workStep[w] = "run"
            /\ KeyOf[workRec[v]] = KeyOf[workRec[w]]
            => v = w

\* Every job that was submitted ends, whether a worker is lost, Redis refuses
\* it or its answer does not arrive: no row hangs in QUEUED or RUNNING, where it
\* would block its key (and the deletion of its attendance import).
EveryJobEnds ==
    \A r \in Records : status[r] \in Active ~> status[r] \in Terminal

\* A captured completion reaches the queue as long as somebody catches up,
\* although the request that captured it dies or Redis refuses it.
CaptureReachesQueue ==
    \A r \in Outbox : Exists(r) ~> bull[r] # "absent"

\* "Repeated calls are safe": dispatching a row again never takes back the
\* success of its job.
SuccessStays ==
    [][\A r \in Records : status[r] = "SUCCEEDED" => status'[r] = "SUCCEEDED"]_vars

=============================================================================
