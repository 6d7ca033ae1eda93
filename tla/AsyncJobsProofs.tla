--------------------------- MODULE AsyncJobsProofs ---------------------------
(***************************************************************************)
(* Theorems about AsyncJobs, for every number of rows, requests, workers,  *)
(* attempts, stalls and failures.                                          *)
(*                                                                         *)
(* That no business job runs twice at one time for one key (OneRunPerKey)  *)
(* rests on the row's status being RUNNING from markRunning to the end of  *)
(* the attempt (RunningIsRecorded), on the index that allows one active    *)
(* row per key (OneActive), and on no request writing FAILED behind the    *)
(* worker's back: while a submission can still end in Refuse, Redis does   *)
(* not know its job (SubmitsAlone).                                        *)
(***************************************************************************)
EXTENDS AsyncJobs, TLAPS

\* no answer of Redis was lost, no update failed after its add
Calm == faults["ackLost"] = 0 /\ faults["recordFails"] = 0

\* A worker that does something holds a job, which Bull counts as active.
Holding ==
    \A w \in Workers :
        /\ workStep[w] = "idle" <=> workRec[w] = NoRecord
        /\ workRec[w] # NoRecord => bull[workRec[w]] = "active"

\* Bull knows the jobs of inserted rows only.
Inserted ==
    /\ \A r \in Records : ~Exists(r) => bull[r] = "absent"
    /\ \A c \in Calls :
           callStep[c] \notin {"idle", "create"} => Exists(callRec[c])

\* A submission has its row to itself, and goes through the steps of
\* submitJob only.
SubmitsOwn ==
    \A c \in Calls :
        /\ callStep[c] = "idle" <=> callRec[c] = NoRecord
        /\ callRec[c] \in Records \ Outbox =>
               /\ callStep[c] \in {"create", "add", "record", "refuse"}
               /\ \A d \in Calls : callRec[d] = callRec[c] => d = c
        /\ callStep[c] = "create" => callRec[c] \notin Outbox

\* As long as it may still refuse its row, Redis has not got the job.
SubmitsAlone ==
    Calm => \A c \in Calls :
                /\ callRec[c] \in Records \ Outbox
                /\ callStep[c] \in {"create", "add", "refuse"}
                => bull[callRec[c]] = "absent"

\* A row is RUNNING while its business job runs.
RunningIsRecorded ==
    Calm => \A w \in Workers :
                workStep[w] = "run" /\ workRec[w] \notin Outbox
                => status[workRec[w]] = "RUNNING"

\* what the partial unique index is for
OneActive ==
    \A q, r \in Records :
        q # r /\ KeyOf[q] = KeyOf[r] =>
            ~(status[q] \in Active /\ status[r] \in Active)

IInv ==
    /\ TypeOK /\ Holding /\ OneHolder /\ Inserted
    /\ SubmitsOwn /\ SubmitsAlone /\ RunningIsRecorded /\ OneActive

-----------------------------------------------------------------------------
\* Every step keeps the types; a request or a worker that is not idle works on
\* a row (SubmitsOwn, Holding).
LEMMA TypeStep ==
    ASSUME IInv, [Next]_vars
    PROVE  TypeOK'
<1>1. ASSUME NEW c \in Calls, NEW r \in Records, Submit(c, r)
      PROVE  TypeOK'
      BY <1>1, AsyncJobsAssumption
      DEF TypeOK, Holding, SubmitsOwn, Active, Terminal, Ended, CallSteps,
          WorkSteps, Submit, queue, calls, slots, IInv
<1>2. ASSUME NEW c \in Calls, Create(c)
      PROVE  TypeOK'
      BY <1>2, AsyncJobsAssumption
      DEF TypeOK, Holding, SubmitsOwn, Active, Terminal, Ended, CallSteps,
          WorkSteps, Create, CallTo, CallEnds, Write, queue, calls, slots,
          IInv
<1>3. ASSUME NEW c \in Calls, Enqueue(c)
      PROVE  TypeOK'
      BY <1>3, AsyncJobsAssumption
      DEF TypeOK, Holding, SubmitsOwn, Active, Terminal, Ended, CallSteps,
          WorkSteps, Enqueue, AddToQueue, Move, CallTo, queue, calls, slots,
          IInv
<1>4. ASSUME NEW c \in Calls, Record(c)
      PROVE  TypeOK'
      BY <1>4, AsyncJobsAssumption
      DEF TypeOK, Holding, SubmitsOwn, Active, Terminal, Ended, CallSteps,
          WorkSteps, Record, Write, CallEnds, queue, calls, slots, IInv
<1>5. ASSUME NEW c \in Calls, Refuse(c)
      PROVE  TypeOK'
      BY <1>5, AsyncJobsAssumption
      DEF TypeOK, Holding, SubmitsOwn, Active, Terminal, Ended, CallSteps,
          WorkSteps, Refuse, Write, CallEnds, queue, calls, slots, IInv
<1>6. ASSUME NEW c \in Calls, QueueFails(c)
      PROVE  TypeOK'
      BY <1>6, AsyncJobsAssumption
      DEF TypeOK, Holding, SubmitsOwn, Active, Terminal, Ended, CallSteps,
          WorkSteps, QueueFails, Happens, CallTo, queue, calls, slots, IInv,
          FaultKinds
<1>7. ASSUME NEW c \in Calls, AckLost(c)
      PROVE  TypeOK'
      BY <1>7, AsyncJobsAssumption
      DEF TypeOK, Holding, SubmitsOwn, Active, Terminal, Ended, CallSteps,
          WorkSteps, AckLost, Happens, AddToQueue, Move, CallTo, queue,
          calls, slots, IInv, FaultKinds
<1>8. ASSUME NEW c \in Calls, RecordFails(c)
      PROVE  TypeOK'
      BY <1>8, AsyncJobsAssumption
      DEF TypeOK, Holding, SubmitsOwn, Active, Terminal, Ended, CallSteps,
          WorkSteps, RecordFails, Happens, CallTo, queue, calls, slots,
          IInv, FaultKinds
<1>9. ASSUME NEW c \in Calls, ApiCrash(c)
      PROVE  TypeOK'
      BY <1>9, AsyncJobsAssumption
      DEF TypeOK, Holding, SubmitsOwn, Active, Terminal, Ended, CallSteps,
          WorkSteps, ApiCrash, Happens, CallEnds, queue, calls, slots, IInv,
          FaultKinds
<1>10. ASSUME NEW r \in Records, Capture(r)
      PROVE  TypeOK'
      BY <1>10, AsyncJobsAssumption
      DEF TypeOK, Holding, SubmitsOwn, Active, Terminal, Ended, CallSteps,
          WorkSteps, Capture, Write, queue, calls, slots, IInv
<1>11. ASSUME NEW c \in Calls, NEW r \in Records, Dispatch(c, r)
      PROVE  TypeOK'
      BY <1>11, AsyncJobsAssumption
      DEF TypeOK, Holding, SubmitsOwn, Active, Terminal, Ended, CallSteps,
          WorkSteps, Dispatch, Dispatches, queue, calls, slots, IInv
<1>12. ASSUME NEW c \in Calls, Look(c)
      PROVE  TypeOK'
      BY <1>12, AsyncJobsAssumption
      DEF TypeOK, Holding, SubmitsOwn, Active, Terminal, Ended, CallSteps,
          WorkSteps, Look, CallTo, CallEnds, queue, calls, slots, IInv
<1>13. ASSUME NEW c \in Calls, Retry(c)
      PROVE  TypeOK'
      BY <1>13, AsyncJobsAssumption
      DEF TypeOK, Holding, SubmitsOwn, Active, Terminal, Ended, CallSteps,
          WorkSteps, Retry, Move, CallTo, queue, calls, slots, IInv
<1>14. ASSUME NEW w \in Workers, NEW r \in Records, Take(w, r)
      PROVE  TypeOK'
      BY <1>14, AsyncJobsAssumption
      DEF TypeOK, Holding, SubmitsOwn, Active, Terminal, Ended, CallSteps,
          WorkSteps, Take, Move, queue, calls, slots, IInv
<1>15. ASSUME NEW w \in Workers, MarkRunning(w)
      PROVE  TypeOK'
  <2> DEFINE r == workRec[w]
  <2>1. r \in Records
    BY <1>15 DEF IInv, TypeOK, Holding, MarkRunning
  <2>2. /\ (status \in [Records -> Active \cup Terminal \cup {"NONE"}])'
        /\ (linked \in [Records -> BOOLEAN])'
        /\ (workStep \in [Workers -> WorkSteps])'
    <3>1. CASE KeyTaken(r)
      BY <1>15, <2>1, <3>1 DEF IInv, TypeOK, WorkSteps, MarkRunning, WorkTo
    <3>2. CASE ~KeyTaken(r)
      BY <1>15, <2>1, <3>2
      DEF IInv, TypeOK, Active, WorkSteps, MarkRunning, Write, WorkTo
    <3>3. QED
      BY <3>1, <3>2
  <2>3. QED
    BY <1>15, <2>2 DEF IInv, TypeOK, MarkRunning, WorkTo, queue, calls
<1>16. ASSUME NEW w \in Workers, MarkSucceeded(w)
      PROVE  TypeOK'
      BY <1>16, AsyncJobsAssumption
      DEF TypeOK, Holding, SubmitsOwn, Active, Terminal, Ended, CallSteps,
          WorkSteps, MarkSucceeded, Write, WorkTo, queue, calls, slots, IInv
<1>17. ASSUME NEW w \in Workers, MarkFailure(w)
      PROVE  TypeOK'
      BY <1>17, AsyncJobsAssumption
      DEF TypeOK, Holding, SubmitsOwn, Active, Terminal, Ended, CallSteps,
          WorkSteps, MarkFailure, Write, WorkTo, queue, calls, slots, IInv
<1>18. ASSUME NEW w \in Workers, MarkFails(w)
      PROVE  TypeOK'
      BY <1>18, AsyncJobsAssumption
      DEF TypeOK, Holding, SubmitsOwn, Active, Terminal, Ended, CallSteps,
          WorkSteps, MarkFails, Happens, WorkTo, queue, calls, slots, IInv,
          FaultKinds
<1>19. ASSUME NEW w \in Workers, Ack(w)
      PROVE  TypeOK'
      BY <1>19, AsyncJobsAssumption
      DEF TypeOK, Holding, SubmitsOwn, Active, Terminal, Ended, CallSteps,
          WorkSteps, Ack, Move, WorkEnds, queue, calls, slots, IInv
<1>20. ASSUME NEW w \in Workers, Throw(w)
      PROVE  TypeOK'
      BY <1>20, AsyncJobsAssumption
      DEF TypeOK, Holding, SubmitsOwn, Active, Terminal, Ended, CallSteps,
          WorkSteps, Throw, Move, WorkEnds, LastAttempt, queue, calls,
          slots, IInv
<1>21. ASSUME NEW w \in Workers, WorkerCrash(w)
      PROVE  TypeOK'
      BY <1>21, AsyncJobsAssumption
      DEF TypeOK, Holding, SubmitsOwn, Active, Terminal, Ended, CallSteps,
          WorkSteps, WorkerCrash, Happens, WorkEnds, queue, calls, slots,
          IInv, FaultKinds
<1>22. ASSUME NEW r \in Records, Stalled(r)
      PROVE  TypeOK'
      BY <1>22, AsyncJobsAssumption
      DEF TypeOK, Holding, SubmitsOwn, Active, Terminal, Ended, CallSteps,
          WorkSteps, Stalled, Move, StallsLeft, queue, calls, slots, IInv
<1>23. ASSUME NEW r \in Records, Remove(r)
      PROVE  TypeOK'
      BY <1>23, AsyncJobsAssumption
      DEF TypeOK, Holding, SubmitsOwn, Active, Terminal, Ended, CallSteps,
          WorkSteps, Remove, Move, Happens, queue, calls, slots, IInv,
          FaultKinds
<1>24. CASE UNCHANGED vars
      BY <1>24, AsyncJobsAssumption
      DEF TypeOK, Holding, SubmitsOwn, Active, Terminal, Ended, CallSteps,
          WorkSteps, IInv, vars, queue, calls, slots
<1>25. QED
  BY <1>1, <1>2, <1>3, <1>4, <1>5, <1>6, <1>7, <1>8, <1>9, <1>10, <1>11,
     <1>12, <1>13, <1>14, <1>15, <1>16, <1>17, <1>18, <1>19, <1>20, <1>21,
     <1>22, <1>23, <1>24
  DEF Next, CallNext, CallFault, WorkNext, WorkFault

\* A job is moved from active only by the worker that holds it, by Stalled when
\* nobody holds it, and never by a request.
LEMMA HoldingStep ==
    ASSUME IInv, [Next]_vars
    PROVE  Holding'
<1>1. ASSUME NEW c \in Calls, Enqueue(c)
      PROVE  Holding'
      BY <1>1, AsyncJobsAssumption
      DEF TypeOK, Holding, OneHolder, SubmitsOwn, WorkSteps, Ended, Enqueue,
          AddToQueue, Move, CallTo, queue, calls, slots, IInv
<1>2. ASSUME NEW c \in Calls, AckLost(c)
      PROVE  Holding'
      BY <1>2, AsyncJobsAssumption
      DEF TypeOK, Holding, OneHolder, SubmitsOwn, WorkSteps, Ended, AckLost,
          Happens, AddToQueue, Move, CallTo, queue, calls, slots, IInv
<1>3. ASSUME NEW c \in Calls, Retry(c)
      PROVE  Holding'
      BY <1>3, AsyncJobsAssumption
      DEF TypeOK, Holding, OneHolder, SubmitsOwn, WorkSteps, Ended, Retry,
          Move, CallTo, queue, calls, slots, IInv
<1>4. ASSUME NEW w \in Workers, NEW r \in Records, Take(w, r)
      PROVE  Holding'
      BY <1>4, AsyncJobsAssumption
      DEF TypeOK, Holding, OneHolder, SubmitsOwn, WorkSteps, Ended, Take,
          Move, queue, calls, slots, IInv
<1>5. ASSUME NEW w \in Workers, MarkRunning(w)
      PROVE  Holding'
      BY <1>5, AsyncJobsAssumption
      DEF TypeOK, Holding, OneHolder, SubmitsOwn, WorkSteps, Ended,
          MarkRunning, Write, WorkTo, queue, calls, slots, IInv
<1>6. ASSUME NEW w \in Workers, MarkSucceeded(w)
      PROVE  Holding'
      BY <1>6, AsyncJobsAssumption
      DEF TypeOK, Holding, OneHolder, SubmitsOwn, WorkSteps, Ended,
          MarkSucceeded, Write, WorkTo, queue, calls, slots, IInv
<1>7. ASSUME NEW w \in Workers, MarkFailure(w)
      PROVE  Holding'
      BY <1>7, AsyncJobsAssumption
      DEF TypeOK, Holding, OneHolder, SubmitsOwn, WorkSteps, Ended,
          MarkFailure, Write, WorkTo, queue, calls, slots, IInv
<1>8. ASSUME NEW w \in Workers, MarkFails(w)
      PROVE  Holding'
      BY <1>8, AsyncJobsAssumption
      DEF TypeOK, Holding, OneHolder, SubmitsOwn, WorkSteps, Ended,
          MarkFails, Happens, WorkTo, queue, calls, slots, IInv
<1>9. ASSUME NEW w \in Workers, Ack(w)
      PROVE  Holding'
      BY <1>9, AsyncJobsAssumption
      DEF TypeOK, Holding, OneHolder, SubmitsOwn, WorkSteps, Ended, Ack,
          Move, WorkEnds, queue, calls, slots, IInv
<1>10. ASSUME NEW w \in Workers, Throw(w)
      PROVE  Holding'
      BY <1>10, AsyncJobsAssumption
      DEF TypeOK, Holding, OneHolder, SubmitsOwn, WorkSteps, Ended, Throw,
          Move, WorkEnds, LastAttempt, queue, calls, slots, IInv
<1>11. ASSUME NEW w \in Workers, WorkerCrash(w)
      PROVE  Holding'
      BY <1>11, AsyncJobsAssumption
      DEF TypeOK, Holding, OneHolder, SubmitsOwn, WorkSteps, Ended,
          WorkerCrash, Happens, WorkEnds, queue, calls, slots, IInv
<1>12. ASSUME NEW r \in Records, Stalled(r)
      PROVE  Holding'
      BY <1>12, AsyncJobsAssumption
      DEF TypeOK, Holding, OneHolder, SubmitsOwn, WorkSteps, Ended, Stalled,
          Move, StallsLeft, queue, calls, slots, IInv
<1>13. ASSUME NEW r \in Records, Remove(r)
      PROVE  Holding'
      BY <1>13, AsyncJobsAssumption
      DEF TypeOK, Holding, OneHolder, SubmitsOwn, WorkSteps, Ended, Remove,
          Move, Happens, queue, calls, slots, IInv
<1>14. CASE UNCHANGED <<bull, slots>>
      BY <1>14, AsyncJobsAssumption
      DEF TypeOK, Holding, OneHolder, SubmitsOwn, WorkSteps, Ended, slots,
          IInv
<1>15. QED
  BY <1>1, <1>2, <1>3, <1>4, <1>5, <1>6, <1>7, <1>8, <1>9, <1>10, <1>11,
     <1>12, <1>13, <1>14
  DEF Next, CallNext, CallFault, WorkNext, WorkFault, Submit, Create,
      Record, Refuse, QueueFails, RecordFails, ApiCrash, Capture, Dispatch,
      Look, vars, queue, calls, slots, CallTo, CallEnds, WorkTo, WorkEnds,
      Write, Move, Happens, Dispatches

\* The job a worker takes was waiting, so no other worker held it.
LEMMA OneHolderStep ==
    ASSUME IInv, [Next]_vars
    PROVE  OneHolder'
<1>1. ASSUME NEW w \in Workers, NEW r \in Records, Take(w, r)
      PROVE  OneHolder'
      BY <1>1, AsyncJobsAssumption
      DEF TypeOK, Holding, OneHolder, WorkSteps, Take, Move, queue, calls,
          slots, IInv
<1>2. ASSUME NEW w \in Workers, Ack(w)
      PROVE  OneHolder'
      BY <1>2, AsyncJobsAssumption
      DEF TypeOK, Holding, OneHolder, WorkSteps, Ack, Move, WorkEnds, queue,
          calls, slots, IInv
<1>3. ASSUME NEW w \in Workers, Throw(w)
      PROVE  OneHolder'
      BY <1>3, AsyncJobsAssumption
      DEF TypeOK, Holding, OneHolder, WorkSteps, Throw, Move, WorkEnds,
          LastAttempt, queue, calls, slots, IInv
<1>4. ASSUME NEW w \in Workers, WorkerCrash(w)
      PROVE  OneHolder'
      BY <1>4, AsyncJobsAssumption
      DEF TypeOK, Holding, OneHolder, WorkSteps, WorkerCrash, Happens,
          WorkEnds, queue, calls, slots, IInv
<1>5. CASE UNCHANGED workRec
      BY <1>5, AsyncJobsAssumption
      DEF TypeOK, Holding, OneHolder, WorkSteps, slots, IInv
<1>6. QED
  BY <1>1, <1>2, <1>3, <1>4, <1>5
  DEF Next, CallNext, CallFault, WorkNext, WorkFault, Submit, Create,
      Enqueue, Record, Refuse, QueueFails, AckLost, RecordFails, ApiCrash,
      Capture, Dispatch, Look, Retry, MarkRunning, MarkSucceeded,
      MarkFailure, MarkFails, Stalled, Remove, vars, queue, calls, slots,
      CallTo, CallEnds, WorkTo, WorkEnds, Write, Move, Happens, Dispatches

\* A job is added for an inserted row, by a request beyond Create, and a row is
\* never taken back.
LEMMA InsertedStep ==
    ASSUME IInv, [Next]_vars
    PROVE  Inserted'
<1>1. ASSUME NEW c \in Calls, NEW r \in Records, Submit(c, r)
      PROVE  Inserted'
      BY <1>1, AsyncJobsAssumption
      DEF TypeOK, Holding, Inserted, SubmitsOwn, Exists, Active, Terminal,
          Ended, CallSteps, WorkSteps, Submit, queue, calls, slots, IInv
<1>2. ASSUME NEW c \in Calls, Create(c)
      PROVE  Inserted'
      BY <1>2, AsyncJobsAssumption
      DEF TypeOK, Holding, Inserted, SubmitsOwn, Exists, Active, Terminal,
          Ended, CallSteps, WorkSteps, Create, CallTo, CallEnds, Write,
          queue, calls, slots, IInv
<1>3. ASSUME NEW c \in Calls, Enqueue(c)
      PROVE  Inserted'
      BY <1>3, AsyncJobsAssumption
      DEF TypeOK, Holding, Inserted, SubmitsOwn, Exists, Active, Terminal,
          Ended, CallSteps, WorkSteps, Enqueue, AddToQueue, Move, CallTo,
          queue, calls, slots, IInv
<1>4. ASSUME NEW c \in Calls, Record(c)
      PROVE  Inserted'
      BY <1>4, AsyncJobsAssumption
      DEF TypeOK, Holding, Inserted, SubmitsOwn, Exists, Active, Terminal,
          Ended, CallSteps, WorkSteps, Record, Write, CallEnds, queue,
          calls, slots, IInv
<1>5. ASSUME NEW c \in Calls, Refuse(c)
      PROVE  Inserted'
      BY <1>5, AsyncJobsAssumption
      DEF TypeOK, Holding, Inserted, SubmitsOwn, Exists, Active, Terminal,
          Ended, CallSteps, WorkSteps, Refuse, Write, CallEnds, queue,
          calls, slots, IInv
<1>6. ASSUME NEW c \in Calls, QueueFails(c)
      PROVE  Inserted'
      BY <1>6, AsyncJobsAssumption
      DEF TypeOK, Holding, Inserted, SubmitsOwn, Exists, Active, Terminal,
          Ended, CallSteps, WorkSteps, QueueFails, Happens, CallTo, queue,
          calls, slots, IInv
<1>7. ASSUME NEW c \in Calls, AckLost(c)
      PROVE  Inserted'
      BY <1>7, AsyncJobsAssumption
      DEF TypeOK, Holding, Inserted, SubmitsOwn, Exists, Active, Terminal,
          Ended, CallSteps, WorkSteps, AckLost, Happens, AddToQueue, Move,
          CallTo, queue, calls, slots, IInv
<1>8. ASSUME NEW c \in Calls, RecordFails(c)
      PROVE  Inserted'
      BY <1>8, AsyncJobsAssumption
      DEF TypeOK, Holding, Inserted, SubmitsOwn, Exists, Active, Terminal,
          Ended, CallSteps, WorkSteps, RecordFails, Happens, CallTo, queue,
          calls, slots, IInv
<1>9. ASSUME NEW c \in Calls, ApiCrash(c)
      PROVE  Inserted'
      BY <1>9, AsyncJobsAssumption
      DEF TypeOK, Holding, Inserted, SubmitsOwn, Exists, Active, Terminal,
          Ended, CallSteps, WorkSteps, ApiCrash, Happens, CallEnds, queue,
          calls, slots, IInv
<1>10. ASSUME NEW r \in Records, Capture(r)
      PROVE  Inserted'
      BY <1>10, AsyncJobsAssumption
      DEF TypeOK, Holding, Inserted, SubmitsOwn, Exists, Active, Terminal,
          Ended, CallSteps, WorkSteps, Capture, Write, queue, calls, slots,
          IInv
<1>11. ASSUME NEW c \in Calls, NEW r \in Records, Dispatch(c, r)
      PROVE  Inserted'
      BY <1>11, AsyncJobsAssumption
      DEF TypeOK, Holding, Inserted, SubmitsOwn, Exists, Active, Terminal,
          Ended, CallSteps, WorkSteps, Dispatch, Dispatches, queue, calls,
          slots, IInv
<1>12. ASSUME NEW c \in Calls, Look(c)
      PROVE  Inserted'
      BY <1>12, AsyncJobsAssumption
      DEF TypeOK, Holding, Inserted, SubmitsOwn, Exists, Active, Terminal,
          Ended, CallSteps, WorkSteps, Look, CallTo, CallEnds, queue, calls,
          slots, IInv
<1>13. ASSUME NEW c \in Calls, Retry(c)
      PROVE  Inserted'
      BY <1>13, AsyncJobsAssumption
      DEF TypeOK, Holding, Inserted, SubmitsOwn, Exists, Active, Terminal,
          Ended, CallSteps, WorkSteps, Retry, Move, CallTo, queue, calls,
          slots, IInv
<1>14. ASSUME NEW w \in Workers, NEW r \in Records, Take(w, r)
      PROVE  Inserted'
      BY <1>14, AsyncJobsAssumption
      DEF TypeOK, Holding, Inserted, SubmitsOwn, Exists, Active, Terminal,
          Ended, CallSteps, WorkSteps, Take, Move, queue, calls, slots, IInv
<1>15. ASSUME NEW w \in Workers, MarkRunning(w)
      PROVE  Inserted'
      BY <1>15, AsyncJobsAssumption
      DEF TypeOK, Holding, Inserted, SubmitsOwn, Exists, Active, Terminal,
          Ended, CallSteps, WorkSteps, MarkRunning, Write, WorkTo, queue,
          calls, slots, IInv
<1>16. ASSUME NEW w \in Workers, MarkSucceeded(w)
      PROVE  Inserted'
      BY <1>16, AsyncJobsAssumption
      DEF TypeOK, Holding, Inserted, SubmitsOwn, Exists, Active, Terminal,
          Ended, CallSteps, WorkSteps, MarkSucceeded, Write, WorkTo, queue,
          calls, slots, IInv
<1>17. ASSUME NEW w \in Workers, MarkFailure(w)
      PROVE  Inserted'
      BY <1>17, AsyncJobsAssumption
      DEF TypeOK, Holding, Inserted, SubmitsOwn, Exists, Active, Terminal,
          Ended, CallSteps, WorkSteps, MarkFailure, Write, WorkTo, queue,
          calls, slots, IInv
<1>18. ASSUME NEW w \in Workers, MarkFails(w)
      PROVE  Inserted'
      BY <1>18, AsyncJobsAssumption
      DEF TypeOK, Holding, Inserted, SubmitsOwn, Exists, Active, Terminal,
          Ended, CallSteps, WorkSteps, MarkFails, Happens, WorkTo, queue,
          calls, slots, IInv
<1>19. ASSUME NEW w \in Workers, Ack(w)
      PROVE  Inserted'
      BY <1>19, AsyncJobsAssumption
      DEF TypeOK, Holding, Inserted, SubmitsOwn, Exists, Active, Terminal,
          Ended, CallSteps, WorkSteps, Ack, Move, WorkEnds, queue, calls,
          slots, IInv
<1>20. ASSUME NEW w \in Workers, Throw(w)
      PROVE  Inserted'
      BY <1>20, AsyncJobsAssumption
      DEF TypeOK, Holding, Inserted, SubmitsOwn, Exists, Active, Terminal,
          Ended, CallSteps, WorkSteps, Throw, Move, WorkEnds, LastAttempt,
          queue, calls, slots, IInv
<1>21. ASSUME NEW w \in Workers, WorkerCrash(w)
      PROVE  Inserted'
      BY <1>21, AsyncJobsAssumption
      DEF TypeOK, Holding, Inserted, SubmitsOwn, Exists, Active, Terminal,
          Ended, CallSteps, WorkSteps, WorkerCrash, Happens, WorkEnds,
          queue, calls, slots, IInv
<1>22. ASSUME NEW r \in Records, Stalled(r)
      PROVE  Inserted'
      BY <1>22, AsyncJobsAssumption
      DEF TypeOK, Holding, Inserted, SubmitsOwn, Exists, Active, Terminal,
          Ended, CallSteps, WorkSteps, Stalled, Move, StallsLeft, queue,
          calls, slots, IInv
<1>23. ASSUME NEW r \in Records, Remove(r)
      PROVE  Inserted'
      BY <1>23, AsyncJobsAssumption
      DEF TypeOK, Holding, Inserted, SubmitsOwn, Exists, Active, Terminal,
          Ended, CallSteps, WorkSteps, Remove, Move, Happens, queue, calls,
          slots, IInv
<1>24. CASE UNCHANGED vars
      BY <1>24, AsyncJobsAssumption
      DEF TypeOK, Holding, Inserted, SubmitsOwn, Exists, Active, Terminal,
          Ended, CallSteps, WorkSteps, IInv, vars, queue, calls, slots
<1>25. QED
  BY <1>1, <1>2, <1>3, <1>4, <1>5, <1>6, <1>7, <1>8, <1>9, <1>10, <1>11,
     <1>12, <1>13, <1>14, <1>15, <1>16, <1>17, <1>18, <1>19, <1>20, <1>21,
     <1>22, <1>23, <1>24
  DEF Next, CallNext, CallFault, WorkNext, WorkFault

\* A new id is held by no request, and only rows of the outbox are dispatched.
LEMMA SubmitsOwnStep ==
    ASSUME IInv, [Next]_vars
    PROVE  SubmitsOwn'
<1>1. ASSUME NEW c \in Calls, NEW r \in Records, Submit(c, r)
      PROVE  SubmitsOwn'
      BY <1>1, AsyncJobsAssumption
      DEF TypeOK, SubmitsOwn, CallSteps, Submit, queue, calls, slots, IInv
<1>2. ASSUME NEW c \in Calls, Create(c)
      PROVE  SubmitsOwn'
      BY <1>2, AsyncJobsAssumption
      DEF TypeOK, SubmitsOwn, CallSteps, Create, CallTo, CallEnds, Write,
          queue, calls, slots, IInv
<1>3. ASSUME NEW c \in Calls, Enqueue(c)
      PROVE  SubmitsOwn'
      BY <1>3, AsyncJobsAssumption
      DEF TypeOK, SubmitsOwn, CallSteps, Enqueue, AddToQueue, Move, CallTo,
          queue, calls, slots, IInv
<1>4. ASSUME NEW c \in Calls, Record(c)
      PROVE  SubmitsOwn'
      BY <1>4, AsyncJobsAssumption
      DEF TypeOK, SubmitsOwn, CallSteps, Record, Write, CallEnds, queue,
          calls, slots, IInv
<1>5. ASSUME NEW c \in Calls, Refuse(c)
      PROVE  SubmitsOwn'
      BY <1>5, AsyncJobsAssumption
      DEF TypeOK, SubmitsOwn, CallSteps, Refuse, Write, CallEnds, queue,
          calls, slots, IInv
<1>6. ASSUME NEW c \in Calls, QueueFails(c)
      PROVE  SubmitsOwn'
      BY <1>6, AsyncJobsAssumption
      DEF TypeOK, SubmitsOwn, CallSteps, QueueFails, Happens, CallTo, queue,
          calls, slots, IInv
<1>7. ASSUME NEW c \in Calls, AckLost(c)
      PROVE  SubmitsOwn'
      BY <1>7, AsyncJobsAssumption
      DEF TypeOK, SubmitsOwn, CallSteps, AckLost, Happens, AddToQueue, Move,
          CallTo, queue, calls, slots, IInv
<1>8. ASSUME NEW c \in Calls, RecordFails(c)
      PROVE  SubmitsOwn'
      BY <1>8, AsyncJobsAssumption
      DEF TypeOK, SubmitsOwn, CallSteps, RecordFails, Happens, CallTo,
          queue, calls, slots, IInv
<1>9. ASSUME NEW c \in Calls, ApiCrash(c)
      PROVE  SubmitsOwn'
      BY <1>9, AsyncJobsAssumption
      DEF TypeOK, SubmitsOwn, CallSteps, ApiCrash, Happens, CallEnds, queue,
          calls, slots, IInv
<1>10. ASSUME NEW c \in Calls, NEW r \in Records, Dispatch(c, r)
      PROVE  SubmitsOwn'
      BY <1>10, AsyncJobsAssumption
      DEF TypeOK, SubmitsOwn, CallSteps, Dispatch, Dispatches, queue, calls,
          slots, IInv
<1>11. ASSUME NEW c \in Calls, Look(c)
      PROVE  SubmitsOwn'
      BY <1>11, AsyncJobsAssumption
      DEF TypeOK, SubmitsOwn, CallSteps, Look, CallTo, CallEnds, queue,
          calls, slots, IInv
<1>12. ASSUME NEW c \in Calls, Retry(c)
      PROVE  SubmitsOwn'
      BY <1>12, AsyncJobsAssumption
      DEF TypeOK, SubmitsOwn, CallSteps, Retry, Move, CallTo, queue, calls,
          slots, IInv
<1>13. CASE UNCHANGED <<callStep, callRec>>
      BY <1>13, AsyncJobsAssumption
      DEF TypeOK, SubmitsOwn, CallSteps, slots, IInv
<1>14. QED
  BY <1>1, <1>2, <1>3, <1>4, <1>5, <1>6, <1>7, <1>8, <1>9, <1>10, <1>11,
     <1>12, <1>13
  DEF Next, CallNext, CallFault, WorkNext, WorkFault, Capture, Take,
      MarkRunning, MarkSucceeded, MarkFailure, MarkFails, Ack, Throw,
      WorkerCrash, Stalled, Remove, vars, queue, calls, slots, CallTo,
      CallEnds, WorkTo, WorkEnds, Write, Move, Happens, Dispatches

\* The job of a submission is added by that submission alone (SubmitsOwn),
\* which can refuse the row afterwards only when an answer was lost or an
\* update failed.
LEMMA SubmitsAloneStep ==
    ASSUME IInv, [Next]_vars
    PROVE  SubmitsAlone'
<1>1. ASSUME NEW c \in Calls, NEW r \in Records, Submit(c, r)
      PROVE  SubmitsAlone'
      BY <1>1, AsyncJobsAssumption
      DEF TypeOK, Holding, Inserted, SubmitsOwn, SubmitsAlone, Calm, Exists,
          CallSteps, FaultKinds, Ended, Active, Terminal, Submit, queue,
          calls, slots, IInv
<1>2. ASSUME NEW c \in Calls, Create(c)
      PROVE  SubmitsAlone'
      BY <1>2, AsyncJobsAssumption
      DEF TypeOK, Holding, Inserted, SubmitsOwn, SubmitsAlone, Calm, Exists,
          CallSteps, FaultKinds, Ended, Active, Terminal, Create, CallTo,
          CallEnds, Write, queue, calls, slots, IInv
<1>3. ASSUME NEW c \in Calls, Enqueue(c)
      PROVE  SubmitsAlone'
      BY <1>3, AsyncJobsAssumption
      DEF TypeOK, Holding, Inserted, SubmitsOwn, SubmitsAlone, Calm, Exists,
          CallSteps, FaultKinds, Ended, Active, Terminal, Enqueue,
          AddToQueue, Move, CallTo, queue, calls, slots, IInv
<1>4. ASSUME NEW c \in Calls, Record(c)
      PROVE  SubmitsAlone'
      BY <1>4, AsyncJobsAssumption
      DEF TypeOK, Holding, Inserted, SubmitsOwn, SubmitsAlone, Calm, Exists,
          CallSteps, FaultKinds, Ended, Active, Terminal, Record, Write,
          CallEnds, queue, calls, slots, IInv
<1>5. ASSUME NEW c \in Calls, Refuse(c)
      PROVE  SubmitsAlone'
      BY <1>5, AsyncJobsAssumption
      DEF TypeOK, Holding, Inserted, SubmitsOwn, SubmitsAlone, Calm, Exists,
          CallSteps, FaultKinds, Ended, Active, Terminal, Refuse, Write,
          CallEnds, queue, calls, slots, IInv
<1>6. ASSUME NEW c \in Calls, QueueFails(c)
      PROVE  SubmitsAlone'
      BY <1>6, AsyncJobsAssumption
      DEF TypeOK, Holding, Inserted, SubmitsOwn, SubmitsAlone, Calm, Exists,
          CallSteps, FaultKinds, Ended, Active, Terminal, QueueFails,
          Happens, CallTo, queue, calls, slots, IInv
<1>7. ASSUME NEW c \in Calls, AckLost(c)
      PROVE  SubmitsAlone'
      BY <1>7, AsyncJobsAssumption
      DEF TypeOK, Holding, Inserted, SubmitsOwn, SubmitsAlone, Calm, Exists,
          CallSteps, FaultKinds, Ended, Active, Terminal, AckLost, Happens,
          AddToQueue, Move, CallTo, queue, calls, slots, IInv
<1>8. ASSUME NEW c \in Calls, RecordFails(c)
      PROVE  SubmitsAlone'
      BY <1>8, AsyncJobsAssumption
      DEF TypeOK, Holding, Inserted, SubmitsOwn, SubmitsAlone, Calm, Exists,
          CallSteps, FaultKinds, Ended, Active, Terminal, RecordFails,
          Happens, CallTo, queue, calls, slots, IInv
<1>9. ASSUME NEW c \in Calls, ApiCrash(c)
      PROVE  SubmitsAlone'
      BY <1>9, AsyncJobsAssumption
      DEF TypeOK, Holding, Inserted, SubmitsOwn, SubmitsAlone, Calm, Exists,
          CallSteps, FaultKinds, Ended, Active, Terminal, ApiCrash, Happens,
          CallEnds, queue, calls, slots, IInv
<1>10. ASSUME NEW r \in Records, Capture(r)
      PROVE  SubmitsAlone'
      BY <1>10, AsyncJobsAssumption
      DEF TypeOK, Holding, Inserted, SubmitsOwn, SubmitsAlone, Calm, Exists,
          CallSteps, FaultKinds, Ended, Active, Terminal, Capture, Write,
          queue, calls, slots, IInv
<1>11. ASSUME NEW c \in Calls, NEW r \in Records, Dispatch(c, r)
      PROVE  SubmitsAlone'
      BY <1>11, AsyncJobsAssumption
      DEF TypeOK, Holding, Inserted, SubmitsOwn, SubmitsAlone, Calm, Exists,
          CallSteps, FaultKinds, Ended, Active, Terminal, Dispatch,
          Dispatches, queue, calls, slots, IInv
<1>12. ASSUME NEW c \in Calls, Look(c)
      PROVE  SubmitsAlone'
      BY <1>12, AsyncJobsAssumption
      DEF TypeOK, Holding, Inserted, SubmitsOwn, SubmitsAlone, Calm, Exists,
          CallSteps, FaultKinds, Ended, Active, Terminal, Look, CallTo,
          CallEnds, queue, calls, slots, IInv
<1>13. ASSUME NEW c \in Calls, Retry(c)
      PROVE  SubmitsAlone'
      BY <1>13, AsyncJobsAssumption
      DEF TypeOK, Holding, Inserted, SubmitsOwn, SubmitsAlone, Calm, Exists,
          CallSteps, FaultKinds, Ended, Active, Terminal, Retry, Move,
          CallTo, queue, calls, slots, IInv
<1>14. ASSUME NEW w \in Workers, NEW r \in Records, Take(w, r)
      PROVE  SubmitsAlone'
      BY <1>14, AsyncJobsAssumption
      DEF TypeOK, Holding, Inserted, SubmitsOwn, SubmitsAlone, Calm, Exists,
          CallSteps, FaultKinds, Ended, Active, Terminal, Take, Move, queue,
          calls, slots, IInv
<1>15. ASSUME NEW w \in Workers, MarkRunning(w)
      PROVE  SubmitsAlone'
      BY <1>15, AsyncJobsAssumption
      DEF TypeOK, Holding, Inserted, SubmitsOwn, SubmitsAlone, Calm, Exists,
          CallSteps, FaultKinds, Ended, Active, Terminal, MarkRunning,
          Write, WorkTo, queue, calls, slots, IInv
<1>16. ASSUME NEW w \in Workers, MarkSucceeded(w)
      PROVE  SubmitsAlone'
      BY <1>16, AsyncJobsAssumption
      DEF TypeOK, Holding, Inserted, SubmitsOwn, SubmitsAlone, Calm, Exists,
          CallSteps, FaultKinds, Ended, Active, Terminal, MarkSucceeded,
          Write, WorkTo, queue, calls, slots, IInv
<1>17. ASSUME NEW w \in Workers, MarkFailure(w)
      PROVE  SubmitsAlone'
      BY <1>17, AsyncJobsAssumption
      DEF TypeOK, Holding, Inserted, SubmitsOwn, SubmitsAlone, Calm, Exists,
          CallSteps, FaultKinds, Ended, Active, Terminal, MarkFailure,
          Write, WorkTo, queue, calls, slots, IInv
<1>18. ASSUME NEW w \in Workers, MarkFails(w)
      PROVE  SubmitsAlone'
      BY <1>18, AsyncJobsAssumption
      DEF TypeOK, Holding, Inserted, SubmitsOwn, SubmitsAlone, Calm, Exists,
          CallSteps, FaultKinds, Ended, Active, Terminal, MarkFails,
          Happens, WorkTo, queue, calls, slots, IInv
<1>19. ASSUME NEW w \in Workers, Ack(w)
      PROVE  SubmitsAlone'
      BY <1>19, AsyncJobsAssumption
      DEF TypeOK, Holding, Inserted, SubmitsOwn, SubmitsAlone, Calm, Exists,
          CallSteps, FaultKinds, Ended, Active, Terminal, Ack, Move,
          WorkEnds, queue, calls, slots, IInv
<1>20. ASSUME NEW w \in Workers, Throw(w)
      PROVE  SubmitsAlone'
      BY <1>20, AsyncJobsAssumption
      DEF TypeOK, Holding, Inserted, SubmitsOwn, SubmitsAlone, Calm, Exists,
          CallSteps, FaultKinds, Ended, Active, Terminal, Throw, Move,
          WorkEnds, LastAttempt, queue, calls, slots, IInv
<1>21. ASSUME NEW w \in Workers, WorkerCrash(w)
      PROVE  SubmitsAlone'
      BY <1>21, AsyncJobsAssumption
      DEF TypeOK, Holding, Inserted, SubmitsOwn, SubmitsAlone, Calm, Exists,
          CallSteps, FaultKinds, Ended, Active, Terminal, WorkerCrash,
          Happens, WorkEnds, queue, calls, slots, IInv
<1>22. ASSUME NEW r \in Records, Stalled(r)
      PROVE  SubmitsAlone'
      BY <1>22, AsyncJobsAssumption
      DEF TypeOK, Holding, Inserted, SubmitsOwn, SubmitsAlone, Calm, Exists,
          CallSteps, FaultKinds, Ended, Active, Terminal, Stalled, Move,
          StallsLeft, queue, calls, slots, IInv
<1>23. ASSUME NEW r \in Records, Remove(r)
      PROVE  SubmitsAlone'
      BY <1>23, AsyncJobsAssumption
      DEF TypeOK, Holding, Inserted, SubmitsOwn, SubmitsAlone, Calm, Exists,
          CallSteps, FaultKinds, Ended, Active, Terminal, Remove, Move,
          Happens, queue, calls, slots, IInv
<1>24. CASE UNCHANGED vars
      BY <1>24, AsyncJobsAssumption
      DEF TypeOK, Holding, Inserted, SubmitsOwn, SubmitsAlone, Calm, Exists,
          CallSteps, FaultKinds, Ended, Active, Terminal, IInv, vars, queue,
          calls, slots
<1>25. QED
  BY <1>1, <1>2, <1>3, <1>4, <1>5, <1>6, <1>7, <1>8, <1>9, <1>10, <1>11,
     <1>12, <1>13, <1>14, <1>15, <1>16, <1>17, <1>18, <1>19, <1>20, <1>21,
     <1>22, <1>23, <1>24
  DEF Next, CallNext, CallFault, WorkNext, WorkFault

\* While the job of a submitted row runs, Create and Refuse do not write the
\* row (SubmitsAlone: Bull would not know its job) and no other worker does
\* (OneHolder).
LEMMA RunningStep ==
    ASSUME IInv, [Next]_vars
    PROVE  RunningIsRecorded'
<1>1. ASSUME NEW c \in Calls, NEW r \in Records, Submit(c, r)
      PROVE  RunningIsRecorded'
      BY <1>1, AsyncJobsAssumption
      DEF TypeOK, Holding, OneHolder, Inserted, SubmitsOwn, SubmitsAlone,
          RunningIsRecorded, Calm, Exists, CallSteps, WorkSteps, FaultKinds,
          Ended, Active, Terminal, Submit, queue, calls, slots, IInv
<1>2. ASSUME NEW c \in Calls, Create(c)
      PROVE  RunningIsRecorded'
      BY <1>2, AsyncJobsAssumption
      DEF TypeOK, Holding, OneHolder, Inserted, SubmitsOwn, SubmitsAlone,
          RunningIsRecorded, Calm, Exists, CallSteps, WorkSteps, FaultKinds,
          Ended, Active, Terminal, Create, CallTo, CallEnds, Write, queue,
          calls, slots, IInv
<1>3. ASSUME NEW c \in Calls, Enqueue(c)
      PROVE  RunningIsRecorded'
      BY <1>3, AsyncJobsAssumption
      DEF TypeOK, Holding, OneHolder, Inserted, SubmitsOwn, SubmitsAlone,
          RunningIsRecorded, Calm, Exists, CallSteps, WorkSteps, FaultKinds,
          Ended, Active, Terminal, Enqueue, AddToQueue, Move, CallTo, queue,
          calls, slots, IInv
<1>4. ASSUME NEW c \in Calls, Record(c)
      PROVE  RunningIsRecorded'
      BY <1>4, AsyncJobsAssumption
      DEF TypeOK, Holding, OneHolder, Inserted, SubmitsOwn, SubmitsAlone,
          RunningIsRecorded, Calm, Exists, CallSteps, WorkSteps, FaultKinds,
          Ended, Active, Terminal, Record, Write, CallEnds, queue, calls,
          slots, IInv
<1>5. ASSUME NEW c \in Calls, Refuse(c)
      PROVE  RunningIsRecorded'
      BY <1>5, AsyncJobsAssumption
      DEF TypeOK, Holding, OneHolder, Inserted, SubmitsOwn, SubmitsAlone,
          RunningIsRecorded, Calm, Exists, CallSteps, WorkSteps, FaultKinds,
          Ended, Active, Terminal, Refuse, Write, CallEnds, queue, calls,
          slots, IInv
<1>6. ASSUME NEW c \in Calls, QueueFails(c)
      PROVE  RunningIsRecorded'
      BY <1>6, AsyncJobsAssumption
      DEF TypeOK, Holding, OneHolder, Inserted, SubmitsOwn, SubmitsAlone,
          RunningIsRecorded, Calm, Exists, CallSteps, WorkSteps, FaultKinds,
          Ended, Active, Terminal, QueueFails, Happens, CallTo, queue,
          calls, slots, IInv
<1>7. ASSUME NEW c \in Calls, AckLost(c)
      PROVE  RunningIsRecorded'
      BY <1>7, AsyncJobsAssumption
      DEF TypeOK, Holding, OneHolder, Inserted, SubmitsOwn, SubmitsAlone,
          RunningIsRecorded, Calm, Exists, CallSteps, WorkSteps, FaultKinds,
          Ended, Active, Terminal, AckLost, Happens, AddToQueue, Move,
          CallTo, queue, calls, slots, IInv
<1>8. ASSUME NEW c \in Calls, RecordFails(c)
      PROVE  RunningIsRecorded'
      BY <1>8, AsyncJobsAssumption
      DEF TypeOK, Holding, OneHolder, Inserted, SubmitsOwn, SubmitsAlone,
          RunningIsRecorded, Calm, Exists, CallSteps, WorkSteps, FaultKinds,
          Ended, Active, Terminal, RecordFails, Happens, CallTo, queue,
          calls, slots, IInv
<1>9. ASSUME NEW c \in Calls, ApiCrash(c)
      PROVE  RunningIsRecorded'
      BY <1>9, AsyncJobsAssumption
      DEF TypeOK, Holding, OneHolder, Inserted, SubmitsOwn, SubmitsAlone,
          RunningIsRecorded, Calm, Exists, CallSteps, WorkSteps, FaultKinds,
          Ended, Active, Terminal, ApiCrash, Happens, CallEnds, queue,
          calls, slots, IInv
<1>10. ASSUME NEW r \in Records, Capture(r)
      PROVE  RunningIsRecorded'
      BY <1>10, AsyncJobsAssumption
      DEF TypeOK, Holding, OneHolder, Inserted, SubmitsOwn, SubmitsAlone,
          RunningIsRecorded, Calm, Exists, CallSteps, WorkSteps, FaultKinds,
          Ended, Active, Terminal, Capture, Write, queue, calls, slots, IInv
<1>11. ASSUME NEW c \in Calls, NEW r \in Records, Dispatch(c, r)
      PROVE  RunningIsRecorded'
      BY <1>11, AsyncJobsAssumption
      DEF TypeOK, Holding, OneHolder, Inserted, SubmitsOwn, SubmitsAlone,
          RunningIsRecorded, Calm, Exists, CallSteps, WorkSteps, FaultKinds,
          Ended, Active, Terminal, Dispatch, Dispatches, queue, calls,
          slots, IInv
<1>12. ASSUME NEW c \in Calls, Look(c)
      PROVE  RunningIsRecorded'
      BY <1>12, AsyncJobsAssumption
      DEF TypeOK, Holding, OneHolder, Inserted, SubmitsOwn, SubmitsAlone,
          RunningIsRecorded, Calm, Exists, CallSteps, WorkSteps, FaultKinds,
          Ended, Active, Terminal, Look, CallTo, CallEnds, queue, calls,
          slots, IInv
<1>13. ASSUME NEW c \in Calls, Retry(c)
      PROVE  RunningIsRecorded'
      BY <1>13, AsyncJobsAssumption
      DEF TypeOK, Holding, OneHolder, Inserted, SubmitsOwn, SubmitsAlone,
          RunningIsRecorded, Calm, Exists, CallSteps, WorkSteps, FaultKinds,
          Ended, Active, Terminal, Retry, Move, CallTo, queue, calls, slots,
          IInv
<1>14. ASSUME NEW w \in Workers, NEW r \in Records, Take(w, r)
      PROVE  RunningIsRecorded'
      BY <1>14, AsyncJobsAssumption
      DEF TypeOK, Holding, OneHolder, Inserted, SubmitsOwn, SubmitsAlone,
          RunningIsRecorded, Calm, Exists, CallSteps, WorkSteps, FaultKinds,
          Ended, Active, Terminal, Take, Move, queue, calls, slots, IInv
<1>15. ASSUME NEW w \in Workers, MarkRunning(w)
      PROVE  RunningIsRecorded'
      BY <1>15, AsyncJobsAssumption
      DEF TypeOK, Holding, OneHolder, Inserted, SubmitsOwn, SubmitsAlone,
          RunningIsRecorded, Calm, Exists, CallSteps, WorkSteps, FaultKinds,
          Ended, Active, Terminal, MarkRunning, Write, WorkTo, queue, calls,
          slots, IInv
<1>16. ASSUME NEW w \in Workers, MarkSucceeded(w)
      PROVE  RunningIsRecorded'
      BY <1>16, AsyncJobsAssumption
      DEF TypeOK, Holding, OneHolder, Inserted, SubmitsOwn, SubmitsAlone,
          RunningIsRecorded, Calm, Exists, CallSteps, WorkSteps, FaultKinds,
          Ended, Active, Terminal, MarkSucceeded, Write, WorkTo, queue,
          calls, slots, IInv
<1>17. ASSUME NEW w \in Workers, MarkFailure(w)
      PROVE  RunningIsRecorded'
      BY <1>17, AsyncJobsAssumption
      DEF TypeOK, Holding, OneHolder, Inserted, SubmitsOwn, SubmitsAlone,
          RunningIsRecorded, Calm, Exists, CallSteps, WorkSteps, FaultKinds,
          Ended, Active, Terminal, MarkFailure, Write, WorkTo, queue, calls,
          slots, IInv
<1>18. ASSUME NEW w \in Workers, MarkFails(w)
      PROVE  RunningIsRecorded'
      BY <1>18, AsyncJobsAssumption
      DEF TypeOK, Holding, OneHolder, Inserted, SubmitsOwn, SubmitsAlone,
          RunningIsRecorded, Calm, Exists, CallSteps, WorkSteps, FaultKinds,
          Ended, Active, Terminal, MarkFails, Happens, WorkTo, queue, calls,
          slots, IInv
<1>19. ASSUME NEW w \in Workers, Ack(w)
      PROVE  RunningIsRecorded'
      BY <1>19, AsyncJobsAssumption
      DEF TypeOK, Holding, OneHolder, Inserted, SubmitsOwn, SubmitsAlone,
          RunningIsRecorded, Calm, Exists, CallSteps, WorkSteps, FaultKinds,
          Ended, Active, Terminal, Ack, Move, WorkEnds, queue, calls, slots,
          IInv
<1>20. ASSUME NEW w \in Workers, Throw(w)
      PROVE  RunningIsRecorded'
      BY <1>20, AsyncJobsAssumption
      DEF TypeOK, Holding, OneHolder, Inserted, SubmitsOwn, SubmitsAlone,
          RunningIsRecorded, Calm, Exists, CallSteps, WorkSteps, FaultKinds,
          Ended, Active, Terminal, Throw, Move, WorkEnds, LastAttempt,
          queue, calls, slots, IInv
<1>21. ASSUME NEW w \in Workers, WorkerCrash(w)
      PROVE  RunningIsRecorded'
      BY <1>21, AsyncJobsAssumption
      DEF TypeOK, Holding, OneHolder, Inserted, SubmitsOwn, SubmitsAlone,
          RunningIsRecorded, Calm, Exists, CallSteps, WorkSteps, FaultKinds,
          Ended, Active, Terminal, WorkerCrash, Happens, WorkEnds, queue,
          calls, slots, IInv
<1>22. ASSUME NEW r \in Records, Stalled(r)
      PROVE  RunningIsRecorded'
      BY <1>22, AsyncJobsAssumption
      DEF TypeOK, Holding, OneHolder, Inserted, SubmitsOwn, SubmitsAlone,
          RunningIsRecorded, Calm, Exists, CallSteps, WorkSteps, FaultKinds,
          Ended, Active, Terminal, Stalled, Move, StallsLeft, queue, calls,
          slots, IInv
<1>23. ASSUME NEW r \in Records, Remove(r)
      PROVE  RunningIsRecorded'
      BY <1>23, AsyncJobsAssumption
      DEF TypeOK, Holding, OneHolder, Inserted, SubmitsOwn, SubmitsAlone,
          RunningIsRecorded, Calm, Exists, CallSteps, WorkSteps, FaultKinds,
          Ended, Active, Terminal, Remove, Move, Happens, queue, calls,
          slots, IInv
<1>24. CASE UNCHANGED vars
      BY <1>24, AsyncJobsAssumption
      DEF TypeOK, Holding, OneHolder, Inserted, SubmitsOwn, SubmitsAlone,
          RunningIsRecorded, Calm, Exists, CallSteps, WorkSteps, FaultKinds,
          Ended, Active, Terminal, IInv, vars, queue, calls, slots
<1>25. QED
  BY <1>1, <1>2, <1>3, <1>4, <1>5, <1>6, <1>7, <1>8, <1>9, <1>10, <1>11,
     <1>12, <1>13, <1>14, <1>15, <1>16, <1>17, <1>18, <1>19, <1>20, <1>21,
     <1>22, <1>23, <1>24
  DEF Next, CallNext, CallFault, WorkNext, WorkFault

\* A row of the outbox shares its key with no other (AsyncJobsAssumption); any
\* other row becomes active only where its key is free.
LEMMA OneActiveStep ==
    ASSUME IInv, [Next]_vars
    PROVE  OneActive'
<1>1. ASSUME NEW c \in Calls, Create(c)
      PROVE  OneActive'
      BY <1>1, AsyncJobsAssumption
      DEF TypeOK, Holding, SubmitsOwn, OneActive, Exists, KeyTaken, SameKey,
          CallSteps, WorkSteps, Active, Terminal, Create, CallTo, CallEnds,
          Write, queue, calls, slots, IInv
<1>2. ASSUME NEW c \in Calls, Record(c)
      PROVE  OneActive'
      BY <1>2, AsyncJobsAssumption
      DEF TypeOK, Holding, SubmitsOwn, OneActive, Exists, KeyTaken, SameKey,
          CallSteps, WorkSteps, Active, Terminal, Record, Write, CallEnds,
          queue, calls, slots, IInv
<1>3. ASSUME NEW c \in Calls, Refuse(c)
      PROVE  OneActive'
      BY <1>3, AsyncJobsAssumption
      DEF TypeOK, Holding, SubmitsOwn, OneActive, Exists, KeyTaken, SameKey,
          CallSteps, WorkSteps, Active, Terminal, Refuse, Write, CallEnds,
          queue, calls, slots, IInv
<1>4. ASSUME NEW r \in Records, Capture(r)
      PROVE  OneActive'
      BY <1>4, AsyncJobsAssumption
      DEF TypeOK, Holding, SubmitsOwn, OneActive, Exists, KeyTaken, SameKey,
          CallSteps, WorkSteps, Active, Terminal, Capture, Write, queue,
          calls, slots, IInv
<1>5. ASSUME NEW w \in Workers, MarkRunning(w)
      PROVE  OneActive'
      BY <1>5, AsyncJobsAssumption
      DEF TypeOK, Holding, SubmitsOwn, OneActive, Exists, KeyTaken, SameKey,
          CallSteps, WorkSteps, Active, Terminal, MarkRunning, Write,
          WorkTo, queue, calls, slots, IInv
<1>6. ASSUME NEW w \in Workers, MarkSucceeded(w)
      PROVE  OneActive'
      BY <1>6, AsyncJobsAssumption
      DEF TypeOK, Holding, SubmitsOwn, OneActive, Exists, KeyTaken, SameKey,
          CallSteps, WorkSteps, Active, Terminal, MarkSucceeded, Write,
          WorkTo, queue, calls, slots, IInv
<1>7. ASSUME NEW w \in Workers, MarkFailure(w)
      PROVE  OneActive'
      BY <1>7, AsyncJobsAssumption
      DEF TypeOK, Holding, SubmitsOwn, OneActive, Exists, KeyTaken, SameKey,
          CallSteps, WorkSteps, Active, Terminal, MarkFailure, Write,
          WorkTo, queue, calls, slots, IInv
<1>8. CASE UNCHANGED status
      BY <1>8, AsyncJobsAssumption
      DEF TypeOK, Holding, SubmitsOwn, OneActive, Exists, KeyTaken, SameKey,
          CallSteps, WorkSteps, Active, Terminal, slots, IInv
<1>9. QED
  BY <1>1, <1>2, <1>3, <1>4, <1>5, <1>6, <1>7, <1>8
  DEF Next, CallNext, CallFault, WorkNext, WorkFault, Submit, Enqueue,
      QueueFails, AckLost, RecordFails, ApiCrash, Dispatch, Look, Retry,
      Take, MarkFails, Ack, Throw, WorkerCrash, Stalled, Remove, vars,
      queue, calls, slots, CallTo, CallEnds, WorkTo, WorkEnds, Write, Move,
      Happens, Dispatches

-----------------------------------------------------------------------------
LEMMA InitInvariant == Init => IInv
  BY AsyncJobsAssumption
  DEF Init, IInv, TypeOK, Holding, OneHolder, Inserted, SubmitsOwn,
      SubmitsAlone, RunningIsRecorded, OneActive, Active, Terminal, Ended,
      CallSteps, WorkSteps, FaultKinds, Exists

\* The inductive invariant holds in every state.
THEOREM Invariant == Spec => []IInv
<1>1. IInv /\ [Next]_vars => IInv'
  <2> SUFFICES ASSUME IInv, [Next]_vars PROVE IInv'
    OBVIOUS
  <2> QED
    BY TypeStep, HoldingStep, OneHolderStep, InsertedStep, SubmitsOwnStep,
       SubmitsAloneStep, RunningStep, OneActiveStep DEF IInv
<1>2. QED
  BY InitInvariant, <1>1, PTL DEF Spec

\* Rows, Bull jobs, requests and workers keep their types; no job is tried or
\* found stalled more often than it may be.
THEOREM TypeCorrect == Spec => []TypeOK
<1>1. IInv => TypeOK
  BY DEF IInv
<1>2. QED
  BY Invariant, <1>1, PTL

\* The workers of the queue never hold one job twice, although it is added
\* again, retried by hand, retried by Bull and taken from lost workers.
THEOREM SingleHolder == Spec => []OneHolder
<1>1. IInv => OneHolder
  BY DEF IInv
<1>2. QED
  BY Invariant, <1>1, PTL

\* No business job runs twice at one time for one key unless an answer of
\* Redis is lost or an update fails after an add.  Two workers that run rows
\* of one key run different rows (OneHolder), neither of the outbox, whose
\* keys are their own; both rows are RUNNING, which the index excludes.
THEOREM SingleRun == Spec => []OneRunPerKey
<1>1. IInv => OneRunPerKey
  <2> SUFFICES ASSUME IInv, Calm,
                      NEW v \in Workers, NEW w \in Workers,
                      workStep[v] = "run", workStep[w] = "run",
                      KeyOf[workRec[v]] = KeyOf[workRec[w]],
                      v # w
               PROVE  FALSE
    BY DEF OneRunPerKey, Calm
  <2>1. workRec[v] \in Records /\ workRec[w] \in Records
    BY DEF IInv, TypeOK, Holding
  <2>2. workRec[v] # workRec[w]
    BY <2>1, AsyncJobsAssumption DEF IInv, OneHolder
  <2>3. workRec[v] \notin Outbox /\ workRec[w] \notin Outbox
    BY <2>1, <2>2, AsyncJobsAssumption
  <2>4. status[workRec[v]] = "RUNNING" /\ status[workRec[w]] = "RUNNING"
    BY <2>3 DEF IInv, RunningIsRecorded
  <2>5. QED
    BY <2>1, <2>2, <2>4 DEF IInv, OneActive, Active
<1>2. QED
  BY Invariant, <1>1, PTL

=============================================================================
