----------------------------- MODULE MCAsyncJobs -----------------------------
(* Small instances of AsyncJobs for TLC. *)
EXTENDS AsyncJobs, TLC

CONSTANTS r1, r2, o1, k1, k2, w1, w2, a1, a2

\* two submissions of one job, and a row of the outbox
KeyedHere == [r \in Records |-> IF r \in Outbox THEN k2 ELSE k1]

NoFaults == [kind \in FaultKinds |-> 0]
OneEach(kinds) == [kind \in FaultKinds |-> IF kind \in kinds THEN 1 ELSE 0]

\* Redis refuses a command, an answer is lost, the row cannot be updated after
\* the job was added, and a worker is lost, each of them once
FaultsEnding == OneEach({"queueFails", "ackLost", "recordFails", "workerCrash"})

\* every failure but the update after an add, which an answer lost stands for,
\* and a worker lost twice, so that Bull gives a job up
FaultsCaughtUp ==
    [OneEach(FaultKinds \ {"recordFails"}) EXCEPT !["workerCrash"] = 2]
=============================================================================
