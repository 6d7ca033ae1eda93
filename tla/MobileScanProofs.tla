--------------------------- MODULE MobileScanProofs ---------------------------
(***************************************************************************)
(* What holds of MobileScan for any number of tasks, pallets and tokens:   *)
(* the types; the queue of scans, as long as no scan is made while it is   *)
(* sent (QueueApart); and the session of the device, as long as nothing    *)
(* runs beside its restoring and beside a sign-in (ScreensApart).  The     *)
(* instances of MCMobileScan satisfy both.                                 *)
(***************************************************************************)
EXTENDS MobileScan, TLAPS

Waiting == {"await", "awaitAgain"}
Calling == {"call", "callAgain"}

Records == [kind : Kinds, stage : Stages, token : Nat, pallet : Pallets \cup {NoPallet},
            synced : BOOLEAN, todo : SUBSET Pallets, seen : Queues]

StagesOf ==
    [kind \in Kinds |->
        CASE kind = "signIn"  -> {"login", "writeBack"}
          [] kind = "signOut" -> {"begin", "revoke", "erase"}
          [] kind = "restore" -> {"begin", "clear", "writeBack"} \cup Waiting \cup Calling
          [] kind = "scan"    -> {"begin", "clear", "queueRead", "queueWrite"}
                                 \cup Waiting \cup Calling
          [] kind = "sync"    -> {"list", "next", "begin", "clear", "queueRead", "queueWrite"}
                                 \cup Waiting \cup Calling
          [] kind = "read"    -> {"begin", "clear"} \cup Waiting \cup Calling]

\* A task is at a stage of its kind, carries a token where it needs one, and a
\* pallet where it handles one.
Fits(r) ==
    /\ r.stage # "idle" => r.stage \in StagesOf[r.kind]
    /\ r.stage = "idle" => r.kind = "read"
    /\ r.stage \in Waiting \cup Calling \cup {"writeBack", "revoke"} => r.token # 0
    /\ r.stage \notin Waiting \cup Calling \cup {"writeBack", "revoke", "erase"}
          => r.token = 0
    /\ r.kind = "scan" => r.pallet \in Pallets
    /\ r.kind = "sync" /\ r.stage \notin {"list", "next"} => r.pallet \in Pallets

TasksType ==
    /\ task \in [Tasks -> Records]
    /\ \A t \in Tasks : task[t].token <= issued
    /\ \A t \in Tasks : Fits(task[t])

ServerType ==
    /\ issued \in 0..MaxTokens
    /\ family \in [Tokens -> 0..MaxTokens]
    /\ \A k \in 1..issued : family[k] \in 1..issued
    /\ used \subseteq 1..issued
    /\ ended \in [Tokens -> Reasons]
    /\ loaded \subseteq Pallets
    /\ nearTo \in 0..issued /\ expiredTo \in 0..nearTo

DeviceType ==
    /\ store \in 0..issued
    /\ queue \in Queues
    /\ told \subseteq Pallets
    /\ lost \subseteq 1..issued

FlightType ==
    /\ flight \in [stage : {"none", "read", "sent", "answered"}, token : Nat, answer : Answers]
    /\ flight.token <= issued
    /\ flight.token # 0 <=> flight.stage \in {"sent", "answered"}
    /\ flight.answer = "none" <=> flight.stage # "answered"
    /\ flight.answer \in {"none", "ok", "invalid"}

\* Whoever waits for a refresh waits for one that is under way, and a refresh
\* is under way for somebody who waits.
Shared == flight.stage # "none" <=> \E t \in Tasks : Awaits(t)

Types == ServerType /\ DeviceType /\ FlightType /\ TasksType /\ Shared

\* What a single task does, and to whom.
TaskStep(t) ==
    \/ Start(t) \/ Begin(t) \/ Call(t) \/ Clear(t) \/ WriteBack(t)
    \/ List(t) \/ NextScan(t) \/ QueueRead(t) \/ QueueWrite(t)
    \/ Login(t) \/ LoginFails(t) \/ SignOutBegin(t) \/ Revoke(t) \/ Erase(t)

LEMMA NextIs ==
    Next <=> \/ RevokeAll \/ Tick \/ Kill
             \/ FlightReads \/ FlightAnswered \/ FlightLost \/ FlightEnds
             \/ \E t \in Tasks : TaskStep(t)
  BY DEF Next, TaskStep

LEMMA IdleFits == Idle \in Records /\ Fits(Idle) /\ Idle.stage = "idle" /\ Idle.kind = "read"
                  /\ Idle.token = 0
  BY DEF Idle, Records, Fits, Kinds, Stages, Queues, Empty, QueueStates, Waiting, Calling

LEMMA TypesGiveTypeOK == Types => TypeOK
<1> SUFFICES ASSUME Types PROVE TypeOK
  OBVIOUS
<1>1. used \subseteq Tokens
  BY MobileScanAssumption DEF Types, ServerType, Tokens
<1>2. flight \in [stage : {"none", "read", "sent", "answered"}, token : 0..issued,
                  answer : Answers]
  BY DEF Types, FlightType, ServerType
<1>3. task \in [Tasks -> [kind : Kinds, stage : Stages, token : 0..issued,
                          pallet : Pallets \cup {NoPallet}, synced : BOOLEAN,
                          todo : SUBSET Pallets, seen : Queues]]
  BY DEF Types, TasksType, ServerType, Records
<1> QED
  BY <1>1, <1>2, <1>3 DEF Types, ServerType, DeviceType, Shared, Awaits, TypeOK

\* A step that puts a fitting record in the place of one task keeps the others.
LEMMA OneTask ==
    ASSUME TasksType, NEW t \in Tasks, NEW r \in Records, Fits(r),
           task' = [task EXCEPT ![t] = r], issued' \in Nat, issued \in Nat, issued <= issued',
           r.token <= issued'
    PROVE  /\ TasksType'
           /\ task'[t] = r
           /\ \A u \in Tasks : u # t => task'[u] = task[u]
<1>1. \A u \in Tasks : task'[u] = IF u = t THEN r ELSE task[u]
  BY DEF TasksType
<1>2. task' \in [Tasks -> Records]
  BY DEF TasksType
<1>3. \A u \in Tasks : task[u].token \in Nat
  BY DEF TasksType, Records
<1>4. \A u \in Tasks : task'[u].token <= issued'
  BY <1>1, <1>3 DEF TasksType
<1> QED
  BY <1>1, <1>2, <1>4 DEF TasksType

\* The record with which each step of a task replaces its own.
LEMMA StartMoves ==
    ASSUME Types, NEW t \in Tasks, Start(t)
    PROVE  \E r \in Records : Fits(r) /\ r.token = 0 /\ task' = [task EXCEPT ![t] = r]
<1>1. PICK kind \in Kinds, p \in Pallets \cup {NoPallet} :
          /\ p # NoPallet <=> kind = "scan"
          /\ task' = [task EXCEPT ![t] = [Idle EXCEPT !.kind = kind, !.pallet = p,
                                                      !.stage = FirstStage[kind]]]
  BY DEF Start
<1> DEFINE r == [Idle EXCEPT !.kind = kind, !.pallet = p, !.stage = FirstStage[kind]]
<1>2. /\ FirstStage[kind] \in Stages /\ FirstStage[kind] \in StagesOf[kind]
      /\ FirstStage[kind] \notin Waiting \cup Calling \cup {"idle", "writeBack", "revoke", "erase"}
      /\ kind = "sync" => FirstStage[kind] = "list"
  BY DEF FirstStage, StagesOf, Kinds, Stages, Waiting, Calling
<1>3. r \in Records /\ r.kind = kind /\ r.stage = FirstStage[kind] /\ r.pallet = p /\ r.token = 0
  BY <1>2, IdleFits DEF Idle, Records
<1>4. Fits(r)
  <2> HIDE DEF r
  <2> QED
    BY <1>1, <1>2, <1>3 DEF Fits
<1> QED
  BY <1>1, <1>3, <1>4

LEMMA BeginMoves ==
    ASSUME Types, NEW t \in Tasks, Begin(t)
    PROVE  \E r \in Records : Fits(r) /\ r.token <= issued /\ task' = [task EXCEPT ![t] = r]
<1>1. task[t] \in Records /\ Fits(task[t]) /\ At(t, "begin") /\ task[t].kind # "signOut"
      /\ store \in Nat /\ store <= issued /\ issued \in Nat /\ nearTo \in Nat
  BY MobileScanAssumption DEF Begin, Types, TasksType, DeviceType, ServerType
<1>2. CASE Done(t)
  <2>1. Fits(Idle) /\ Idle.token <= issued /\ task' = [task EXCEPT ![t] = Idle]
    BY <1>1, <1>2, IdleFits DEF Done
  <2> QED
    BY <2>1, IdleFits
<1>3. ASSUME NEW stage \in {"await", "call"}, store # 0,
             task' = [task EXCEPT ![t].stage = stage, ![t].token = store]
      PROVE  \E r \in Records : Fits(r) /\ r.token <= issued /\ task' = [task EXCEPT ![t] = r]
  <2> DEFINE r == [task[t] EXCEPT !.stage = stage, !.token = store]
  <2>1. r \in Records /\ r.kind = task[t].kind /\ r.stage = stage /\ r.token = store
        /\ r.pallet = task[t].pallet
    BY <1>1, <1>3 DEF Records, Stages
  <2>2. task' = [task EXCEPT ![t] = r]
    BY <1>3, <1>1 DEF Types, TasksType
  <2>3. Fits(r)
    <3> HIDE DEF r
    <3>1. stage \in StagesOf[task[t].kind]
      BY <1>1, <1>3 DEF Fits, StagesOf, At, Kinds, Records, Waiting, Calling
    <3> QED
      BY <1>1, <1>3, <2>1, <3>1 DEF Fits, At, Waiting, Calling
  <2> QED
    BY <1>1, <2>1, <2>2, <2>3
<1> QED
  BY <1>1, <1>2, <1>3 DEF Begin, Join

LEMMA EndedFits ==
    ASSUME NEW r \in Records, Fits(r), NEW answer, r.stage \in Waiting \cup Calling
    PROVE  Ended(r, answer) \in Records /\ Fits(Ended(r, answer)) /\ Ended(r, answer).token = 0
<1>1. CASE r.kind = "scan" /\ answer = "network"
  <2> DEFINE q == [r EXCEPT !.stage = "queueRead", !.token = 0]
  <2>1. q \in Records /\ q.kind = "scan" /\ q.stage = "queueRead" /\ q.token = 0 /\ q.pallet = r.pallet
    BY <1>1 DEF Records, Stages
  <2>2. "queueRead" \in StagesOf["scan"]
    BY DEF StagesOf, Kinds
  <2>3. Fits(q)
    <3> HIDE DEF q
    <3> QED
      BY <1>1, <2>1, <2>2 DEF Fits, Waiting, Calling
  <2> QED
    BY <1>1, <2>1, <2>3 DEF Ended
<1> QED
  BY <1>1, IdleFits DEF Ended

Moved(r, stage, k) == [r EXCEPT !.stage = stage, !.token = k]

\* A task at one of the stages of a request may go to another of them.
LEMMA CallingFits ==
    ASSUME NEW r \in Records, Fits(r), r.stage \in Waiting \cup Calling,
           NEW k \in Nat, NEW stage \in Waiting \cup Calling \cup {"clear"},
           stage = "clear" <=> k = 0
    PROVE  /\ Moved(r, stage, k) \in Records /\ Fits(Moved(r, stage, k))
           /\ Moved(r, stage, k).stage = stage /\ Moved(r, stage, k).token = k
           /\ Moved(r, stage, k).kind = r.kind
<1> DEFINE q == Moved(r, stage, k)
<1>1. q \in Records /\ q.kind = r.kind /\ q.stage = stage /\ q.token = k /\ q.pallet = r.pallet
  BY DEF Moved, Records, Stages, Waiting, Calling
<1>2. stage \in StagesOf[r.kind]
  BY DEF Fits, StagesOf, Waiting, Calling, Kinds, Records
<1>3. Fits(q)
  <2> HIDE DEF q
  <2> QED
    BY <1>1, <1>2 DEF Fits, Waiting, Calling
<1> QED
  BY <1>1, <1>3

LEMMA ResumedFits ==
    ASSUME NEW r \in Records, Fits(r), r.stage \in Waiting, NEW answer, NEW k \in Nat,
           answer = "ok" => k # 0
    PROVE  /\ Resumed(r, answer, k) \in Records /\ Fits(Resumed(r, answer, k))
           /\ Resumed(r, answer, k).stage \notin Waiting
           /\ Resumed(r, answer, k).token \in {0, k, r.token}
           /\ Resumed(r, answer, k).stage # "idle" => Resumed(r, answer, k).kind = r.kind
<1>1. r.token \in Nat /\ r.token # 0
  BY DEF Records, Fits
<1>2. CASE answer = "invalid"
  <2>1. Resumed(r, answer, k) = Moved(r, "clear", 0)
    BY <1>2 DEF Resumed, Moved
  <2> QED
    BY <1>2, <2>1, CallingFits DEF Waiting
<1>3. CASE answer = "ok" /\ r.kind # "restore"
  <2> DEFINE stage == IF r.stage = "await" THEN "call" ELSE "callAgain"
  <2>1. stage \in Calling
    BY DEF Calling
  <2>2. Resumed(r, answer, k) = Moved(r, stage, k)
    BY <1>3 DEF Resumed, Moved, Records
  <2> HIDE DEF stage
  <2> QED
    BY <1>3, <2>1, <2>2, CallingFits DEF Waiting, Calling
<1>4. CASE answer = "network" /\ r.stage = "await" /\ r.kind # "restore" /\ r.token > expiredTo
  <2>1. Resumed(r, answer, k) = Moved(r, "call", r.token)
    BY <1>4 DEF Resumed, Moved, Records
  <2> QED
    BY <1>1, <1>4, <2>1, CallingFits DEF Waiting, Calling
<1>5. CASE ~ (answer = "invalid") /\ ~ (answer = "ok" /\ r.kind # "restore")
           /\ ~ (answer = "network" /\ r.stage = "await" /\ r.kind # "restore" /\ r.token > expiredTo)
  <2>1. Resumed(r, answer, k) = Ended(r, answer)
    BY <1>5 DEF Resumed
  <2>2. /\ Ended(r, answer).stage \notin Waiting
        /\ Ended(r, answer).stage # "idle" => Ended(r, answer).kind = r.kind
    BY IdleFits DEF Ended, Records, Waiting
  <2> QED
    BY <2>1, <2>2, EndedFits
<1> QED
  BY <1>2, <1>3, <1>4, <1>5

\* how a request that was answered leaves a task that had record o
After(r, o, answer) ==
    /\ Fits(r) /\ r.token \in {0, o.token}
    /\ r.stage \in {"awaitAgain", "queueRead", "clear", "writeBack", "idle"}
    /\ r.stage # "idle" => r.kind = o.kind /\ r.pallet = o.pallet
    /\ r.stage = "clear" => answer = "invalid"
    /\ r.stage = "queueRead" /\ r.kind = "sync" => r.synced = (answer = "ok")

LEMMA CallMoves ==
    ASSUME Types, NEW t \in Tasks, InCall(t), NEW answer, AfterCall(t, answer)
    PROVE  \E r \in Records : /\ After(r, task[t], answer)
                              /\ task' = [task EXCEPT ![t] = r]
                              /\ \/ r.stage = "awaitAgain" /\ Join(t, "awaitAgain", task[t].token)
                                 \/ r.stage # "awaitAgain" /\ flight' = flight
<1>1. task[t] \in Records /\ Fits(task[t]) /\ task[t].stage \in Calling
      /\ task[t].token \in Nat \ {0}
  BY DEF InCall, Types, TasksType, Calling, Fits, Records
<1> DEFINE o == task[t]
<1>2. CASE answer = "expired" /\ At(t, "call")
  <2> DEFINE r == Moved(o, "awaitAgain", o.token)
  <2>1. task' = [task EXCEPT ![t] = r]
    BY <1>2 DEF AfterCall, Join, Moved, Types, TasksType
  <2>2. r \in Records /\ Fits(r) /\ r.token = o.token /\ r.stage = "awaitAgain" /\ r.kind = o.kind
    BY <1>1, CallingFits DEF Waiting
  <2>3. r.pallet = o.pallet
    BY <1>1 DEF Moved, Records
  <2>4. Join(t, "awaitAgain", o.token)
    BY <1>2 DEF AfterCall
  <2> HIDE DEF r
  <2> QED
    BY <2>1, <2>2, <2>3, <2>4 DEF After
<1>3. CASE ~(answer = "expired" /\ At(t, "call"))
  <2>0. /\ flight' = flight
        /\ task' = [task EXCEPT ![t] =
             CASE o.kind = "sync" /\ answer # "expired" ->
                     [o EXCEPT !.stage = "queueRead", !.token = 0, !.synced = answer = "ok"]
               [] o.kind # "sync" /\ answer = "invalid" /\ o.stage = "call" -> Moved(o, "clear", 0)
               [] o.kind = "restore" /\ answer = "ok" -> [o EXCEPT !.stage = "writeBack"]
               [] OTHER -> Ended(o, answer)]
    BY <1>3 DEF AfterCall, Moved, Types, TasksType
  <2>1. CASE o.kind = "sync" /\ answer # "expired"
    <3> DEFINE r == [o EXCEPT !.stage = "queueRead", !.token = 0, !.synced = (answer = "ok")]
    <3>1. r \in Records /\ r.kind = "sync" /\ r.stage = "queueRead" /\ r.token = 0
          /\ r.pallet = o.pallet /\ r.synced = (answer = "ok")
      BY <1>1, <2>1 DEF Records, Stages
    <3>2. "queueRead" \in StagesOf["sync"]
      BY DEF StagesOf, Kinds
    <3>3. task' = [task EXCEPT ![t] = r]
      BY <2>0, <2>1
    <3> HIDE DEF r
    <3>4. Fits(r)
      BY <1>1, <2>1, <3>1, <3>2 DEF Fits, Waiting, Calling
    <3> QED
      BY <2>0, <2>1, <3>1, <3>3, <3>4 DEF After
  <2>2. CASE o.kind # "sync" /\ answer = "invalid" /\ o.stage = "call"
    <3> DEFINE r == Moved(o, "clear", 0)
    <3>1. task' = [task EXCEPT ![t] = r]
      BY <2>0, <2>2
    <3>2. r \in Records /\ Fits(r) /\ r.token = 0 /\ r.stage = "clear" /\ r.kind = o.kind
      BY <1>1, CallingFits
    <3>3. r.pallet = o.pallet
      BY <1>1 DEF Moved, Records
    <3> HIDE DEF r
    <3> QED
      BY <2>0, <2>2, <3>1, <3>2, <3>3 DEF After
  <2>3. CASE o.kind = "restore" /\ answer = "ok"
    <3> DEFINE r == [o EXCEPT !.stage = "writeBack"]
    <3>1. r \in Records /\ r.kind = "restore" /\ r.stage = "writeBack" /\ r.token = o.token
          /\ r.pallet = o.pallet
      BY <1>1, <2>3 DEF Records, Stages
    <3>2. "writeBack" \in StagesOf["restore"]
      BY DEF StagesOf, Kinds
    <3>3. task' = [task EXCEPT ![t] = r]
      BY <2>0, <2>3
    <3> HIDE DEF r
    <3>4. Fits(r)
      BY <1>1, <3>1, <3>2 DEF Fits, Waiting, Calling
    <3> QED
      BY <2>0, <2>3, <3>1, <3>3, <3>4 DEF After
  <2>4. CASE /\ ~(o.kind = "sync" /\ answer # "expired")
             /\ ~(o.kind # "sync" /\ answer = "invalid" /\ o.stage = "call")
             /\ ~(o.kind = "restore" /\ answer = "ok")
    <3> DEFINE r == Ended(o, answer)
    <3>1. task' = [task EXCEPT ![t] = r]
      BY <2>0, <2>4
    <3>2. r \in Records /\ Fits(r) /\ r.token = 0
      BY <1>1, EndedFits
    <3>3. \/ r = Idle
          \/ r.stage = "queueRead" /\ r.kind = "scan" /\ o.kind = "scan" /\ r.pallet = o.pallet
      BY <1>1 DEF Ended, Records
    <3> HIDE DEF r
    <3> QED
      BY <2>0, <3>1, <3>2, <3>3, IdleFits DEF After
  <2> QED
    BY <2>1, <2>2, <2>3, <2>4
<1> QED
  BY <1>2, <1>3

LEMMA QueueMoves ==
    ASSUME Types, NEW t \in Tasks,
           List(t) \/ NextScan(t) \/ QueueRead(t) \/ QueueWrite(t)
    PROVE  \E r \in Records : /\ Fits(r) /\ r.token = 0
                              /\ r.stage \in {"next", "begin", "queueWrite", "idle"}
                              /\ task' = [task EXCEPT ![t] = r]
<1> DEFINE o == task[t]
<1>1. o \in Records /\ Fits(o) /\ task \in [Tasks -> Records] /\ queue \in Queues
  BY DEF Types, TasksType, DeviceType
<1>2. /\ {"list", "next", "begin", "queueRead", "queueWrite"} \subseteq StagesOf["sync"]
      /\ {"queueRead", "queueWrite"} \subseteq StagesOf["scan"]
      /\ \A kind \in Kinds : /\ "list" \in StagesOf[kind] => kind = "sync"
                             /\ "next" \in StagesOf[kind] => kind = "sync"
                             /\ "queueRead" \in StagesOf[kind] => kind \in {"scan", "sync"}
                             /\ "queueWrite" \in StagesOf[kind] => kind \in {"scan", "sync"}
  BY DEF StagesOf, Kinds, Waiting, Calling
<1>3. o.kind \in Kinds
  BY <1>1 DEF Records
<1>4. CASE List(t)
  <2> DEFINE r == [o EXCEPT !.stage = "next", !.todo = {p \in Pallets : queue[p] = "waiting"}]
  <2>1. r \in Records /\ r.kind = o.kind /\ r.stage = "next" /\ r.token = o.token
    BY <1>1 DEF Records, Stages
  <2>2. task' = [task EXCEPT ![t] = r] /\ o.stage = "list" /\ o.kind = "sync" /\ o.token = 0
    BY <1>1, <1>2, <1>3, <1>4 DEF List, At, Fits, Waiting, Calling
  <2> HIDE DEF r
  <2> QED
    BY <1>2, <2>1, <2>2 DEF Fits, Waiting, Calling
<1>5. CASE NextScan(t)
  <2>1. CASE Done(t)
    BY <2>1, IdleFits DEF Done
  <2>2. ASSUME NEW p \in o.todo,
               task' = [task EXCEPT ![t].stage = "begin", ![t].pallet = p, ![t].todo = @ \ {p}]
        PROVE  \E r \in Records : /\ Fits(r) /\ r.token = 0
                                  /\ r.stage \in {"next", "begin", "queueWrite", "idle"}
                                  /\ task' = [task EXCEPT ![t] = r]
    <3> DEFINE r == [o EXCEPT !.stage = "begin", !.pallet = p, !.todo = o.todo \ {p}]
    <3>1. p \in Pallets
      BY <1>1, <2>2 DEF Records
    <3>2. r \in Records /\ r.kind = o.kind /\ r.stage = "begin" /\ r.token = o.token /\ r.pallet = p
      BY <1>1, <3>1 DEF Records, Stages
    <3>3. task' = [task EXCEPT ![t] = r] /\ o.stage = "next" /\ o.kind = "sync" /\ o.token = 0
      BY <1>1, <1>2, <1>3, <1>5, <2>2 DEF NextScan, At, Fits, Waiting, Calling
    <3> HIDE DEF r
    <3> QED
      BY <1>2, <3>1, <3>2, <3>3 DEF Fits, Waiting, Calling
  <2> QED
    BY <1>5, <2>1, <2>2 DEF NextScan
<1>6. CASE QueueRead(t)
  <2> DEFINE r == [o EXCEPT !.stage = "queueWrite", !.seen = queue]
  <2>1. r \in Records /\ r.kind = o.kind /\ r.stage = "queueWrite" /\ r.token = o.token
        /\ r.pallet = o.pallet
    BY <1>1 DEF Records, Stages
  <2>2. task' = [task EXCEPT ![t] = r] /\ o.stage = "queueRead" /\ o.token = 0
        /\ o.kind \in {"scan", "sync"}
    BY <1>1, <1>2, <1>3, <1>6 DEF QueueRead, At, Fits, Waiting, Calling
  <2>3. o.pallet \in Pallets
    BY <1>1, <2>2 DEF Fits
  <2> HIDE DEF r
  <2> QED
    BY <1>2, <2>1, <2>2, <2>3 DEF Fits, Waiting, Calling
<1>7. CASE QueueWrite(t)
  <2>1. CASE Done(t)
    BY <2>1, IdleFits DEF Done
  <2>2. CASE task' = [task EXCEPT ![t] = [Idle EXCEPT !.kind = "sync", !.stage = "next",
                                                      !.todo = task[t].todo]]
    <3> DEFINE r == [Idle EXCEPT !.kind = "sync", !.stage = "next", !.todo = task[t].todo]
    <3>1. r \in Records /\ r.kind = "sync" /\ r.stage = "next" /\ r.token = 0
      BY <1>1, IdleFits DEF Idle, Records, Stages, Kinds
    <3>2. task' = [task EXCEPT ![t] = r]
      BY <2>2
    <3> HIDE DEF r
    <3> QED
      BY <1>2, <3>1, <3>2 DEF Fits, Waiting, Calling
  <2> QED
    BY <1>7, <2>1, <2>2 DEF QueueWrite
<1> QED
  BY <1>4, <1>5, <1>6, <1>7

LEMMA SignMoves ==
    ASSUME Types, NEW t \in Tasks, Login(t) \/ SignOutBegin(t) \/ Revoke(t)
    PROVE  \E r \in Records : /\ Fits(r) /\ r.token \in {0, store, task[t].token, issued'}
                              /\ task' = [task EXCEPT ![t] = r]
<1> DEFINE o == task[t]
<1>1. o \in Records /\ Fits(o) /\ task \in [Tasks -> Records] /\ store \in Nat /\ o.kind \in Kinds
      /\ issued \in Nat
  BY MobileScanAssumption DEF Types, TasksType, DeviceType, ServerType, Records
<1>2. /\ "writeBack" \in StagesOf["signIn"] /\ {"revoke", "erase"} \subseteq StagesOf["signOut"]
      /\ \A kind \in Kinds : /\ "login" \in StagesOf[kind] => kind = "signIn"
                             /\ "revoke" \in StagesOf[kind] => kind = "signOut"
  BY DEF StagesOf, Kinds, Waiting, Calling
<1>3. ASSUME NEW stage \in {"writeBack", "revoke", "erase"}, NEW k \in Nat,
             task' = [task EXCEPT ![t].stage = stage, ![t].token = k],
             stage # "erase" => k # 0, k \in {0, store, o.token, issued'},
             stage = "writeBack" => o.kind = "signIn", stage # "writeBack" => o.kind = "signOut"
      PROVE  \E r \in Records : /\ Fits(r) /\ r.token \in {0, store, task[t].token, issued'}
                                /\ task' = [task EXCEPT ![t] = r]
  <2>1. Moved(o, stage, k) \in Records /\ Moved(o, stage, k).kind = o.kind
        /\ Moved(o, stage, k).stage = stage /\ Moved(o, stage, k).token = k
    BY <1>1 DEF Moved, Records, Stages
  <2>2. task' = [task EXCEPT ![t] = Moved(o, stage, k)]
    BY <1>1, <1>3 DEF Moved
  <2>3. Fits(Moved(o, stage, k))
    BY <1>2, <1>3, <2>1 DEF Fits, Waiting, Calling
  <2> QED
    BY <1>3, <2>1, <2>2, <2>3
<1>4. CASE Login(t)
  <2>1. issued' = issued + 1 /\ o.stage = "login" /\ o.kind = "signIn"
    BY <1>1, <1>2, <1>4 DEF Login, Issue, At, Fits
  <2>2. CASE Done(t)
    BY <2>2, IdleFits DEF Done
  <2> QED
    BY <1>1, <1>3, <1>4, <2>1, <2>2 DEF Login
<1>5. CASE SignOutBegin(t)
  <2>1. o.kind = "signOut"
    BY <1>5 DEF SignOutBegin
  <2>2. CASE store = 0
    BY <1>1, <1>3, <1>5, <2>1, <2>2 DEF SignOutBegin
  <2>3. CASE store # 0
    BY <1>1, <1>3, <1>5, <2>1, <2>3 DEF SignOutBegin
  <2> QED
    BY <2>2, <2>3
<1>6. CASE Revoke(t)
  <2>1. o.stage = "revoke" /\ o.kind = "signOut" /\ o.token \in Nat
    BY <1>1, <1>2, <1>6 DEF Revoke, At, Fits, Records
  <2>2. task' = [task EXCEPT ![t].stage = "erase", ![t].token = o.token]
    BY <1>1, <1>6 DEF Revoke, Go, Records
  <2> QED
    BY <1>3, <2>1, <2>2
<1> QED
  BY <1>4, <1>5, <1>6

LEMMA EndMoves ==
    ASSUME Types, NEW t \in Tasks,
           Clear(t) \/ WriteBack(t) \/ LoginFails(t) \/ Erase(t)
    PROVE  task' = [task EXCEPT ![t] = Idle]
  BY DEF Clear, WriteBack, LoginFails, Erase, Done

\* The API, whose answer does not touch the device
LEMMA IssueTypes ==
    ASSUME ServerType, NEW first \in 0..issued, Issue(first)
    PROVE  /\ issued' = issued + 1 /\ issued \in Nat
           /\ issued' \in 0..MaxTokens
           /\ family' \in [Tokens -> 0..MaxTokens]
           /\ \A k \in 1..issued : family'[k] = family[k]
           /\ family'[issued'] = IF first = 0 THEN issued' ELSE first
           /\ \A k \in 1..issued' : family'[k] \in 1..issued'
<1>1. issued \in Nat /\ issued' = issued + 1 /\ issued' \in 1..MaxTokens /\ MaxTokens \in Nat
  BY MobileScanAssumption DEF ServerType, Issue
<1> DEFINE f == IF first = 0 THEN issued' ELSE first
<1>2. f \in 1..issued' /\ f \in 0..MaxTokens
  BY <1>1
<1>3. family' = [family EXCEPT ![issued'] = f]
  BY <1>1 DEF Issue
<1>4. issued' \in Tokens
  BY <1>1 DEF Tokens
<1> HIDE DEF f
<1>5. \A k \in Tokens : family'[k] = IF k = issued' THEN f ELSE family[k]
  BY <1>3, <1>4 DEF ServerType
<1>6. family' \in [Tokens -> 0..MaxTokens]
  BY <1>2, <1>3 DEF ServerType
<1>7. \A k \in 1..issued : k \in Tokens /\ k # issued'
  BY <1>1 DEF Tokens
<1>8. \A k \in 1..issued' : k = issued' \/ k \in 1..issued
  BY <1>1
<1>9. \A k \in 1..issued : family'[k] = family[k]
  BY <1>5, <1>7
<1>10. \A k \in 1..issued' : family'[k] \in 1..issued'
  <2> TAKE k \in 1..issued'
  <2>1. CASE k = issued'
    BY <1>2, <1>4, <1>5, <2>1
  <2>2. CASE k \in 1..issued
    BY <1>1, <1>9, <2>2 DEF ServerType
  <2> QED
    BY <1>8, <2>1, <2>2
<1> QED
  BY <1>1, <1>4, <1>5, <1>6, <1>9, <1>10 DEF f

LEMMA EndTypes ==
    ASSUME ended \in [Tokens -> Reasons], NEW f, NEW reason \in Reasons, End(f, reason)
    PROVE  /\ ended' \in [Tokens -> Reasons]
           /\ \A g \in Tokens : ended'[g] = IF g = f /\ ended[g] = "none" THEN reason ELSE ended[g]
  BY DEF End

\* A task step keeps the types; the other tasks are as they were.
LEMMA TaskStepTasks ==
    ASSUME Types, NEW t \in Tasks, TaskStep(t)
    PROVE  /\ TasksType'
           /\ \A u \in Tasks : u # t => task'[u] = task[u]
           /\ issued' \in {issued, issued + 1}
<1>1. /\ issued \in Nat /\ store \in 0..issued /\ task[t].token \in 0..issued
      /\ task[t].token \in Nat /\ TasksType
  BY MobileScanAssumption DEF Types, ServerType, DeviceType, TasksType, Records
<1>2. /\ issued' \in {issued, issued + 1}
      /\ Login(t) \/ issued' = issued
  BY DEF TaskStep, Start, Begin, Call, Clear, WriteBack, List, NextScan, QueueRead, QueueWrite,
         Login, LoginFails, SignOutBegin, Revoke, Erase, Issue, server
<1>3. \E r \in Records : /\ Fits(r) /\ r.token <= issued'
                         /\ task' = [task EXCEPT ![t] = r]
  <2>1. CASE Start(t)
    <3>1. PICK r \in Records : Fits(r) /\ r.token = 0 /\ task' = [task EXCEPT ![t] = r]
      BY <2>1, StartMoves
    <3>2. r.token <= issued'
      BY <1>1, <1>2, <3>1
    <3> QED
      BY <3>1, <3>2
  <2>2. CASE Begin(t)
    <3>1. PICK r \in Records : Fits(r) /\ r.token <= issued /\ task' = [task EXCEPT ![t] = r]
      BY <2>2, BeginMoves
    <3> QED
      BY <2>2, <3>1 DEF Begin, server
  <2>3. CASE Call(t)
    <3>1. InCall(t) /\ issued' = issued /\ \E answer \in Answers : AfterCall(t, answer)
      BY <2>3 DEF Call, Answers
    <3>2. PICK r \in Records : Fits(r) /\ r.token \in {0, task[t].token}
                               /\ task' = [task EXCEPT ![t] = r]
      BY <3>1, CallMoves DEF After
    <3>3. r.token <= issued'
      BY <1>1, <3>1, <3>2
    <3> QED
      BY <3>2, <3>3
  <2>4. CASE List(t) \/ NextScan(t) \/ QueueRead(t) \/ QueueWrite(t)
    <3>1. PICK r \in Records : Fits(r) /\ r.token = 0 /\ task' = [task EXCEPT ![t] = r]
      BY <2>4, QueueMoves
    <3>2. r.token <= issued'
      BY <1>1, <1>2, <3>1
    <3> QED
      BY <3>1, <3>2
  <2>5. CASE Login(t) \/ SignOutBegin(t) \/ Revoke(t)
    <3>1. PICK r \in Records : Fits(r) /\ r.token \in {0, store, task[t].token, issued'}
                               /\ task' = [task EXCEPT ![t] = r]
      BY <2>5, SignMoves
    <3>2. r.token <= issued'
      BY <1>1, <1>2, <3>1
    <3> QED
      BY <3>1, <3>2
  <2>6. CASE Clear(t) \/ WriteBack(t) \/ LoginFails(t) \/ Erase(t)
    <3>1. task' = [task EXCEPT ![t] = Idle]
      BY <2>6, EndMoves
    <3>2. Idle.token <= issued'
      BY <1>1, <1>2, IdleFits
    <3> QED
      BY <3>1, <3>2, IdleFits
  <2> QED
    BY <2>1, <2>2, <2>3, <2>4, <2>5, <2>6 DEF TaskStep
<1>4. PICK r \in Records : Fits(r) /\ r.token <= issued' /\ task' = [task EXCEPT ![t] = r]
  BY <1>3
<1>5. issued' \in Nat /\ issued <= issued'
  BY <1>1, <1>2
<1> QED
  BY <1>1, <1>2, <1>4, <1>5, OneTask

\* The request of a task changes at most what is loaded.
LEMMA CallKeeps ==
    ASSUME NEW t \in Tasks, Call(t)
    PROVE  /\ InCall(t)
           /\ UNCHANGED <<issued, family, used, ended, clock, store, queue, told, lost>>
           /\ loaded' \in {loaded, loaded \cup {task[t].pallet}}
           /\ loaded' # loaded => task[t].kind \in {"scan", "sync"}
           /\ \E answer \in Answers :
                 /\ AfterCall(t, answer)
                 /\ answer = "ok" /\ task[t].kind = "sync" => task[t].pallet \in loaded'
                 /\ answer = "invalid" => ~Live(task[t].token)
  BY DEF Call, Handle, Answers

LEMMA ServerStep ==
    ASSUME Types, NEW t \in Tasks, TaskStep(t)
    PROVE  ServerType'
<1>0. ServerType /\ DeviceType /\ task[t] \in Records /\ Fits(task[t])
  BY DEF Types, TasksType
<1>1. CASE Call(t)
  <2>1. loaded' \subseteq Pallets
    <3>1. task[t].kind \in {"scan", "sync"} => task[t].pallet \in Pallets
      BY <1>0, <1>1 DEF Call, InCall, Fits
    <3> QED
      BY <1>0, <1>1, <3>1, CallKeeps DEF ServerType
  <2> QED
    BY <1>0, <1>1, <2>1, CallKeeps DEF ServerType, clock
<1>2. CASE Login(t)
  <2>1. Issue(0) /\ UNCHANGED <<used, ended, loaded, clock>>
    BY <1>2 DEF Login
  <2>2. 0 \in 0..issued /\ issued \in Nat
    BY <1>0, MobileScanAssumption DEF ServerType
  <2>3. /\ issued' = issued + 1 /\ issued' \in 0..MaxTokens
        /\ family' \in [Tokens -> 0..MaxTokens]
        /\ \A k \in 1..issued' : family'[k] \in 1..issued'
    BY <1>0, <2>1, <2>2, IssueTypes
  <2> QED
    BY <1>0, <2>1, <2>2, <2>3 DEF ServerType, clock
<1>3. CASE Revoke(t)
  <2>1. ended' \in [Tokens -> Reasons]
    <3>1. "NATIVE_LOGOUT" \in Reasons /\ ended \in [Tokens -> Reasons]
      BY <1>0 DEF Reasons, ServerType
    <3> QED
      BY <1>3, <3>1, EndTypes DEF Revoke
  <2> QED
    BY <1>0, <1>3, <2>1 DEF Revoke, ServerType, clock
<1>4. CASE ~Call(t) /\ ~Login(t) /\ ~Revoke(t)
  <2>1. UNCHANGED <<server, clock>>
    BY <1>4 DEF TaskStep, Start, Begin, Clear, WriteBack, List, NextScan, QueueRead, QueueWrite,
         LoginFails, SignOutBegin, Erase
  <2> QED
    BY <1>0, <2>1 DEF ServerType, server, clock
<1> QED
  BY <1>1, <1>2, <1>3, <1>4

\* what a task writes to the queue
LEMMA WriteTypes ==
    ASSUME NEW seen \in Queues, NEW p \in Pallets, NEW synced \in BOOLEAN
    PROVE  /\ Enqueued(seen, p) \in Queues
           /\ Marked(seen, p, synced) \in Queues
           /\ \A q \in Pallets : Enqueued(seen, p)[q] = IF q = p THEN "waiting" ELSE seen[q]
           /\ \A q \in Pallets : /\ Marked(seen, p, synced)[q] = "absent" <=> seen[q] = "absent"
                                 /\ Marked(seen, p, synced)[q] = "SYNCED"
                                       => seen[q] = "SYNCED" \/ (q = p /\ synced)
  BY DEF Enqueued, Marked, Queues, QueueStates

LEMMA DeviceStep ==
    ASSUME Types, NEW t \in Tasks, TaskStep(t)
    PROVE  DeviceType'
<1>0. /\ issued \in Nat /\ DeviceType /\ task[t] \in Records /\ Fits(task[t])
      /\ task[t].token \in 0..issued
  BY MobileScanAssumption DEF Types, TasksType, ServerType, Records
<1>1. issued' \in {issued, issued + 1}
  BY TaskStepTasks
<1>2. CASE QueueWrite(t)
  <2>1. task[t].pallet \in Pallets /\ task[t].seen \in Queues /\ task[t].synced \in BOOLEAN
    BY <1>0, <1>2 DEF QueueWrite, At, Fits, Records
  <2>2. queue' \in Queues /\ told' \subseteq Pallets
    BY <1>0, <1>2, <2>1, WriteTypes DEF QueueWrite, DeviceType
  <2> QED
    BY <1>0, <1>2, <2>2 DEF QueueWrite, DeviceType, server
<1>3. CASE ~QueueWrite(t)
  <2>1. store' \in {0, store, task[t].token} /\ UNCHANGED <<queue, told, lost>>
    BY <1>3 DEF TaskStep, Start, Begin, Call, Clear, WriteBack, List, NextScan, QueueRead,
         Login, LoginFails, SignOutBegin, Revoke, Erase, Save
  <2>2. store' \in 0..issued'
    BY <1>0, <1>1, <2>1 DEF DeviceType
  <2>3. lost \subseteq 1..issued'
    BY <1>0, <1>1 DEF DeviceType
  <2> QED
    BY <1>0, <2>1, <2>2, <2>3 DEF DeviceType
<1> QED
  BY <1>2, <1>3

\* A task that joins a refresh waits for it; other steps neither begin to wait
\* nor stop to.
LEMMA SharedStep ==
    ASSUME Types, NEW t \in Tasks, TaskStep(t)
    PROVE  /\ Shared'
           /\ \/ flight' = flight
              \/ flight.stage = "none" /\ flight' = [NoFlight EXCEPT !.stage = "read"]
<1>0. /\ Shared /\ task \in [Tasks -> Records]
      /\ TasksType' /\ \A u \in Tasks : u # t => task'[u] = task[u]
  BY TaskStepTasks DEF Types, TasksType
<1>1. ASSUME NEW stage \in Waiting, NEW k, Join(t, stage, k)
      PROVE  /\ Shared' /\ flight'.stage # "none"
             /\ \/ flight' = flight
                \/ flight.stage = "none" /\ flight' = [NoFlight EXCEPT !.stage = "read"]
  <2>1. task'[t].stage = stage
    BY <1>0, <1>1 DEF Join, Records, Waiting
  <2>2. flight'.stage # "none"
    BY <1>1 DEF Join, NoFlight
  <2> QED
    BY <1>1, <2>1, <2>2 DEF Join, Shared, Awaits, Waiting
<1>2. ASSUME ~Awaits(t), task'[t].stage \notin Waiting, flight' = flight
      PROVE  Shared'
  <2>1. \A u \in Tasks : Awaits(u)' <=> Awaits(u)
    BY <1>0, <1>2 DEF Awaits, Waiting
  <2> QED
    BY <1>0, <1>2, <2>1 DEF Shared
<1>3. CASE Begin(t)
  <2>1. CASE Join(t, "await", store)
    BY <1>1, <2>1 DEF Waiting
  <2>2. CASE /\ flight' = flight
             /\ Done(t) \/ task' = [task EXCEPT ![t].stage = "call", ![t].token = store]
    <3>1. ~Awaits(t) /\ task'[t].stage \notin Waiting
      BY <1>0, <1>3, <2>2, IdleFits DEF Begin, Done, At, Awaits, Records, Waiting
    <3> QED
      BY <1>2, <2>2, <3>1
  <2> QED
    BY <1>3, <2>1, <2>2 DEF Begin
<1>4. CASE Call(t)
  <2>1. PICK answer \in Answers : AfterCall(t, answer)
    BY <1>4, CallKeeps
  <2>2. PICK r \in Records : /\ After(r, task[t], answer)
                             /\ task' = [task EXCEPT ![t] = r]
                             /\ \/ r.stage = "awaitAgain" /\ Join(t, "awaitAgain", task[t].token)
                                \/ r.stage # "awaitAgain" /\ flight' = flight
    BY <1>4, <2>1, CallKeeps, CallMoves
  <2>3. CASE Join(t, "awaitAgain", task[t].token)
    BY <1>1, <2>3 DEF Waiting
  <2>4. CASE r.stage # "awaitAgain" /\ flight' = flight
    <3>1. ~Awaits(t) /\ task'[t].stage \notin Waiting
      BY <1>0, <1>4, <2>2, <2>4 DEF Call, InCall, Awaits, After, Waiting
    <3> QED
      BY <1>2, <2>4, <3>1
  <2> QED
    BY <2>2, <2>3, <2>4
<1>5. CASE ~Begin(t) /\ ~Call(t)
  <2>1. ~Awaits(t) /\ flight' = flight
    BY <1>5 DEF TaskStep, Start, MayStart, Clear, WriteBack, List, NextScan, QueueRead, QueueWrite,
         Login, LoginFails, SignOutBegin, Revoke, Erase, At, Awaits
  <2>2. task'[t].stage \notin Waiting
    <3>1. CASE Start(t) \/ List(t) \/ NextScan(t) \/ QueueRead(t) \/ QueueWrite(t)
      <4>1. PICK r \in Records : Fits(r) /\ r.token = 0 /\ task' = [task EXCEPT ![t] = r]
        BY <3>1, StartMoves, QueueMoves
      <4> QED
        BY <1>0, <4>1 DEF Fits
    <3>2. CASE Clear(t) \/ WriteBack(t) \/ LoginFails(t) \/ Erase(t)
      BY <1>0, <3>2, EndMoves, IdleFits DEF Waiting
    <3>3. CASE Login(t) \/ SignOutBegin(t) \/ Revoke(t)
      BY <1>0, <3>3, IdleFits DEF Login, SignOutBegin, Revoke, Done, Go, Records, Waiting
    <3> QED
      BY <1>5, <3>1, <3>2, <3>3 DEF TaskStep
  <2> QED
    BY <1>2, <2>1, <2>2
<1> QED
  BY <1>3, <1>4, <1>5

LEMMA FlightStep ==
    ASSUME Types, NEW t \in Tasks, TaskStep(t)
    PROVE  FlightType'
<1>0. issued \in Nat /\ FlightType /\ issued' \in {issued, issued + 1}
  BY TaskStepTasks, MobileScanAssumption DEF Types, ServerType
<1>1. flight.token \in Nat /\ flight.token <= issued'
  BY <1>0 DEF FlightType
<1>2. CASE flight' = flight
  BY <1>0, <1>1, <1>2 DEF FlightType
<1>3. CASE flight' = [NoFlight EXCEPT !.stage = "read"]
  BY <1>0, <1>3 DEF FlightType, NoFlight, Answers
<1> QED
  BY <1>2, <1>3, SharedStep

\* All who wait for a refresh go on when it ends.
LEMMA EndFlightMoves ==
    ASSUME Types, NEW answer, NEW k \in 0..issued, EndFlight(answer, k), issued' = issued,
           answer = "ok" => k # 0
    PROVE  /\ TasksType' /\ FlightType' /\ Shared'
           /\ \A t \in Tasks : ~Awaits(t) => task'[t] = task[t]
           /\ \A t \in Tasks : Awaits(t) => task'[t] = Resumed(task[t], answer, k)
<1>0. issued \in Nat /\ k \in Nat /\ k <= issued /\ task \in [Tasks -> Records]
  BY MobileScanAssumption DEF Types, ServerType, TasksType
<1>1. \A t \in Tasks : task'[t] = IF Awaits(t) THEN Resumed(task[t], answer, k) ELSE task[t]
  BY DEF EndFlight
<1>2. ASSUME NEW t \in Tasks
      PROVE  /\ task'[t] \in Records /\ Fits(task'[t]) /\ task'[t].token <= issued
             /\ task'[t].stage \notin Waiting
  <2>1. task[t] \in Records /\ Fits(task[t]) /\ task[t].token <= issued
    BY DEF Types, TasksType
  <2>2. CASE Awaits(t)
    <3>1. task[t].stage \in Waiting
      BY <2>2 DEF Awaits, Waiting
    <3>2. /\ Resumed(task[t], answer, k) \in Records /\ Fits(Resumed(task[t], answer, k))
          /\ Resumed(task[t], answer, k).stage \notin Waiting
          /\ Resumed(task[t], answer, k).token \in {0, k, task[t].token}
      BY <1>0, <2>1, <3>1, ResumedFits
    <3>3. task'[t] = Resumed(task[t], answer, k)
      BY <1>1, <2>2
    <3>4. task'[t].token <= issued
      BY <1>0, <2>1, <3>2, <3>3
    <3> QED
      BY <3>2, <3>3, <3>4
  <2>3. CASE ~Awaits(t)
    BY <1>1, <2>1, <2>3 DEF Awaits, Waiting
  <2> QED
    BY <2>2, <2>3
<1>3. task' \in [Tasks -> Records]
  <2>1. task' = [t \in Tasks |-> task'[t]]
    BY DEF EndFlight
  <2> QED
    BY <1>2, <2>1
<1>4. TasksType'
  BY <1>2, <1>3 DEF TasksType
<1>5. flight' = NoFlight
  BY DEF EndFlight
<1>6. FlightType'
  BY <1>0, <1>5 DEF FlightType, NoFlight, Answers
<1>7. Shared'
  BY <1>2, <1>5 DEF Shared, Awaits, Waiting, NoFlight
<1> QED
  BY <1>1, <1>4, <1>6, <1>7

\* The exchange of a token
LEMMA ExchangeTypes ==
    ASSUME ServerType, NEW k \in 1..issued, NEW answer, Exchange(k, answer), UNCHANGED <<loaded, clock>>
    PROVE  /\ ServerType'
           /\ answer \in {"ok", "invalid"}
           /\ \A j \in 1..issued : family'[j] = family[j]
           /\ answer = "ok" => /\ Live(k) /\ k \notin used
                               /\ issued' = issued + 1 /\ family'[issued'] = family[k]
                               /\ used' = used \cup {k} /\ ended' = ended
           /\ answer = "invalid" => /\ issued' = issued /\ family' = family /\ used' = used
                                    /\ ended'[family[k]] # "none"
                                    /\ \/ ended' = ended
                                       \/ Live(k) /\ k \in used /\ End(family[k], "REFRESH_REPLAY")
<1>0. /\ issued \in Nat /\ family[k] \in 1..issued /\ family[k] \in Tokens /\ k \in Tokens
      /\ ended \in [Tokens -> Reasons] /\ "REFRESH_REPLAY" \in Reasons
  BY MobileScanAssumption DEF ServerType, Tokens, Reasons
<1>1. CASE ~Live(k) /\ answer = "invalid" /\ UNCHANGED <<issued, family, used, ended>>
  BY <1>0, <1>1 DEF ServerType, clock, Live
<1>2. CASE Live(k) /\ k \in used /\ answer = "invalid" /\ End(family[k], "REFRESH_REPLAY")
           /\ UNCHANGED <<issued, family, used>>
  <2>1. ended' \in [Tokens -> Reasons] /\ ended'[family[k]] = "REFRESH_REPLAY"
    BY <1>0, <1>2, EndTypes DEF Live
  <2> QED
    BY <1>0, <1>2, <2>1 DEF ServerType, clock
<1>3. CASE Live(k) /\ k \notin used /\ answer = "ok" /\ Issue(family[k]) /\ used' = used \cup {k}
           /\ UNCHANGED ended
  <2>1. family[k] \in 0..issued /\ family[k] # 0
    BY <1>0
  <2>2. /\ issued' = issued + 1 /\ issued' \in 0..MaxTokens
        /\ family' \in [Tokens -> 0..MaxTokens]
        /\ \A j \in 1..issued : family'[j] = family[j]
        /\ family'[issued'] = family[k]
        /\ \A j \in 1..issued' : family'[j] \in 1..issued'
    BY <1>3, <2>1, IssueTypes
  <2>3. used' \subseteq 1..issued' /\ nearTo \in 0..issued'
    BY <1>0, <1>3, <2>2 DEF ServerType
  <2> QED
    BY <1>0, <1>3, <2>2, <2>3 DEF ServerType, clock
<1> QED
  BY <1>1, <1>2, <1>3 DEF Exchange

LEMMA FlightActions ==
    ASSUME Types, FlightReads \/ FlightAnswered \/ FlightLost \/ FlightEnds
    PROVE  Types'
<1>0. issued \in Nat /\ ServerType /\ DeviceType /\ FlightType /\ TasksType /\ Shared
  BY MobileScanAssumption DEF Types, ServerType
<1>1. CASE FlightReads
  <2>1. UNCHANGED <<server, clock, store, queue, told, lost>> /\ store \in 0..issued /\ 0 \in 0..issued
    BY <1>0, <1>1 DEF FlightReads, DeviceType
  <2>2. CASE store = 0 /\ EndFlight("invalid", 0)
    <3>1. TasksType' /\ FlightType' /\ Shared'
      BY <2>1, <2>2, EndFlightMoves DEF server
    <3> QED
      BY <1>0, <2>1, <3>1 DEF Types, ServerType, DeviceType, server, clock
  <2>3. CASE store # 0 /\ flight' = [flight EXCEPT !.stage = "sent", !.token = store] /\ UNCHANGED task
    <3>1. /\ flight'.stage = "sent" /\ flight'.token = store /\ flight'.answer = "none"
          /\ flight.stage = "read" /\ store \in Nat /\ store <= issued'
      BY <1>0, <1>1, <2>1, <2>3 DEF FlightReads, FlightType, server
    <3>2. flight' \in [stage : {"none", "read", "sent", "answered"}, token : Nat, answer : Answers]
      BY <1>0, <2>3, <3>1 DEF FlightType
    <3>3. FlightType'
      BY <2>3, <3>1, <3>2 DEF FlightType
    <3>4. Shared'
      BY <1>0, <2>3, <3>1 DEF Shared, Awaits
    <3> QED
      BY <1>0, <2>1, <2>3, <3>3, <3>4 DEF Types, ServerType, DeviceType, TasksType, server, clock
  <2> QED
    BY <1>1, <2>2, <2>3 DEF FlightReads
<1>2. CASE FlightAnswered
  <2>1. PICK answer \in {"ok", "invalid"} :
           /\ Exchange(flight.token, answer)
           /\ flight' = [stage |-> "answered", answer |-> answer,
                         token |-> IF answer = "ok" THEN issued' ELSE flight.token]
    BY <1>2 DEF FlightAnswered
  <2>2. flight.token \in 1..issued /\ UNCHANGED <<loaded, clock, store, queue, task, told, lost>>
        /\ flight.stage = "sent"
    BY <1>0, <1>2 DEF FlightAnswered, FlightType
  <2>3. /\ ServerType'
        /\ answer = "ok" => issued' = issued + 1
        /\ answer = "invalid" => issued' = issued
    BY <1>0, <2>1, <2>2, ExchangeTypes
  <2>4. issued' \in Nat /\ issued <= issued' /\ issued' # 0
    BY <1>0, <2>1, <2>2, <2>3
  <2>5. FlightType'
    BY <1>0, <2>1, <2>2, <2>3, <2>4 DEF FlightType, Answers
  <2>6. Shared'
    BY <1>0, <2>1, <2>2 DEF Shared, Awaits
  <2>7. DeviceType'
    BY <1>0, <2>2, <2>4 DEF DeviceType
  <2>8. \A t \in Tasks : task[t].token <= issued'
    <3>1. \A t \in Tasks : task[t].token \in Nat /\ task[t].token <= issued
      BY <1>0 DEF TasksType, Records
    <3> QED
      BY <1>0, <2>4, <3>1
  <2>9. TasksType'
    BY <1>0, <2>2, <2>8 DEF TasksType
  <2> QED
    BY <2>3, <2>5, <2>6, <2>7, <2>9 DEF Types
<1>3. CASE FlightLost
  <2>1. UNCHANGED <<server, clock, store, queue, told>> /\ 0 \in 0..issued /\ EndFlight("network", 0)
        /\ lost' = lost \cup LostWith(flight)
    BY <1>0, <1>3 DEF FlightLost
  <2>2. TasksType' /\ FlightType' /\ Shared'
    BY <2>1, EndFlightMoves DEF server
  <2>3. LostWith(flight) \subseteq 1..issued
    BY <1>0 DEF LostWith, FlightType, ServerType
  <2> QED
    BY <1>0, <2>1, <2>2, <2>3 DEF Types, ServerType, DeviceType, server, clock
<1>4. CASE FlightEnds
  <2>1. /\ UNCHANGED <<server, clock, queue, told, lost>> /\ flight.token \in 1..issued
        /\ store' \in {store, flight.token} /\ EndFlight(flight.answer, flight.token)
    BY <1>0, <1>4 DEF FlightEnds, FlightType, Save
  <2>2. flight.token \in 0..issued /\ flight.token # 0
    BY <2>1
  <2>3. TasksType' /\ FlightType' /\ Shared'
    BY <2>1, <2>2, EndFlightMoves DEF server
  <2> QED
    BY <1>0, <2>1, <2>2, <2>3 DEF Types, ServerType, DeviceType, server, clock
<1> QED
  BY <1>1, <1>2, <1>3, <1>4

LEMMA OtherActions ==
    ASSUME Types, RevokeAll \/ Tick \/ Kill
    PROVE  Types'
<1>0. issued \in Nat /\ ServerType /\ DeviceType /\ FlightType /\ TasksType /\ Shared
  BY MobileScanAssumption DEF Types, ServerType
<1>1. CASE RevokeAll
  <2>1. ended' \in [Tokens -> Reasons]
    BY <1>0, <1>1 DEF RevokeAll, ServerType, Reasons
  <2> QED
    BY <1>0, <1>1, <2>1
       DEF RevokeAll, Types, ServerType, DeviceType, FlightType, TasksType, Shared, Awaits, clock, device
<1>2. CASE Tick
  <2>1. nearTo' \in 0..issued /\ expiredTo' \in 0..nearTo'
    BY <1>0, <1>2 DEF Tick, ServerType
  <2> QED
    BY <1>0, <1>2, <2>1
       DEF Tick, Types, ServerType, DeviceType, FlightType, TasksType, Shared, Awaits, server, device
<1>3. CASE Kill
  <2>1. LostWith(flight) \subseteq 1..issued
    BY <1>0 DEF LostWith, FlightType, ServerType
  <2>2. TasksType'
    BY <1>0, <1>3, IdleFits DEF Kill, TasksType, server
  <2>3. FlightType' /\ Shared'
    BY <1>0, <1>3, IdleFits DEF Kill, FlightType, Shared, Awaits, NoFlight, Answers, server
  <2> QED
    BY <1>0, <1>3, <2>1, <2>2, <2>3 DEF Kill, Types, ServerType, DeviceType, server, clock
<1> QED
  BY <1>1, <1>2, <1>3

LEMMA InitTypes == Init => Types
<1> SUFFICES ASSUME Init PROVE Types
  OBVIOUS
<1>1. ServerType
  BY MobileScanAssumption DEF Init, ServerType, Tokens, Reasons
<1>2. DeviceType
  BY DEF Init, DeviceType, Queues, Empty, QueueStates
<1>3. FlightType
  BY DEF Init, FlightType, NoFlight, Answers
<1>4. TasksType
  BY IdleFits DEF Init, TasksType
<1>5. Shared
  BY IdleFits DEF Init, Shared, Awaits, NoFlight
<1> QED
  BY <1>1, <1>2, <1>3, <1>4, <1>5 DEF Types

LEMMA TypesStep == Types /\ [Next]_vars => Types'
<1> SUFFICES ASSUME Types, [Next]_vars PROVE Types'
  OBVIOUS
<1>1. CASE \E t \in Tasks : TaskStep(t)
  BY <1>1, ServerStep, DeviceStep, SharedStep, FlightStep, TaskStepTasks DEF Types
<1>2. CASE FlightReads \/ FlightAnswered \/ FlightLost \/ FlightEnds
  BY <1>2, FlightActions
<1>3. CASE RevokeAll \/ Tick \/ Kill
  BY <1>3, OtherActions
<1>4. CASE UNCHANGED vars
  BY <1>4 DEF vars, server, clock, device, Types, ServerType, DeviceType, FlightType, TasksType,
              Shared, Awaits
<1> QED
  BY <1>1, <1>2, <1>3, <1>4, NextIs

\* The types, for any number of tasks and tokens.
THEOREM TypeCorrect == Spec => []TypeOK
<1>1. Spec => []Types
  BY InitTypes, TypesStep, PTL DEF Spec
<1> QED
  BY <1>1, TypesGiveTypeOK, PTL

-----------------------------------------------------------------------------
(* The queue.                                                              *)

\* no scan while the queue is sent
QueueApart == <<"scan", "sync">> \in Apart

\* What MayStart has seen to, as long as both are under way.
Guarded ==
    \A t, u \in Tasks : t # u /\ ~At(t, "idle") /\ ~At(u, "idle") =>
        /\ <<task[t].kind, task[u].kind>> \notin Apart
        /\ task[t].kind = task[u].kind => task[t].kind = "read"

\* Whoever is about to write the queue knows what is in it, and whether the
\* pallet was loaded.
QueueSeen ==
    \A t \in Tasks :
        /\ At(t, "queueWrite") => task[t].seen = queue
        /\ task[t].kind = "sync" /\ task[t].stage \in {"queueRead", "queueWrite"} /\ task[t].synced
              => task[t].pallet \in loaded

\* A task that is under way keeps its kind.
SameKind(t) == ~At(t, "idle")' => ~At(t, "idle") /\ task'[t].kind = task[t].kind

LEMMA TaskStepKinds ==
    ASSUME Types, NEW t \in Tasks, TaskStep(t)
    PROVE  /\ Start(t) \/ SameKind(t)
           /\ Call(t) \/ QueueRead(t) \/ task'[t].stage \notin {"queueRead", "queueWrite"}
<1>0. task \in [Tasks -> Records]
  BY DEF Types, TasksType
<1>1. CASE Start(t)
  <2>1. PICK kind \in Kinds : task'[t].stage = FirstStage[kind]
    BY <1>0, <1>1, IdleFits DEF Start, Idle
  <2> QED
    BY <1>1, <2>1 DEF FirstStage, Kinds
<1>2. CASE Begin(t)
  BY <1>0, <1>2, IdleFits DEF Begin, Join, Done, At, SameKind, Records
<1>3. CASE Call(t)
  <2>1. PICK answer \in Answers : AfterCall(t, answer)
    BY <1>3, CallKeeps
  <2>2. PICK r \in Records : After(r, task[t], answer) /\ task' = [task EXCEPT ![t] = r]
    BY <1>3, <2>1, CallKeeps, CallMoves
  <2> QED
    BY <1>0, <1>3, <2>2 DEF After, SameKind, At, Call, InCall
<1>4. CASE List(t) \/ NextScan(t) \/ QueueRead(t)
  <2>1. CASE List(t) \/ QueueRead(t)
    BY <1>0, <2>1 DEF List, QueueRead, At, SameKind, Records
  <2>2. CASE NextScan(t)
    <3>1. At(t, "next") /\ ~At(t, "idle")
      BY <2>2 DEF NextScan, At
    <3>2. CASE Done(t)
      BY <1>0, <3>2, IdleFits DEF Done, At, SameKind
    <3>3. CASE \E p \in task[t].todo :
                 task' = [task EXCEPT ![t].stage = "begin", ![t].pallet = p, ![t].todo = @ \ {p}]
      <4>1. task'[t].stage = "begin" /\ task'[t].kind = task[t].kind
        BY <1>0, <3>3 DEF Records
      <4> QED
        BY <3>1, <4>1 DEF SameKind
    <3> QED
      BY <2>2, <3>2, <3>3 DEF NextScan
  <2> QED
    BY <1>4, <2>1, <2>2
<1>5. CASE QueueWrite(t)
  BY <1>0, <1>5, IdleFits DEF QueueWrite, Done, At, SameKind, Idle
<1>6. CASE Login(t) \/ SignOutBegin(t) \/ Revoke(t)
  BY <1>0, <1>6, IdleFits DEF Login, SignOutBegin, Revoke, Go, Done, At, SameKind, Records
<1>7. CASE Clear(t) \/ WriteBack(t) \/ LoginFails(t) \/ Erase(t)
  BY <1>0, <1>7, IdleFits, EndMoves DEF SameKind, At
<1> QED
  BY <1>1, <1>2, <1>3, <1>4, <1>5, <1>6, <1>7 DEF TaskStep

LEMMA ResumedKinds ==
    ASSUME Types, NEW answer, NEW k \in 0..issued, EndFlight(answer, k), issued' = issued,
           answer = "ok" => k # 0, NEW t \in Tasks
    PROVE  /\ SameKind(t)
           /\ task'[t].stage \in {"queueRead", "queueWrite"} =>
                task'[t] = task[t] \/ (task'[t].stage = "queueRead" /\ task'[t].kind = "scan")
<1>1. CASE ~Awaits(t)
  BY <1>1, EndFlightMoves DEF SameKind, At
<1>2. CASE Awaits(t)
  <2>1. task[t] \in Records /\ task[t].stage \in Waiting /\ Fits(task[t]) /\ k \in Nat
    BY <1>2, MobileScanAssumption DEF Types, TasksType, ServerType, Awaits, Waiting
  <2>2. task'[t] = Resumed(task[t], answer, k)
    BY <1>2, EndFlightMoves
  <2>3. SameKind(t)
    BY <2>1, <2>2, ResumedFits DEF SameKind, At, Waiting
  <2>4. task'[t].stage \in {"queueRead", "queueWrite"} =>
            task'[t].stage = "queueRead" /\ task'[t].kind = "scan"
    BY <2>1, <2>2, IdleFits DEF Resumed, Ended, Records
  <2> QED
    BY <2>3, <2>4
<1> QED
  BY <1>1, <1>2

LEMMA GuardedStep ==
    ASSUME Types, Guarded, [Next]_vars
    PROVE  Guarded'
<1>1. ASSUME \A t \in Tasks : SameKind(t)
      PROVE  Guarded'
  BY <1>1 DEF Guarded, SameKind, At
<1>2. CASE \E t \in Tasks : TaskStep(t)
  <2>1. PICK t \in Tasks : TaskStep(t)
    BY <1>2
  <2>2. \A u \in Tasks : u # t => task'[u] = task[u]
    BY <2>1, TaskStepTasks
  <2>3. CASE SameKind(t)
    BY <1>1, <2>2, <2>3 DEF SameKind, At
  <2>4. CASE Start(t)
    <3>1. PICK kind \in Kinds : MayStart(t, kind) /\ task'[t].kind = kind
      <4>1. task \in [Tasks -> Records]
        BY DEF Types, TasksType
      <4> QED
        BY <2>4, <4>1, IdleFits DEF Start, Idle
    <3> QED
      BY <2>2, <3>1 DEF Guarded, MayStart, At
  <2> QED
    BY <2>1, <2>3, <2>4, TaskStepKinds
<1>3. CASE FlightReads \/ FlightAnswered \/ FlightLost \/ FlightEnds
  <2>1. CASE UNCHANGED task
    BY <1>1, <2>1 DEF SameKind, At
  <2>2. CASE \E answer, k : k \in 0..issued /\ EndFlight(answer, k) /\ issued' = issued
                            /\ (answer = "ok" => k # 0)
    BY <1>1, <2>2, ResumedKinds
  <2>3. flight.token \in 0..issued /\ 0 \in 0..issued /\ (FlightEnds => flight.token # 0)
    BY MobileScanAssumption DEF Types, FlightType, ServerType, FlightEnds
  <2> QED
    BY <1>3, <2>1, <2>2, <2>3 DEF FlightReads, FlightAnswered, FlightLost, FlightEnds, server
<1>4. CASE RevokeAll \/ Tick \/ UNCHANGED vars
  BY <1>1, <1>4 DEF RevokeAll, Tick, vars, device, SameKind, At
<1>5. CASE Kill
  BY <1>1, <1>5, IdleFits DEF Kill, SameKind, At
<1> QED
  BY <1>2, <1>3, <1>4, <1>5, NextIs

QueueInv == Types /\ Guarded /\ QueueSeen /\ ScansKept

LEMMA QueueTaskStep ==
    ASSUME QueueApart, QueueInv, NEW t \in Tasks, TaskStep(t)
    PROVE  QueueSeen' /\ ScansKept'
<1>0. /\ Types /\ Guarded /\ QueueSeen /\ ScansKept
      /\ \A u \in Tasks : u # t => task'[u] = task[u]
      /\ task \in [Tasks -> Records] /\ task[t] \in Records /\ Fits(task[t])
      /\ queue \in Queues
  BY TaskStepTasks DEF QueueInv, Types, TasksType, DeviceType
<1>1. \A u \in Tasks : At(u, "queueWrite") => task[u].kind \in {"scan", "sync"}
  <2>1. \A kind \in Kinds : "queueWrite" \in StagesOf[kind] => kind \in {"scan", "sync"}
    BY DEF StagesOf, Kinds, Waiting, Calling
  <2> QED
    BY <1>0, <2>1 DEF At, Types, TasksType, Fits, Records
<1>2. CASE QueueWrite(t)
  <2>1. At(t, "queueWrite") /\ loaded' = loaded /\ task[t].seen = queue
        /\ task[t].pallet \in Pallets /\ task[t].synced \in BOOLEAN
    BY <1>0, <1>2 DEF QueueWrite, server, QueueSeen, At, Fits, Records
  <2>2. \A u \in Tasks : u # t => ~At(u, "queueWrite")
    BY <1>0, <1>1, <2>1 DEF Guarded, QueueApart, At
  <2>3. task'[t].stage \notin {"queueRead", "queueWrite"}
    BY <1>2, TaskStepKinds, <2>1, <1>0 DEF Call, InCall, QueueRead, At
  <2>4. QueueSeen'
    BY <1>0, <2>1, <2>2, <2>3 DEF QueueSeen, At
  <2>5. CASE task[t].kind = "scan" /\ queue' = Enqueued(queue, task[t].pallet)
             /\ told' = told \cup {task[t].pallet}
    <3>1. \A q \in Pallets : queue'[q] = IF q = task[t].pallet THEN "waiting" ELSE queue[q]
      BY <1>0, <2>1, <2>5, WriteTypes
    <3>2. told' \subseteq Pallets
      BY <1>0, <2>1, <2>5 DEF Types, DeviceType
    <3> QED
      BY <1>0, <2>1, <2>4, <2>5, <3>1, <3>2 DEF ScansKept
  <2>6. CASE task[t].kind = "sync" /\ queue' = Marked(queue, task[t].pallet, task[t].synced)
             /\ told' = told
    <3>1. \A q \in Pallets : /\ queue'[q] = "absent" <=> queue[q] = "absent"
                             /\ queue'[q] = "SYNCED"
                                   => queue[q] = "SYNCED" \/ (q = task[t].pallet /\ task[t].synced)
      BY <1>0, <2>1, <2>6, WriteTypes
    <3>2. told \subseteq Pallets
      BY <1>0 DEF Types, DeviceType
    <3>3. task[t].synced => task[t].pallet \in loaded
      BY <1>0, <2>1, <2>6 DEF QueueSeen, At
    <3> QED
      BY <1>0, <2>1, <2>4, <2>6, <3>1, <3>2, <3>3 DEF ScansKept
  <2> QED
    BY <1>2, <2>1, <2>5, <2>6 DEF QueueWrite
<1>3. CASE QueueRead(t)
  <2>1. /\ task'[t].seen = queue /\ task'[t].kind = task[t].kind /\ task'[t].pallet = task[t].pallet
        /\ task'[t].synced = task[t].synced /\ task[t].stage = "queueRead"
        /\ queue' = queue /\ loaded' = loaded /\ told' = told
    BY <1>0, <1>3 DEF QueueRead, At, Records, server
  <2>2. QueueSeen'
    BY <1>0, <2>1 DEF QueueSeen, At
  <2> QED
    BY <1>0, <2>1, <2>2 DEF ScansKept
<1>4. CASE Call(t)
  <2>1. /\ queue' = queue /\ told' = told /\ loaded \subseteq loaded'
        /\ InCall(t)
    BY <1>4, CallKeeps
  <2>2. PICK answer \in Answers :
            /\ AfterCall(t, answer)
            /\ answer = "ok" /\ task[t].kind = "sync" => task[t].pallet \in loaded'
    BY <1>4, CallKeeps
  <2>3. PICK r \in Records : After(r, task[t], answer) /\ task' = [task EXCEPT ![t] = r]
    BY <1>0, <2>1, <2>2, CallMoves
  <2>4. task'[t] = r
    BY <1>0, <2>3
  <2>5. QueueSeen'
    <3>1. ASSUME NEW u \in Tasks, u # t
          PROVE  /\ At(u, "queueWrite")' => task'[u].seen = queue'
                 /\ task'[u].kind = "sync" /\ task'[u].stage \in {"queueRead", "queueWrite"}
                    /\ task'[u].synced => task'[u].pallet \in loaded'
      BY <1>0, <2>1, <3>1 DEF QueueSeen, At
    <3>2. /\ r.stage # "queueWrite"
          /\ r.kind = "sync" /\ r.stage \in {"queueRead", "queueWrite"} /\ r.synced
                => r.pallet \in loaded'
      BY <2>2, <2>3 DEF After
    <3> QED
      BY <2>4, <3>1, <3>2 DEF QueueSeen, At
  <2> QED
    BY <1>0, <2>1, <2>5 DEF ScansKept
<1>5. CASE ~QueueWrite(t) /\ ~QueueRead(t) /\ ~Call(t)
  <2>1. UNCHANGED <<queue, told, loaded>>
    BY <1>5 DEF TaskStep, Start, Begin, Clear, WriteBack, List, NextScan, Login, LoginFails,
         SignOutBegin, Revoke, Erase, server
  <2>2. task'[t].stage \notin {"queueRead", "queueWrite"}
    BY <1>0, <1>5, TaskStepKinds
  <2>3. QueueSeen'
    BY <1>0, <2>1, <2>2 DEF QueueSeen, At
  <2> QED
    BY <1>0, <2>1, <2>3 DEF ScansKept
<1> QED
  BY <1>2, <1>3, <1>4, <1>5

LEMMA QueueStep ==
    ASSUME QueueApart, QueueInv, [Next]_vars
    PROVE  QueueInv'
<1>0. Types /\ Guarded /\ QueueSeen /\ ScansKept /\ Types' /\ Guarded'
  BY TypesStep, GuardedStep DEF QueueInv
<1>1. CASE \E t \in Tasks : TaskStep(t)
  BY <1>0, <1>1, QueueTaskStep DEF QueueInv
<1>2. ASSUME UNCHANGED <<queue, told, loaded>>,
             \A t \in Tasks : task'[t].stage \in {"queueRead", "queueWrite"} =>
                task'[t] = task[t] \/ (task'[t].stage = "queueRead" /\ task'[t].kind = "scan")
      PROVE  QueueInv'
  <2>1. QueueSeen'
    BY <1>0, <1>2 DEF QueueSeen, At
  <2> QED
    BY <1>0, <1>2, <2>1 DEF QueueInv, ScansKept
<1>3. CASE FlightReads \/ FlightAnswered \/ FlightLost \/ FlightEnds
  <2>1. UNCHANGED <<queue, told, loaded>>
    BY <1>3 DEF FlightReads, FlightAnswered, FlightLost, FlightEnds, server
  <2>2. CASE UNCHANGED task
    BY <1>2, <2>1, <2>2
  <2>3. CASE \E answer, k : k \in 0..issued /\ EndFlight(answer, k) /\ issued' = issued
                            /\ (answer = "ok" => k # 0)
    BY <1>0, <1>2, <2>1, <2>3, ResumedKinds
  <2>4. flight.token \in 0..issued /\ 0 \in 0..issued /\ (FlightEnds => flight.token # 0)
    BY <1>0, MobileScanAssumption DEF Types, FlightType, ServerType, FlightEnds
  <2> QED
    BY <1>3, <2>2, <2>3, <2>4 DEF FlightReads, FlightAnswered, FlightLost, FlightEnds, server
<1>4. CASE RevokeAll \/ Tick \/ UNCHANGED vars
  BY <1>2, <1>4 DEF RevokeAll, Tick, vars, device, server
<1>5. CASE Kill
  BY <1>2, <1>5, IdleFits DEF Kill, server
<1> QED
  BY <1>1, <1>3, <1>4, <1>5, NextIs

\* A scan whose user was told that it is queued stays in the queue, and what the
\* queue calls SYNCED is loaded, when no scan is made while the queue is sent.
THEOREM QueueKeepsScans ==
    ASSUME QueueApart
    PROVE  Spec => []ScansKept
<1>1. Init => QueueInv
  BY InitTypes, IdleFits DEF Init, QueueInv, Guarded, QueueSeen, ScansKept, At, Empty
<1>2. QueueInv /\ [Next]_vars => QueueInv'
  BY QueueStep
<1>3. QueueInv => ScansKept
  BY DEF QueueInv
<1> QED
  BY <1>1, <1>2, <1>3, PTL DEF Spec

-----------------------------------------------------------------------------
(* The session.                                                            *)

\* Nothing runs beside the screens that change the session.
Screens == {"restore", "signIn"}
ScreensApart == Screens \X Kinds \subseteq Apart

\* The tokens the device works with, but for the one of a sign-in
Held == ({store, flight.token} \cup {task[t].token : t \in {u \in Tasks : task[u].kind # "signIn"}})
            \ {0}

OneSession == \A j, k \in Held : family[j] = family[k]

Dead == \A k \in Held : ~Live(k)

\* Who is about to empty the store does so for a session that has ended, or
\* finds it empty: no refresh that could store a token is sent.
Cleared ==
    (\E t \in Tasks : At(t, "clear")) => Dead \/ (store = 0 /\ flight.stage \in {"none", "read"})

RestoresStored ==
    \A t \in Tasks : task[t].kind = "restore" /\ task[t].stage \in Calling \cup {"writeBack"}
                        => task[t].token = store

\* A stored token of a live session was exchanged only if the answer was lost,
\* or is on its way.
StoredIsNew ==
    store # 0 /\ store \in used /\ Live(store) =>
        family[store] \in lost \/ flight.answer = "ok"

FlightFits ==
    /\ flight.stage = "sent" /\ flight.token \in used /\ Live(flight.token)
          => family[flight.token] \in lost
    /\ flight.answer = "ok" => flight.token \notin used
    /\ flight.answer = "invalid" => ~Live(flight.token)

SignedIn == \A t \in Tasks : task[t].kind = "signIn" => task[t].token \notin used

ReplayWasLost == \A f \in Tokens : ended[f] = "REFRESH_REPLAY" => f \in lost

TokensInv == OneSession /\ Cleared /\ RestoresStored /\ StoredIsNew /\ FlightFits /\ SignedIn
SessionInv == Types /\ Guarded /\ TokensInv /\ ReplayWasLost

\* Sessions end for good, and tokens stay in theirs.
Lasting == \A k \in 1..issued : family'[k] = family[k] /\ (Live(k)' => Live(k))

LEMMA HeldIssued ==
    ASSUME Types
    PROVE  /\ Held \subseteq 1..issued
           /\ store # 0 => store \in Held
           /\ flight.token # 0 => flight.token \in Held
           /\ \A t \in Tasks : task[t].kind # "signIn" /\ task[t].token # 0 => task[t].token \in Held
<1>1. issued \in Nat /\ store \in 0..issued /\ flight.token \in 0..issued
  BY MobileScanAssumption DEF Types, ServerType, DeviceType, FlightType
<1>2. \A t \in Tasks : task[t].token \in 0..issued
  <2> TAKE t \in Tasks
  <2>1. task[t].token \in Nat /\ task[t].token <= issued
    BY DEF Types, TasksType, Records
  <2> QED
    BY <1>1, <2>1
<1> QED
  BY <1>1, <1>2 DEF Held

LEMMA HeldFrom ==
    ASSUME NEW k, k \in Held
    PROVE  /\ k # 0
           /\ \/ k = store \/ k = flight.token
              \/ \E t \in Tasks : task[t].kind # "signIn" /\ task[t].token = k
  BY DEF Held

\* Beside a task of such a screen every other is idle, and unless it waits for a
\* refresh none is under way.
LEMMA Alone ==
    ASSUME ScreensApart, Types, Guarded, NEW t \in Tasks, ~At(t, "idle"), task[t].kind \in Screens
    PROVE  /\ \A u \in Tasks : u # t => At(u, "idle") /\ task[u].token = 0 /\ task[u].kind = "read"
           /\ ~Awaits(t) => flight.stage = "none" /\ flight.token = 0 /\ flight.answer = "none"
<1>1. \A u \in Tasks : u # t => At(u, "idle")
  <2> SUFFICES ASSUME NEW u \in Tasks, u # t, ~At(u, "idle") PROVE FALSE
    OBVIOUS
  <2>1. task[u].kind \in Kinds
    BY DEF Types, TasksType, Records
  <2>2. <<task[t].kind, task[u].kind>> \in Apart
    BY <2>1 DEF ScreensApart
  <2> QED
    BY <2>2 DEF Guarded
<1>2. \A u \in Tasks : At(u, "idle") => task[u].token = 0 /\ task[u].kind = "read" /\ ~Awaits(u)
  BY DEF Types, TasksType, Fits, At, Awaits, Waiting, Calling
<1> QED
  BY <1>1, <1>2 DEF Types, Shared, FlightType

\* Where the tokens of a step come from
LEMMA TaskStepTokens ==
    ASSUME Types, NEW t \in Tasks, TaskStep(t)
    PROVE  /\ used' = used /\ lost' = lost
           /\ \A k \in 1..issued : family'[k] = family[k]
           /\ task'[t].kind # "signIn" => task'[t].token \in {0, store, task[t].token}
           /\ task'[t].kind # "signIn" /\ task[t].kind = "signIn" => task'[t].token = 0
           /\ task'[t].kind = "signIn" => task'[t].token \in {0, task[t].token, issued + 1}
           /\ task'[t].kind = "signIn" /\ task[t].kind # "signIn" => task'[t].token = 0
           /\ \/ WriteBack(t)
              \/ store' = store
              \/ (Clear(t) \/ Erase(t)) /\ store' = 0
           /\ task'[t].stage = "clear" => InCall(t) /\ ~Live(task[t].token) /\ task[t].kind # "signIn"
           /\ task'[t].kind = "restore" /\ task'[t].stage \in Calling \cup {"writeBack"} =>
                \/ task'[t].token = store
                \/ task[t].kind = "restore" /\ InCall(t) /\ task'[t].token = task[t].token
<1> DEFINE n == task'[t]
<1>0. /\ task \in [Tasks -> Records] /\ task[t] \in Records /\ Fits(task[t]) /\ task[t].kind \in Kinds
      /\ issued \in Nat /\ ServerType
  BY MobileScanAssumption DEF Types, TasksType, ServerType, Records
<1>1. \A kind \in Kinds : /\ StagesOf[kind] \cap ({"begin"} \cup Calling) # {} => kind # "signIn"
                          /\ "revoke" \in StagesOf[kind] => kind = "signOut"
                          /\ "login" \in StagesOf[kind] => kind = "signIn"
  BY DEF StagesOf, Kinds, Waiting, Calling
<1>2. /\ used' = used /\ lost' = lost
      /\ Login(t) \/ family' = family
      /\ \/ WriteBack(t)
         \/ store' = store
         \/ (Clear(t) \/ Erase(t)) /\ store' = 0
  BY DEF TaskStep, Start, Begin, Call, Clear, WriteBack, List, NextScan, QueueRead, QueueWrite,
         Login, LoginFails, SignOutBegin, Revoke, Erase, server
<1>3. \A k \in 1..issued : family'[k] = family[k]
  <2>1. CASE Login(t)
    BY <1>0, <2>1, IssueTypes DEF Login
  <2> QED
    BY <1>2, <2>1
<1>4. CASE n.token = 0 /\ n.stage \notin {"clear", "writeBack"} \cup Calling
  BY <1>2, <1>3, <1>4
<1>5. CASE Start(t)
  <2>1. PICK kind \in Kinds : n.stage = FirstStage[kind]
    BY <1>0, <1>5, IdleFits DEF Start, Idle
  <2>2. n.token = 0
    BY <1>0, <1>5, StartMoves
  <2> QED
    BY <1>4, <2>1, <2>2 DEF FirstStage, Kinds, Calling
<1>6. CASE Begin(t)
  <2>1. task[t].kind # "signIn" /\ task[t].stage = "begin"
    BY <1>0, <1>1, <1>6 DEF Begin, At, Fits
  <2>2. CASE Done(t)
    BY <1>0, <1>4, <2>2, IdleFits DEF Done, Calling
  <2>3. CASE Join(t, "await", store) \/ task' = [task EXCEPT ![t].stage = "call", ![t].token = store]
    <3>1. n.token = store /\ n.kind = task[t].kind /\ n.stage \in {"await", "call"}
      BY <1>0, <2>3 DEF Join, Records
    <3> QED
      BY <1>2, <1>3, <2>1, <3>1
  <2> QED
    BY <1>6, <2>2, <2>3 DEF Begin
<1>7. CASE Call(t)
  <2>1. PICK answer \in Answers : AfterCall(t, answer) /\ (answer = "invalid" => ~Live(task[t].token))
    BY <1>7, CallKeeps
  <2>2. PICK r \in Records : After(r, task[t], answer) /\ task' = [task EXCEPT ![t] = r]
    BY <1>7, <2>1, CallKeeps, CallMoves
  <2>3. task'[t] = r
    BY <1>0, <2>2
  <2>4. InCall(t) /\ task[t].kind # "signIn"
    BY <1>0, <1>1, <1>7 DEF Call, InCall, Fits, Calling
  <2>5. r.stage = "idle" => r.token = 0 /\ r.kind = "read"
    BY <2>2 DEF After, Fits, Waiting, Calling
  <2>6. r.stage = "writeBack" => r.token = task[t].token
    BY <2>2 DEF After, Fits
  <2> QED
    BY <1>2, <1>3, <2>1, <2>2, <2>3, <2>4, <2>5, <2>6 DEF After, Calling
<1>8. CASE List(t) \/ NextScan(t) \/ QueueRead(t) \/ QueueWrite(t)
  <2>1. PICK r \in Records : /\ r.token = 0 /\ r.stage \in {"next", "begin", "queueWrite", "idle"}
                             /\ task' = [task EXCEPT ![t] = r]
    BY <1>8, QueueMoves
  <2> QED
    BY <1>0, <1>4, <2>1 DEF Calling
<1>9. CASE Login(t)
  <2>1. task[t].kind = "signIn" /\ issued' = issued + 1
    BY <1>0, <1>1, <1>9 DEF Login, At, Fits, Issue
  <2>2. CASE Done(t)
    BY <1>0, <1>4, <2>2, IdleFits DEF Done, Calling
  <2>3. CASE task' = [task EXCEPT ![t].stage = "writeBack", ![t].token = issued']
    <3>1. n.token = issued + 1 /\ n.kind = "signIn" /\ n.stage = "writeBack"
      BY <1>0, <2>1, <2>3 DEF Records
    <3> QED
      BY <1>2, <1>3, <2>1, <3>1
  <2> QED
    BY <1>9, <2>2, <2>3 DEF Login
<1>10. CASE SignOutBegin(t) \/ Revoke(t)
  <2>1. task[t].kind = "signOut"
    BY <1>0, <1>1, <1>10 DEF SignOutBegin, Revoke, At, Fits
  <2>2. n.kind = "signOut" /\ n.token \in {store, task[t].token} /\ n.stage \in {"revoke", "erase"}
    BY <1>0, <1>10, <2>1 DEF SignOutBegin, Revoke, Go, Records
  <2> QED
    BY <1>2, <1>3, <2>1, <2>2
<1>11. CASE Clear(t) \/ WriteBack(t) \/ LoginFails(t) \/ Erase(t)
  BY <1>0, <1>4, <1>11, EndMoves, IdleFits DEF Calling
<1> QED
  BY <1>5, <1>6, <1>7, <1>8, <1>9, <1>10, <1>11 DEF TaskStep

LEMMA TaskStepLasts ==
    ASSUME Types, NEW t \in Tasks, TaskStep(t)
    PROVE  /\ Lasting
           /\ \A f \in Tokens : ended'[f] = "REFRESH_REPLAY" => ended[f] = "REFRESH_REPLAY"
<1>1. \A k \in 1..issued : family'[k] = family[k] /\ family[k] \in Tokens
  BY TaskStepTokens, MobileScanAssumption DEF Types, ServerType, Tokens
<1>2. CASE Revoke(t)
  <2>1. ended' = ended \/ End(family[task[t].token], "NATIVE_LOGOUT")
    BY <1>2 DEF Revoke
  <2>2. ended \in [Tokens -> Reasons] /\ "NATIVE_LOGOUT" \in Reasons
    BY DEF Types, ServerType, Reasons
  <2>3. \A g \in Tokens : ended'[g] = ended[g] \/ (ended[g] = "none" /\ ended'[g] = "NATIVE_LOGOUT")
    BY <2>1, <2>2, EndTypes
  <2> QED
    BY <1>1, <2>3 DEF Lasting, Live
<1>3. CASE ~Revoke(t)
  <2>1. ended' = ended
    BY <1>3 DEF TaskStep, Start, Begin, Call, Clear, WriteBack, List, NextScan, QueueRead, QueueWrite,
         Login, LoginFails, SignOutBegin, Erase, server
  <2> QED
    BY <1>1, <2>1 DEF Lasting, Live
<1> QED
  BY <1>2, <1>3

\* Tokens that stay in one session
LEMMA StillOne ==
    ASSUME Types, OneSession, Lasting, Held' \subseteq Held
    PROVE  /\ OneSession'
           /\ Dead => Dead'
           /\ (\E k \in Held : ~Live(k)) => Dead'
<1>1. Held \subseteq 1..issued
  BY HeldIssued
<1> QED
  BY <1>1 DEF OneSession, Dead, Lasting, Live

\* A sign-in is alone, and so is its token.
LEMMA SignInStep ==
    ASSUME ScreensApart, SessionInv, NEW t \in Tasks, WriteBack(t), task[t].kind = "signIn"
    PROVE  TokensInv'
<1>0. Types /\ Guarded /\ TokensInv /\ Types' /\ TaskStep(t) /\ task \in [Tasks -> Records]
  BY TypesStep, NextIs DEF SessionInv, TaskStep, Types, TasksType
<1>1. /\ \A u \in Tasks : u # t => At(u, "idle") /\ task[u].token = 0 /\ task[u].kind = "read"
      /\ flight.stage = "none" /\ flight.token = 0 /\ flight.answer = "none"
  BY <1>0, Alone DEF WriteBack, At, Awaits, Screens
<1>2. /\ task' = [task EXCEPT ![t] = Idle] /\ store' = task[t].token /\ flight' = flight
      /\ used' = used
  BY <1>0, EndMoves DEF WriteBack, Save, server
<1>3. \A u \in Tasks : task'[u].token = 0 /\ task'[u].kind = "read" /\ task'[u].stage = "idle"
  BY <1>0, <1>1, <1>2, IdleFits DEF At
<1>4. Held' \subseteq {store'}
  BY <1>1, <1>2, <1>3 DEF Held
<1>5. store' # 0 /\ store' \notin used
  BY <1>0, <1>2 DEF TokensInv, SignedIn, Types, TasksType, Fits, WriteBack, At
<1>6. OneSession'
  BY <1>4 DEF OneSession
<1>7. Cleared' /\ RestoresStored' /\ StoredIsNew' /\ SignedIn'
  BY <1>2, <1>3, <1>5 DEF Cleared, RestoresStored, StoredIsNew, SignedIn, At
<1>8. FlightFits'
  BY <1>1, <1>2 DEF FlightFits
<1> QED
  BY <1>6, <1>7, <1>8 DEF TokensInv

LEMMA TaskStepHeld ==
    ASSUME Types, NEW t \in Tasks, TaskStep(t), ~(WriteBack(t) /\ task[t].kind = "signIn")
    PROVE  Held' \subseteq Held
<1> SUFFICES ASSUME NEW k, k \in Held' PROVE k \in Held
  OBVIOUS
<1>1. /\ k # 0
      /\ \/ k = store' \/ k = flight'.token
         \/ \E u \in Tasks : task'[u].kind # "signIn" /\ task'[u].token = k
  BY DEF Held
<1>2. CASE k = store'
  <2>1. CASE WriteBack(t)
    BY <1>1, <1>2, <2>1, HeldIssued DEF WriteBack, Save
  <2> QED
    BY <1>1, <1>2, <2>1, HeldIssued, TaskStepTokens
<1>3. CASE k = flight'.token
  BY <1>1, <1>3, HeldIssued, SharedStep DEF NoFlight
<1>4. ASSUME NEW u \in Tasks, task'[u].kind # "signIn", task'[u].token = k
      PROVE  k \in Held
  <2>1. CASE u = t
    <3>1. k \in {0, store, task[t].token} /\ (task[t].kind = "signIn" => k = 0)
      BY <1>4, <2>1, TaskStepTokens
    <3> QED
      BY <1>1, <3>1, HeldIssued
  <2>2. CASE u # t
    BY <1>1, <1>4, <2>2, HeldIssued, TaskStepTasks
  <2> QED
    BY <2>1, <2>2
<1> QED
  BY <1>1, <1>2, <1>3, <1>4

LEMMA TokensTaskStep ==
    ASSUME ScreensApart, SessionInv, NEW t \in Tasks, TaskStep(t)
    PROVE  TokensInv'
<1>0. /\ Types /\ Guarded /\ TokensInv /\ Types' /\ task \in [Tasks -> Records]
      /\ \A u \in Tasks : u # t => task'[u] = task[u]
      /\ Lasting /\ used' = used /\ lost' = lost
  BY TypesStep, NextIs, TaskStepTasks, TaskStepLasts, TaskStepTokens
     DEF SessionInv, Types, TasksType
<1>1. CASE WriteBack(t) /\ task[t].kind = "signIn"
  BY <1>1, SignInStep
<1>2. CASE ~(WriteBack(t) /\ task[t].kind = "signIn")
  <2>1. Held' \subseteq Held /\ Held \subseteq 1..issued
    BY <1>0, <1>2, TaskStepHeld, HeldIssued
  <2>2. /\ OneSession'
        /\ Dead => Dead'
        /\ (\E k \in Held : ~Live(k)) => Dead'
    BY <1>0, <2>1, StillOne DEF TokensInv
  \* whoever writes back has read what is stored
  <2>3. \/ store' = store
        \/ (Clear(t) \/ Erase(t)) /\ store' = 0
    <3>1. CASE WriteBack(t)
      <4>1. task[t].kind = "restore" /\ task[t].stage = "writeBack"
        <5>1. \A kind \in Kinds : "writeBack" \in StagesOf[kind] => kind \in {"restore", "signIn"}
          BY DEF StagesOf, Kinds, Waiting, Calling
        <5>2. task[t].stage = "writeBack" /\ Fits(task[t]) /\ task[t].kind \in Kinds
          BY <1>0, <3>1 DEF WriteBack, At, Types, TasksType, Records
        <5> QED
          BY <1>2, <3>1, <5>1, <5>2 DEF Fits
      <4>2. task[t].token = store
        BY <1>0, <4>1 DEF TokensInv, RestoresStored
      <4> QED
        BY <3>1, <4>2 DEF WriteBack, Save
    <3> QED
      BY <1>0, <3>1, TaskStepTokens
  <2>4. Cleared'
    <3> SUFFICES ASSUME \E u \in Tasks : At(u, "clear")'
                 PROVE  Dead' \/ (store' = 0 /\ flight'.stage \in {"none", "read"})
      BY DEF Cleared
    <3>1. CASE \E u \in Tasks : At(u, "clear")
      <4>1. Dead \/ (store = 0 /\ flight.stage \in {"none", "read"})
        BY <1>0, <3>1 DEF TokensInv, Cleared
      <4>2. store = 0 => store' = 0
        BY <2>3
      <4>3. flight.stage \in {"none", "read"} => flight'.stage \in {"none", "read"}
        BY <1>0, SharedStep DEF NoFlight
      <4> QED
        BY <2>2, <4>1, <4>2, <4>3
    <3>3. CASE task'[t].stage = "clear"
      <4>1. InCall(t) /\ ~Live(task[t].token) /\ task[t].kind # "signIn"
        BY <1>0, <3>3, TaskStepTokens
      <4>2. task[t].token # 0
        BY <1>0, <4>1 DEF InCall, Types, TasksType, Fits, Calling
      <4>3. task[t].token \in Held
        BY <1>0, <4>1, <4>2, HeldIssued
      <4> QED
        BY <2>2, <4>1, <4>3
    <3> QED
      BY <1>0, <3>1, <3>3 DEF At
  <2>5. RestoresStored'
    <3> SUFFICES ASSUME NEW u \in Tasks, task'[u].kind = "restore",
                        task'[u].stage \in Calling \cup {"writeBack"}
                 PROVE  task'[u].token = store'
      BY DEF RestoresStored
    <3>1. CASE u = t
      <4>1. \/ task'[t].token = store
            \/ task[t].kind = "restore" /\ InCall(t) /\ task'[t].token = task[t].token
        BY <1>0, <3>1, TaskStepTokens
      <4>2. task'[t].token = store
        BY <1>0, <4>1 DEF TokensInv, RestoresStored, InCall, Calling
      <4>3. ~Clear(t) /\ ~Erase(t)
        BY <1>0, <3>1, EndMoves, IdleFits DEF Calling
      <4> QED
        BY <2>3, <3>1, <4>2, <4>3
    <3>2. CASE u # t
      <4>1. task'[u] = task[u] /\ task[u].token = store
        BY <1>0, <3>2 DEF TokensInv, RestoresStored
      <4>2. ~At(u, "idle") /\ task[u].kind \in Screens
        BY <4>1 DEF At, Calling, Screens
      <4>3. At(t, "idle")
        BY <1>0, <3>2, <4>2, Alone
      <4> QED
        BY <2>3, <4>1, <4>3 DEF Clear, Erase, At
    <3> QED
      BY <3>1, <3>2
  <2>6. flight' = flight \/ (flight.stage = "none" /\ flight'.answer = "none" /\ flight'.stage = "read")
    BY <1>0, SharedStep DEF NoFlight
  <2>7. StoredIsNew'
    <3> SUFFICES ASSUME store' # 0, store' \in used', Live(store)'
                 PROVE  family'[store'] \in lost' \/ flight'.answer = "ok"
      BY DEF StoredIsNew
    <3>1. store' = store /\ store \in 1..issued
      BY <1>0, <2>1, <2>3, HeldIssued
    <3>2. family'[store] = family[store] /\ Live(store)
      BY <1>0, <3>1 DEF Lasting, Live
    <3>3. family[store] \in lost \/ flight.answer = "ok"
      BY <1>0, <3>1, <3>2 DEF TokensInv, StoredIsNew
    <3>4. flight.answer = "ok" => flight.stage = "answered"
      BY <1>0 DEF Types, FlightType
    <3> QED
      BY <1>0, <2>6, <3>1, <3>2, <3>3, <3>4
  <2>8. FlightFits'
    <3>1. CASE flight' = flight
      <4>1. flight.token # 0 => flight.token \in 1..issued
        BY <1>0, <2>1, HeldIssued
      <4>2. flight.answer = "invalid" \/ flight.stage = "sent" => flight.token # 0
        BY <1>0 DEF Types, FlightType
      <4> QED
        BY <1>0, <3>1, <4>1, <4>2 DEF TokensInv, FlightFits, Lasting
    <3>2. CASE flight'.answer = "none" /\ flight'.stage = "read"
      BY <3>2 DEF FlightFits
    <3> QED
      BY <2>6, <3>1, <3>2
  <2>9. SignedIn'
    <3> SUFFICES ASSUME NEW u \in Tasks, task'[u].kind = "signIn" PROVE task'[u].token \notin used
      BY <1>0 DEF SignedIn
    <3>1. issued \in Nat /\ used \subseteq 1..issued
      BY <1>0, MobileScanAssumption DEF Types, ServerType
    <3>2. CASE u # t
      BY <1>0, <3>2 DEF TokensInv, SignedIn
    <3>3. CASE u = t
      <4>1. /\ task'[t].token \in {0, task[t].token, issued + 1}
            /\ task[t].kind # "signIn" => task'[t].token = 0
        BY <1>0, <3>3, TaskStepTokens
      <4> QED
        BY <1>0, <3>1, <3>3, <4>1 DEF TokensInv, SignedIn
    <3> QED
      BY <3>2, <3>3
  <2> QED
    BY <2>2, <2>4, <2>5, <2>7, <2>8, <2>9 DEF TokensInv
<1> QED
  BY <1>1, <1>2

\* Tokens of the callers of a refresh that ends
LEMMA EndFlightTokens ==
    ASSUME Types, NEW answer, NEW k \in 0..issued, EndFlight(answer, k), issued' = issued,
           answer = "ok" => k # 0, store' \in {store, k}, k \in {0, flight.token}
    PROVE  /\ Held' \subseteq Held
           /\ \A t \in Tasks : /\ task'[t].stage = "clear" => At(t, "clear") \/ answer = "invalid"
                               /\ task'[t].kind = "restore"
                                     /\ task'[t].stage \in Calling \cup {"writeBack"}
                                  => task'[t] = task[t]
                               /\ task'[t].kind = "signIn" => task'[t] = task[t]
<1>0. flight' = NoFlight /\ task \in [Tasks -> Records] /\ k \in Nat
  BY MobileScanAssumption DEF EndFlight, Types, TasksType, ServerType
<1>1. ASSUME NEW t \in Tasks
      PROVE  /\ task'[t].token # 0 /\ task'[t].kind # "signIn" => task'[t].token \in Held
             /\ task'[t].stage = "clear" => At(t, "clear") \/ answer = "invalid"
             /\ task'[t].kind = "restore" /\ task'[t].stage \in Calling \cup {"writeBack"}
                   => task'[t] = task[t]
             /\ task'[t].kind = "signIn" => task'[t] = task[t]
  <2>1. CASE ~Awaits(t)
    BY <2>1, EndFlightMoves, HeldIssued DEF At
  <2>2. CASE Awaits(t)
    <3>1. task[t] \in Records /\ task[t].stage \in Waiting /\ Fits(task[t])
      BY <2>2 DEF Types, TasksType, Awaits, Waiting
    <3>2. task'[t] = Resumed(task[t], answer, k)
      BY <2>2, EndFlightMoves
    <3>3. /\ task'[t].token \in {0, k, task[t].token}
          /\ task'[t].stage # "idle" => task'[t].kind = task[t].kind
          /\ Fits(task'[t])
      BY <1>0, <3>1, <3>2, ResumedFits
    <3>4. task[t].kind # "signIn"
      <4>1. StagesOf["signIn"] \cap Waiting = {}
        BY DEF StagesOf, Kinds, Waiting
      <4> QED
        BY <3>1, <4>1 DEF Fits, Waiting
    <3>5. task'[t].kind # "signIn"
      BY <3>3, <3>4 DEF Fits
    <3>6. task'[t].token # 0 => task'[t].token \in Held
      BY <3>3, <3>4, HeldIssued
    <3>7. task'[t].stage = "clear" => answer = "invalid"
      BY <3>1, <3>2, IdleFits DEF Resumed, Ended, Records
    <3>8. task'[t].kind = "restore" => task'[t].stage \notin Calling \cup {"writeBack"}
      BY <3>1, <3>2, IdleFits DEF Resumed, Ended, Records, Calling
    <3> QED
      BY <3>5, <3>6, <3>7, <3>8
  <2> QED
    BY <2>1, <2>2
<1>2. store' # 0 => store' \in Held
  BY HeldIssued
<1>3. Held' \subseteq Held
  <2>1. flight'.token = 0
    BY <1>0 DEF NoFlight
  <2> QED
    BY <1>1, <1>2, <2>1 DEF Held
<1> QED
  BY <1>1, <1>3

LEMMA FlightReadsTokens ==
    ASSUME SessionInv, FlightReads
    PROVE  TokensInv'
<1>0. /\ Types /\ TokensInv /\ UNCHANGED <<server, store, lost>> /\ issued' = issued
      /\ Lasting /\ 0 \in 0..issued /\ used' = used
  BY MobileScanAssumption DEF SessionInv, Types, ServerType, FlightReads, server, Lasting, Live
<1>1. CASE store = 0 /\ EndFlight("invalid", 0)
  <2>1. /\ Held' \subseteq Held
        /\ \A t \in Tasks : /\ task'[t].kind = "restore"
                                  /\ task'[t].stage \in Calling \cup {"writeBack"}
                               => task'[t] = task[t]
                            /\ task'[t].kind = "signIn" => task'[t] = task[t]
    BY <1>0, <1>1, EndFlightTokens
  <2>2. OneSession'
    BY <1>0, <1>1, <2>1, StillOne DEF TokensInv
  <2>3. flight' = NoFlight
    BY <1>1 DEF EndFlight
  <2> QED
    BY <1>0, <1>1, <2>1, <2>2, <2>3
       DEF TokensInv, Cleared, RestoresStored, StoredIsNew, FlightFits, SignedIn, NoFlight
<1>2. CASE store # 0 /\ flight' = [flight EXCEPT !.stage = "sent", !.token = store] /\ UNCHANGED task
  <2>1. flight'.stage = "sent" /\ flight'.token = store /\ flight'.answer = "none"
        /\ flight.stage = "read" /\ flight.answer = "none"
    BY <1>0, <1>2 DEF FlightReads, Types, FlightType
  <2>2. Held' \subseteq Held
    BY <1>0, <1>2, <2>1 DEF Held
  <2>3. OneSession' /\ (Dead => Dead')
    BY <1>0, <2>2, StillOne DEF TokensInv
  <2>4. StoredIsNew' /\ FlightFits'
    BY <1>0, <1>2, <2>1 DEF TokensInv, StoredIsNew, FlightFits, Live, server
  <2> QED
    BY <1>0, <1>2, <2>1, <2>3, <2>4 DEF TokensInv, Cleared, RestoresStored, SignedIn, At
<1> QED
  BY <1>1, <1>2 DEF FlightReads

LEMMA FlightAnsweredTokens ==
    ASSUME SessionInv, FlightAnswered, ScreensApart
    PROVE  TokensInv' /\ ReplayWasLost'
<1>0. /\ Types /\ Guarded /\ TokensInv /\ ReplayWasLost
      /\ UNCHANGED <<loaded, clock, store, queue, task, told, lost>>
      /\ flight.stage = "sent" /\ flight.token \in 1..issued /\ flight.token \in Held
      /\ ServerType /\ issued \in Nat /\ flight.answer = "none"
      /\ Held \subseteq 1..issued
  BY HeldIssued, MobileScanAssumption DEF SessionInv, FlightAnswered, Types, FlightType, ServerType
<1>1. PICK answer \in {"ok", "invalid"} :
         /\ Exchange(flight.token, answer)
         /\ flight' = [stage |-> "answered", answer |-> answer,
                       token |-> IF answer = "ok" THEN issued' ELSE flight.token]
  BY DEF FlightAnswered
<1>2. /\ \A j \in 1..issued : family'[j] = family[j]
      /\ answer = "ok" => /\ Live(flight.token) /\ flight.token \notin used
                          /\ issued' = issued + 1 /\ family'[issued'] = family[flight.token]
                          /\ used' = used \cup {flight.token} /\ ended' = ended
      /\ answer = "invalid" => /\ issued' = issued /\ family' = family /\ used' = used
                               /\ ended'[family[flight.token]] # "none"
                               /\ \/ ended' = ended
                                  \/ Live(flight.token) /\ flight.token \in used
                                     /\ End(family[flight.token], "REFRESH_REPLAY")
  BY <1>0, <1>1, ExchangeTypes
<1>3. \A t \in Tasks : task[t].kind # "signIn"
  <2> SUFFICES ASSUME NEW t \in Tasks, task[t].kind = "signIn" PROVE FALSE
    OBVIOUS
  <2>1. ~At(t, "idle") /\ ~Awaits(t)
    <3>1. StagesOf["signIn"] \cap Waiting = {}
      BY DEF StagesOf, Kinds, Waiting
    <3> QED
      BY <1>0, <3>1 DEF Types, TasksType, Fits, At, Awaits, Waiting
  <2> QED
    BY <1>0, <2>1, Alone DEF Screens
<1>4. RestoresStored' /\ SignedIn'
  BY <1>0, <1>3 DEF TokensInv, RestoresStored, SignedIn
<1>5. CASE answer = "ok"
  <2>1. ~(\E t \in Tasks : At(t, "clear"))
    BY <1>0, <1>2, <1>5 DEF Dead, TokensInv, Cleared
  <2>2. flight'.token = issued' /\ flight'.stage = "answered" /\ flight'.answer = "ok"
        /\ issued' = issued + 1 /\ issued' \in Nat
    BY <1>0, <1>1, <1>2, <1>5
  <2>3. Held' \subseteq Held \cup {issued'}
    BY <1>0, <2>2 DEF Held
  <2>4. \A k \in Held' : family'[k] = family[flight.token]
    BY <1>0, <1>2, <1>5, <2>2, <2>3 DEF TokensInv, OneSession
  <2>5. OneSession'
    BY <2>4 DEF OneSession
  <2>6. Cleared' /\ StoredIsNew'
    BY <1>0, <2>1, <2>2 DEF Cleared, StoredIsNew, At
  <2>7. FlightFits'
    <3>1. issued' \notin used'
      BY <1>0, <1>2, <1>5, <2>2 DEF ServerType
    <3> QED
      BY <2>2, <3>1 DEF FlightFits
  <2>8. ReplayWasLost'
    BY <1>0, <1>2, <1>5 DEF ReplayWasLost
  <2> QED
    BY <1>4, <2>5, <2>6, <2>7, <2>8 DEF TokensInv
<1>6. CASE answer = "invalid"
  <2>1. /\ flight'.token = flight.token /\ flight'.stage = "answered" /\ flight'.answer = "invalid"
        /\ issued' = issued /\ family' = family /\ used' = used
    BY <1>1, <1>2, <1>6
  <2>2. /\ \A g \in Tokens : ended'[g] = "none" => ended[g] = "none"
        /\ ReplayWasLost'
    <3>1. CASE ended' = ended
      BY <1>0, <3>1 DEF ReplayWasLost
    <3>2. CASE Live(flight.token) /\ flight.token \in used /\ End(family[flight.token], "REFRESH_REPLAY")
      <4>1. ended \in [Tokens -> Reasons] /\ "REFRESH_REPLAY" \in Reasons
        BY <1>0 DEF ServerType, Reasons
      <4>2. \A g \in Tokens : ended'[g] = IF g = family[flight.token] /\ ended[g] = "none"
                                          THEN "REFRESH_REPLAY" ELSE ended[g]
        BY <3>2, <4>1, EndTypes
      <4>3. family[flight.token] \in lost
        BY <1>0, <3>2 DEF TokensInv, FlightFits
      <4> QED
        BY <1>0, <4>2, <4>3 DEF ReplayWasLost
    <3> QED
      BY <1>2, <1>6, <3>1, <3>2
  <2>3. Lasting
    <3>1. \A k \in 1..issued : family[k] \in Tokens
      BY <1>0, MobileScanAssumption DEF ServerType, Tokens
    <3> QED
      BY <2>1, <2>2, <3>1 DEF Lasting, Live
  <2>4. Held' \subseteq Held
    BY <1>0, <2>1 DEF Held
  <2>5. OneSession' /\ (Dead => Dead')
    BY <1>0, <2>3, <2>4, StillOne DEF TokensInv
  <2>6. Cleared'
    BY <1>0, <2>5 DEF TokensInv, Cleared, At
  <2>7. StoredIsNew'
    <3>1. store # 0 => store \in 1..issued
      BY <1>0, HeldIssued
    <3> QED
      BY <1>0, <2>1, <2>3, <3>1 DEF TokensInv, StoredIsNew, Lasting
  <2>8. FlightFits'
    BY <1>2, <1>6, <2>1 DEF FlightFits, Live
  <2> QED
    BY <1>4, <2>2, <2>5, <2>6, <2>7, <2>8 DEF TokensInv
<1> QED
  BY <1>5, <1>6

\* The answer of a refresh is lost, with the request or the whole app.
LEMMA LostTokens ==
    ASSUME SessionInv, UNCHANGED <<server, store>>, lost' = lost \cup LostWith(flight),
           flight' = NoFlight, Held' \subseteq Held,
           \A t \in Tasks : /\ At(t, "clear")' => At(t, "clear")
                            /\ task'[t].kind = "restore"
                                  /\ task'[t].stage \in Calling \cup {"writeBack"}
                               => task'[t] = task[t]
                            /\ task'[t].kind = "signIn" => task'[t] = task[t]
    PROVE  TokensInv'
<1>0. Types /\ TokensInv /\ Lasting /\ used' = used /\ family' = family /\ ended' = ended
  BY DEF SessionInv, server, Lasting, Live
<1>1. OneSession' /\ (Dead => Dead')
  BY <1>0, StillOne DEF TokensInv
<1>2. Cleared' /\ RestoresStored' /\ SignedIn' /\ FlightFits'
  BY <1>0, <1>1 DEF TokensInv, Cleared, RestoresStored, SignedIn, FlightFits, NoFlight
<1>3. StoredIsNew'
  <2> SUFFICES ASSUME store # 0, store \in used, Live(store) PROVE family[store] \in lost'
    BY <1>0 DEF StoredIsNew, Live
  <2>1. CASE flight.answer = "ok"
    <3>1. flight.token # 0
      BY <1>0, <2>1 DEF Types, FlightType
    <3>2. family[store] = family[flight.token]
      BY <1>0, <3>1, HeldIssued DEF TokensInv, OneSession
    <3> QED
      BY <2>1, <3>2 DEF LostWith
  <2> QED
    BY <1>0, <2>1 DEF TokensInv, StoredIsNew
<1> QED
  BY <1>1, <1>2, <1>3 DEF TokensInv

LEMMA FlightLostTokens ==
    ASSUME SessionInv, FlightLost
    PROVE  TokensInv'
<1>1. /\ Types /\ EndFlight("network", 0) /\ 0 \in 0..issued /\ issued' = issued
      /\ UNCHANGED <<server, store>> /\ lost' = lost \cup LostWith(flight)
      /\ flight' = NoFlight
  BY MobileScanAssumption DEF SessionInv, Types, ServerType, FlightLost, server, EndFlight
<1>2. /\ Held' \subseteq Held
      /\ \A t \in Tasks : /\ At(t, "clear")' => At(t, "clear")
                          /\ task'[t].kind = "restore"
                                /\ task'[t].stage \in Calling \cup {"writeBack"}
                             => task'[t] = task[t]
                          /\ task'[t].kind = "signIn" => task'[t] = task[t]
  BY <1>1, EndFlightTokens DEF At
<1> QED
  BY <1>1, <1>2, LostTokens

LEMMA KillTokens ==
    ASSUME SessionInv, Kill
    PROVE  TokensInv'
<1>1. UNCHANGED <<server, store>> /\ lost' = lost \cup LostWith(flight) /\ flight' = NoFlight
  BY DEF Kill
<1>2. \A t \in Tasks : task'[t] = Idle
  BY DEF Kill
<1>3. Held' \subseteq Held
  BY <1>1, <1>2, IdleFits DEF Held, NoFlight
<1>4. \A t \in Tasks : task'[t].stage = "idle" /\ task'[t].kind = "read"
  BY <1>2, IdleFits
<1> QED
  BY <1>1, <1>3, <1>4, LostTokens DEF At, Calling

LEMMA FlightEndsTokens ==
    ASSUME ScreensApart, SessionInv, FlightEnds
    PROVE  TokensInv'
<1>0. /\ Types /\ Guarded /\ TokensInv
      /\ UNCHANGED <<server, lost>> /\ issued' = issued /\ used' = used
      /\ EndFlight(flight.answer, flight.token) /\ flight' = NoFlight
      /\ flight.token \in 0..issued /\ flight.token # 0 /\ flight.stage = "answered"
      /\ flight.answer \in {"ok", "invalid"} /\ Lasting
      /\ flight.token \in Held
      /\ store' = IF flight.answer = "ok" THEN flight.token ELSE store
  BY HeldIssued, MobileScanAssumption
     DEF SessionInv, FlightEnds, Types, ServerType, FlightType, server, EndFlight, Lasting, Live, Save
<1>1. /\ Held' \subseteq Held
      /\ \A t \in Tasks : /\ task'[t].stage = "clear" => At(t, "clear") \/ flight.answer = "invalid"
                          /\ task'[t].kind = "restore"
                                /\ task'[t].stage \in Calling \cup {"writeBack"}
                             => task'[t] = task[t]
                          /\ task'[t].kind = "signIn" => task'[t] = task[t]
  BY <1>0, EndFlightTokens
<1>2. /\ OneSession'
      /\ Dead => Dead'
      /\ (\E k \in Held : ~Live(k)) => Dead'
  BY <1>0, <1>1, StillOne DEF TokensInv
<1>3. Cleared'
  BY <1>0, <1>1, <1>2 DEF TokensInv, Cleared, FlightFits, At
<1>4. \A t \in Tasks : ~(task'[t].kind = "restore" /\ task'[t].stage \in Calling \cup {"writeBack"})
  <2> SUFFICES ASSUME NEW t \in Tasks, task'[t].kind = "restore",
                      task'[t].stage \in Calling \cup {"writeBack"}
               PROVE  FALSE
    OBVIOUS
  <2>1. task'[t] = task[t]
    BY <1>1
  <2>2. task[t].kind \in Screens /\ ~At(t, "idle") /\ ~Awaits(t)
    BY <2>1 DEF Screens, At, Awaits, Calling
  <2> QED
    BY <1>0, <2>2, Alone
<1>5. RestoresStored'
  BY <1>4 DEF RestoresStored
<1>6. StoredIsNew'
  BY <1>0 DEF TokensInv, StoredIsNew, FlightFits, Live, server
<1>7. FlightFits' /\ SignedIn'
  BY <1>0, <1>1 DEF TokensInv, FlightFits, SignedIn, NoFlight
<1> QED
  BY <1>2, <1>3, <1>5, <1>6, <1>7 DEF TokensInv

LEMMA RevokeAllTokens ==
    ASSUME SessionInv, RevokeAll
    PROVE  TokensInv' /\ ReplayWasLost'
<1>0. /\ Types /\ TokensInv /\ ReplayWasLost
      /\ UNCHANGED <<issued, family, used, loaded, clock, device, lost>>
  BY DEF SessionInv, RevokeAll
<1>1. \A g \in Tokens : ended'[g] = ended[g] \/ (ended[g] = "none" /\ ended'[g] = "ADMIN_REVOKE_ALL")
  BY DEF RevokeAll
<1>2. \A k \in 1..issued : family[k] \in Tokens
  BY <1>0, MobileScanAssumption DEF Types, ServerType, Tokens
<1>3. Lasting
  BY <1>0, <1>1, <1>2 DEF Lasting, Live
<1>4. Held' = Held
  BY <1>0 DEF Held, device
<1>5. OneSession' /\ (Dead => Dead')
  BY <1>0, <1>3, <1>4, StillOne DEF TokensInv
<1>6. Cleared' /\ RestoresStored' /\ SignedIn'
  BY <1>0, <1>5 DEF TokensInv, Cleared, RestoresStored, SignedIn, device, At
<1>7. StoredIsNew' /\ FlightFits'
  <2>1. /\ store # 0 => store \in 1..issued
        /\ flight.answer = "invalid" \/ flight.stage = "sent" => flight.token \in 1..issued
    BY <1>0, HeldIssued DEF Types, FlightType
  <2> QED
    BY <1>0, <1>3, <2>1 DEF TokensInv, StoredIsNew, FlightFits, Lasting, device
<1>8. ReplayWasLost'
  BY <1>0, <1>1 DEF ReplayWasLost
<1> QED
  BY <1>5, <1>6, <1>7, <1>8 DEF TokensInv

LEMMA SessionStep ==
    ASSUME ScreensApart, SessionInv, [Next]_vars
    PROVE  SessionInv'
<1>0. Types' /\ Guarded' /\ Types /\ Guarded /\ TokensInv /\ ReplayWasLost
  BY TypesStep, GuardedStep DEF SessionInv
<1>1. ASSUME ended' = ended, lost \subseteq lost'
      PROVE  ReplayWasLost'
  BY <1>0, <1>1 DEF ReplayWasLost
<1>2. CASE \E t \in Tasks : TaskStep(t)
  <2>1. PICK t \in Tasks : TaskStep(t)
    BY <1>2
  <2>2. ReplayWasLost'
    BY <1>0, <2>1, TaskStepLasts, TaskStepTokens DEF ReplayWasLost
  <2> QED
    BY <1>0, <2>1, <2>2, TokensTaskStep DEF SessionInv
<1>3. CASE FlightReads \/ FlightLost \/ FlightEnds
  <2>1. ended' = ended /\ lost \subseteq lost'
    BY <1>3 DEF FlightReads, FlightLost, FlightEnds, server
  <2> QED
    BY <1>0, <1>1, <1>3, <2>1, FlightReadsTokens, FlightLostTokens, FlightEndsTokens DEF SessionInv
<1>4. CASE FlightAnswered
  BY <1>0, <1>4, FlightAnsweredTokens DEF SessionInv
<1>5. CASE Kill
  <2>1. ended' = ended /\ lost \subseteq lost'
    BY <1>5 DEF Kill, server
  <2> QED
    BY <1>0, <1>1, <1>5, <2>1, KillTokens DEF SessionInv
<1>6. CASE RevokeAll
  BY <1>0, <1>6, RevokeAllTokens DEF SessionInv
<1>7. CASE Tick \/ UNCHANGED vars
  <2>1. UNCHANGED <<server, device, lost>>
    BY <1>7 DEF Tick, vars
  <2> QED
    BY <1>0, <2>1 DEF SessionInv, TokensInv, OneSession, Cleared, Dead, RestoresStored, StoredIsNew,
          FlightFits, SignedIn, ReplayWasLost, Held, Live, At, server, device
<1> QED
  BY <1>2, <1>3, <1>4, <1>5, <1>6, <1>7, NextIs

\* The inductive invariant of the session: all tokens the device works with are
\* of one session, a stored token of a live session is exchanged for the first
\* time unless the answer of an exchange was lost, and only a session that has
\* ended is cleared.
THEOREM SessionInvariant ==
    ASSUME ScreensApart
    PROVE  Spec => []SessionInv
<1>1. Init => SessionInv
  <2> SUFFICES ASSUME Init PROVE SessionInv
    OBVIOUS
  <2>1. Held = {}
    BY IdleFits DEF Init, Held, NoFlight
  <2>2. TokensInv
    BY <2>1, IdleFits DEF Init, TokensInv, OneSession, Cleared, Dead, RestoresStored, StoredIsNew,
          FlightFits, SignedIn, NoFlight, Calling
  <2> QED
    BY <2>2, InitTypes, IdleFits DEF Init, SessionInv, Guarded, ReplayWasLost, At
<1>2. SessionInv /\ [Next]_vars => SessionInv'
  BY SessionStep
<1> QED
  BY <1>1, <1>2, PTL DEF Spec

\* The device loses its session by signing out, or because that very session was
\* ended at the API, and never for a replay as long as no answer was lost.
THEOREM SessionIsKept ==
    ASSUME ScreensApart
    PROVE  Spec => SessionKept
<1> DEFINE Kept == (store # 0 /\ store' = 0) =>
          \/ \E t \in Tasks : At(t, "erase") /\ At(t, "idle")'
          \/ ended[family[store]] \in {"NATIVE_LOGOUT", "ADMIN_REVOKE_ALL"}
          \/ ended[family[store]] = "REFRESH_REPLAY" /\ family[store] \in lost
<1>1. SessionInv /\ [Next]_vars => [Kept]_vars
  <2> SUFFICES ASSUME SessionInv, Next, store # 0, store' = 0 PROVE Kept
    OBVIOUS
  <2>0. Types /\ TokensInv /\ ReplayWasLost /\ task \in [Tasks -> Records]
    BY DEF SessionInv, Types, TasksType
  <2>1. \E t \in Tasks : Clear(t) \/ Erase(t)
    <3>1. CASE \E t \in Tasks : TaskStep(t)
      <4>1. PICK t \in Tasks : TaskStep(t)
        BY <3>1
      <4>2. ~WriteBack(t)
        BY <2>0 DEF WriteBack, Save, At, Types, TasksType, Fits
      <4> QED
        BY <2>0, <4>1, <4>2, TaskStepTokens
    <3>2. ~FlightEnds
      BY <2>0 DEF FlightEnds, Save, Types, FlightType
    <3> QED
      BY <3>1, <3>2, NextIs DEF RevokeAll, Tick, Kill, FlightReads, FlightAnswered, FlightLost, device
  <2>2. PICK t \in Tasks : Clear(t) \/ Erase(t)
    BY <2>1
  <2>3. CASE Erase(t)
    BY <2>0, <2>3, EndMoves, IdleFits DEF Erase, At
  <2>4. CASE Clear(t)
    <3>1. store \in Held /\ ~Live(store) /\ store \in 1..issued
      BY <2>0, <2>4, HeldIssued DEF Clear, TokensInv, Cleared, Dead
    <3>2. family[store] \in Tokens /\ ended[family[store]] \in Reasons
      BY <2>0, <3>1, MobileScanAssumption DEF Types, ServerType, Tokens
    <3> QED
      BY <2>0, <3>1, <3>2 DEF Live, Reasons, ReplayWasLost
  <2> QED
    BY <2>2, <2>3, <2>4
<1> QED
  BY <1>1, SessionInvariant, PTL DEF Spec, SessionKept
==============================================================================
