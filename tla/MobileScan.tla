------------------------------ MODULE MobileScan ------------------------------
(***************************************************************************)
(* The scan app of one device (apps/mobile-scan-app/src) and its session   *)
(* at the API (apps/api/src/auth): protected requests with a shared        *)
(* refresh of the token, sign-in and sign-out, the restoring of a session, *)
(* and the queue of scans that could not be sent.                          *)
(*                                                                         *)
(* What happens between two awaits of the app is one step.  A request that *)
(* reaches the API is handled in one step, under the lock of the session;  *)
(* it, or its answer, may be lost.  The app may be killed at any time.     *)
(*                                                                         *)
(* An access token and the refresh token issued with it are one number.    *)
(* Left out: rate limits, permissions, idle and absolute expiry and the    *)
(* deactivation of the user, which end a session like an administrator     *)
(* does, and of a scan everything but that a pallet is loaded once.        *)
(***************************************************************************)
EXTENDS Integers

CONSTANTS
    Tasks,      \* what the app does at once (a bound on concurrency)
    Pallets,
    NoPallet,   \* what a task scans that scans nothing
    Apart,      \* pairs of kinds of task that are not under way together
    MaxTokens   \* bound: tokens that are ever issued

Kinds == {"read", "scan", "sync", "restore", "signIn", "signOut"}

ASSUME MobileScanAssumption ==
    /\ Apart \subseteq Kinds \X Kinds
    /\ MaxTokens \in Nat \ {0}
    /\ NoPallet \notin Pallets

VARIABLES
    issued,    \* native_refresh_tokens: the number of tokens so far
    family,    \* the session of a token, named by its first one
    used,      \* tokens that were exchanged (used_at)
    ended,     \* native_auth_sessions.revoke_reason
    loaded,    \* the pallets that were scanned
    nearTo,    \* tokens up to this one expire within a minute ...
    expiredTo, \* ... and up to this one have expired
    store,     \* the secure token store; 0: empty
    flight,    \* refreshFlights: the refresh that callers share
    queue,     \* the offline queue, with one scan of a pallet at most
    task,      \* the tasks of the app
    told,      \* scans the app has told its user are queued
    lost       \* sessions, a refresh of which succeeded and had its answer lost

server == <<issued, family, used, ended, loaded>>
clock  == <<nearTo, expiredTo>>
device == <<store, flight, queue, task, told>>
vars   == <<server, clock, device, lost>>

Tokens  == 1..MaxTokens
Reasons == {"none", "REFRESH_REPLAY", "NATIVE_LOGOUT", "ADMIN_REVOKE_ALL"}
Answers == {"none", "ok", "network", "invalid", "expired", "conflict"}
QueueStates == {"absent", "waiting", "SYNCED"}   \* PENDING or FAILED: waiting
Queues  == [Pallets -> QueueStates]
Empty   == [p \in Pallets |-> "absent"]
Stages  == {"idle", "begin", "await", "awaitAgain", "call", "callAgain", "clear",
            "list", "next", "queueRead", "queueWrite", "writeBack", "login", "revoke",
            "erase"}

NoFlight == [stage |-> "none", token |-> 0, answer |-> "none"]
Idle == [kind |-> "read", stage |-> "idle", token |-> 0, pallet |-> NoPallet,
         synced |-> FALSE, todo |-> {}, seen |-> Empty]

\* The types, and that whoever waits for a refresh waits for one that is under way.
TypeOK ==
    /\ issued \in 0..MaxTokens
    /\ family \in [Tokens -> 0..MaxTokens]
    /\ used \subseteq Tokens
    /\ ended \in [Tokens -> Reasons]
    /\ loaded \subseteq Pallets
    /\ nearTo \in 0..issued /\ expiredTo \in 0..nearTo
    /\ store \in 0..issued
    /\ flight \in [stage : {"none", "read", "sent", "answered"},
                   token : 0..issued, answer : Answers]
    /\ queue \in Queues
    /\ task \in [Tasks -> [kind : Kinds, stage : Stages, token : 0..issued,
                           pallet : Pallets \cup {NoPallet}, synced : BOOLEAN,
                           todo : SUBSET Pallets, seen : Queues]]
    /\ told \subseteq Pallets
    /\ (\E t \in Tasks : task[t].stage \in {"await", "awaitAgain"}) => flight.stage # "none"
    /\ lost \subseteq 1..issued

Init ==
    /\ issued = 0 /\ used = {} /\ loaded = {} /\ nearTo = 0 /\ expiredTo = 0
    /\ family = [k \in Tokens |-> 0]
    /\ ended = [k \in Tokens |-> "none"]
    /\ store = 0 /\ flight = NoFlight /\ queue = Empty /\ told = {} /\ lost = {}
    /\ task = [t \in Tasks |-> Idle]

-----------------------------------------------------------------------------
(* The API.                                                                *)

Live(k) == ended[family[k]] = "none"
End(f, reason) == ended' = [ended EXCEPT ![f] = IF @ = "none" THEN reason ELSE @]

\* a new token, of the session first or, if that is 0, of a new session
Issue(first) ==
    /\ issued < MaxTokens
    /\ issued' = issued + 1
    /\ family' = [family EXCEPT ![issued + 1] = IF first = 0 THEN issued + 1 ELSE first]

\* refreshNativeSession: a token is exchanged once; a second time ends its session
Exchange(k, answer) ==
    \/ /\ ~Live(k)
       /\ answer = "invalid"
       /\ UNCHANGED <<issued, family, used, ended>>
    \/ /\ Live(k) /\ k \in used
       /\ answer = "invalid"
       /\ End(family[k], "REFRESH_REPLAY")
       /\ UNCHANGED <<issued, family, used>>
    \/ /\ Live(k) /\ k \notin used
       /\ answer = "ok"
       /\ Issue(family[k])
       /\ used' = used \cup {k}
       /\ UNCHANGED ended

\* a protected request with token k: the guard, then the scan of a pallet
Handle(kind, k, p, answer) ==
    \/ /\ k <= expiredTo
       /\ answer = "expired"
       /\ UNCHANGED loaded
    \/ /\ k > expiredTo /\ ~Live(k)
       /\ answer = "invalid"
       /\ UNCHANGED loaded
    \/ /\ k > expiredTo /\ Live(k)
       /\ answer = IF kind \in {"scan", "sync"} /\ p \in loaded THEN "conflict" ELSE "ok"
       /\ loaded' = IF kind \in {"scan", "sync"} THEN loaded \cup {p} ELSE loaded

\* revokeAllNativeSessionsForUser
RevokeAll ==
    /\ \E k \in 1..issued : Live(k)
    /\ ended' = [f \in Tokens |-> IF f \in {family[k] : k \in 1..issued} /\ ended[f] = "none"
                                  THEN "ADMIN_REVOKE_ALL" ELSE ended[f]]
    /\ UNCHANGED <<issued, family, used, loaded, clock, device, lost>>

\* tokens come near their end, and expire, in the order of their issue
Tick ==
    /\ \/ nearTo < issued /\ nearTo' = nearTo + 1 /\ UNCHANGED expiredTo
       \/ expiredTo < nearTo /\ expiredTo' = expiredTo + 1 /\ UNCHANGED nearTo
    /\ UNCHANGED <<server, device, lost>>

-----------------------------------------------------------------------------
(* Tasks.                                                                  *)

At(t, stage) == task[t].stage = stage
Go(t, stage) == task' = [task EXCEPT ![t].stage = stage]
Done(t)      == task' = [task EXCEPT ![t] = Idle]

\* Each kind of task but "read" is guarded by a flag of its screen.
MayStart(t, kind) ==
    /\ At(t, "idle")
    /\ \A other \in Tasks : ~At(other, "idle") =>
         /\ <<kind, task[other].kind>> \notin Apart
         /\ <<task[other].kind, kind>> \notin Apart
         /\ kind = task[other].kind => kind = "read"

FirstStage == [kind \in Kinds |-> CASE kind = "sync"   -> "list"
                                    [] kind = "signIn" -> "login"
                                    [] OTHER           -> "begin"]

\* a pallet that is in the queue is not scanned again
Start(t) ==
    \E kind \in Kinds, p \in Pallets \cup {NoPallet} :
        /\ MayStart(t, kind)
        /\ p # NoPallet <=> kind = "scan"
        /\ kind = "scan" => queue[p] = "absent"
        /\ task' = [task EXCEPT ![t] = [Idle EXCEPT !.kind = kind, !.pallet = p,
                                                    !.stage = FirstStage[kind]]]
        /\ UNCHANGED <<server, clock, store, flight, queue, told, lost>>

\* wait for the refresh that is under way, or begin one
Join(t, stage, k) ==
    /\ task' = [task EXCEPT ![t].stage = stage, ![t].token = k]
    /\ flight' = IF flight.stage = "none" THEN [NoFlight EXCEPT !.stage = "read"] ELSE flight

\* withNativeSession and restoreSession read the stored session
Begin(t) ==
    /\ At(t, "begin")
    /\ task[t].kind # "signOut"
    /\ \/ /\ store = 0
          /\ Done(t)
          /\ UNCHANGED flight
       \/ /\ store # 0 /\ store <= nearTo
          /\ Join(t, "await", store)
       \/ /\ store > nearTo
          /\ task' = [task EXCEPT ![t].stage = "call", ![t].token = store]
          /\ UNCHANGED flight
    /\ UNCHANGED <<server, clock, store, queue, told, lost>>

-----------------------------------------------------------------------------
(* refreshStoredSession: one flight for all callers that wait.             *)

Awaits(t) == task[t].stage \in {"await", "awaitAgain"}

\* a scan that did not reach the API, as far as the app knows, is queued
Ended(task_, answer) ==
    IF task_.kind = "scan" /\ answer = "network"
    THEN [task_ EXCEPT !.stage = "queueRead", !.token = 0]
    ELSE Idle

\* A caller goes on when the flight ends: without the network with a token that has
\* not expired, unless it was refused; a restoring that was refreshed is done.
Resumed(task_, answer, k) ==
    CASE answer = "invalid" -> [task_ EXCEPT !.stage = "clear", !.token = 0]
      [] answer = "ok" /\ task_.kind # "restore" ->
            [task_ EXCEPT !.token = k,
                          !.stage = IF @ = "await" THEN "call" ELSE "callAgain"]
      [] answer = "network" /\ task_.stage = "await" /\ task_.kind # "restore"
                           /\ task_.token > expiredTo -> [task_ EXCEPT !.stage = "call"]
      [] OTHER -> Ended(task_, answer)

\* Mutant: the flight ends for one of its callers.
EndFlightAlone(answer, k) ==
    /\ flight' = NoFlight
    /\ \E t \in Tasks :
         Awaits(t) /\ task' = [task EXCEPT ![t] = Resumed(task[t], answer, k)]

EndFlight(answer, k) ==
    /\ flight' = NoFlight
    /\ task' = [t \in Tasks |-> IF Awaits(t) THEN Resumed(task[t], answer, k) ELSE task[t]]

FlightReads ==
    /\ flight.stage = "read"
    /\ \/ /\ store = 0
          /\ EndFlight("invalid", 0)
       \/ /\ store # 0
          /\ flight' = [flight EXCEPT !.stage = "sent", !.token = store]
          /\ UNCHANGED task
    /\ UNCHANGED <<server, clock, store, queue, told, lost>>

\* The request arrives and is answered.
FlightAnswered ==
    /\ flight.stage = "sent"
    /\ \E answer \in {"ok", "invalid"} :
         /\ Exchange(flight.token, answer)
         /\ flight' = [stage |-> "answered", answer |-> answer,
                       token |-> IF answer = "ok" THEN issued' ELSE flight.token]
    /\ UNCHANGED <<loaded, clock, store, queue, task, told, lost>>

LostWith(f) == IF f.answer = "ok" THEN {family[f.token]} ELSE {}

\* The request, or its answer, is lost.
FlightLost ==
    /\ flight.stage \in {"sent", "answered"}
    /\ lost' = lost \cup LostWith(flight)
    /\ EndFlight("network", 0)
    /\ UNCHANGED <<server, clock, store, queue, told>>

\* saveNativeSession
Save(k) == store' = k

\* Mutant: the new session is used and not stored.
FlightEndsUnsaved ==
    /\ flight.stage = "answered"
    /\ EndFlight(flight.answer, flight.token)
    /\ UNCHANGED <<server, clock, store, queue, told, lost>>

FlightEnds ==
    /\ flight.stage = "answered"
    /\ IF flight.answer = "ok" THEN Save(flight.token) ELSE UNCHANGED store
    /\ EndFlight(flight.answer, flight.token)
    /\ UNCHANGED <<server, clock, queue, told, lost>>

-----------------------------------------------------------------------------
(* The protected request itself.                                           *)

InCall(t) == task[t].stage \in {"call", "callAgain"}

\* An expired token is refreshed once; a session the API has ended is cleared, but
\* not after that second call, and not by a scan of the queue.
AfterCall(t, answer) ==
    IF answer = "expired" /\ At(t, "call")
    THEN Join(t, "awaitAgain", task[t].token)
    ELSE /\ task' = [task EXCEPT ![t] =
                CASE @.kind = "sync" /\ answer # "expired" ->
                        [@ EXCEPT !.stage = "queueRead", !.token = 0, !.synced = answer = "ok"]
                  [] @.kind # "sync" /\ answer = "invalid" /\ @.stage = "call" ->
                        [@ EXCEPT !.stage = "clear", !.token = 0]
                  [] @.kind = "restore" /\ answer = "ok" -> [@ EXCEPT !.stage = "writeBack"]
                  [] OTHER -> Ended(@, answer)]
         /\ UNCHANGED flight

Call(t) ==
    /\ InCall(t)
    /\ \/ \E answer \in {"ok", "invalid", "expired", "conflict"} :
            /\ Handle(task[t].kind, task[t].token, task[t].pallet, answer)
            /\ AfterCall(t, answer)
       \/ \* the answer is lost
          \E answer \in {"ok", "invalid", "expired", "conflict"} :
            /\ Handle(task[t].kind, task[t].token, task[t].pallet, answer)
            /\ AfterCall(t, "network")
       \/ \* the request is lost
          /\ UNCHANGED loaded
          /\ AfterCall(t, "network")
    /\ UNCHANGED <<issued, family, used, ended, clock, store, queue, told, lost>>

\* clearInvalidSession
Clear(t) ==
    /\ At(t, "clear")
    /\ store' = 0
    /\ Done(t)
    /\ UNCHANGED <<server, clock, flight, queue, told, lost>>

\* signIn stores its new session, and restoreSession the one it has read, with the
\* user it was told
WriteBack(t) ==
    /\ At(t, "writeBack")
    /\ Save(task[t].token)
    /\ Done(t)
    /\ UNCHANGED <<server, clock, flight, queue, told, lost>>

-----------------------------------------------------------------------------
(* The offline queue is read and written as a whole.                       *)

\* syncOfflineQueue
List(t) ==
    /\ At(t, "list")
    /\ task' = [task EXCEPT ![t].stage = "next",
                            ![t].todo = {p \in Pallets : queue[p] = "waiting"}]
    /\ UNCHANGED <<server, clock, store, flight, queue, told, lost>>

NextScan(t) ==
    /\ At(t, "next")
    /\ \/ task[t].todo = {} /\ Done(t)
       \/ \E p \in task[t].todo :
            task' = [task EXCEPT ![t].stage = "begin", ![t].pallet = p,
                                 ![t].todo = @ \ {p}]
    /\ UNCHANGED <<server, clock, store, flight, queue, told, lost>>

QueueRead(t) ==
    /\ At(t, "queueRead")
    /\ task' = [task EXCEPT ![t].stage = "queueWrite", ![t].seen = queue]
    /\ UNCHANGED <<server, clock, store, flight, queue, told, lost>>

\* Mutant: enqueue writes its record and not the others.
EnqueuedAlone(seen, p) == [Empty EXCEPT ![p] = "waiting"]

\* enqueue
Enqueued(seen, p) == [seen EXCEPT ![p] = "waiting"]

\* markSynced, markFailed: a record that is gone stays gone
Marked(seen, p, synced) ==
    [seen EXCEPT ![p] = IF @ = "waiting" /\ synced THEN "SYNCED" ELSE @]

QueueWrite(t) ==
    LET p == task[t].pallet IN
    /\ At(t, "queueWrite")
    /\ \/ /\ task[t].kind = "scan"
          /\ queue' = Enqueued(task[t].seen, p)
          /\ told' = told \cup {p}
          /\ Done(t)
       \/ /\ task[t].kind = "sync"
          /\ queue' = Marked(task[t].seen, p, task[t].synced)
          /\ task' = [task EXCEPT ![t] = [Idle EXCEPT !.kind = "sync", !.stage = "next",
                                                      !.todo = task[t].todo]]
          /\ UNCHANGED told
    /\ UNCHANGED <<server, clock, store, flight, lost>>

-----------------------------------------------------------------------------
(* Sign-in and sign-out.                                                   *)

\* signIn: the login, whose answer may be lost, ...
Login(t) ==
    /\ At(t, "login")
    /\ Issue(0)
    /\ \/ task' = [task EXCEPT ![t].stage = "writeBack", ![t].token = issued']
       \/ Done(t)
    /\ UNCHANGED <<used, ended, loaded, clock, store, flight, queue, told, lost>>

LoginFails(t) ==
    /\ At(t, "login")
    /\ Done(t)
    /\ UNCHANGED <<server, clock, store, flight, queue, told, lost>>

\* signOut reads the session, tells the API if it can, and erases the store
SignOutBegin(t) ==
    /\ At(t, "begin") /\ task[t].kind = "signOut"
    /\ task' = [task EXCEPT ![t].stage = IF store = 0 THEN "erase" ELSE "revoke",
                            ![t].token = store]
    /\ UNCHANGED <<server, clock, store, flight, queue, told, lost>>

Revoke(t) ==
    /\ At(t, "revoke")
    /\ \/ End(family[task[t].token], "NATIVE_LOGOUT")
       \/ UNCHANGED ended
    /\ Go(t, "erase")
    /\ UNCHANGED <<issued, family, used, loaded, clock, store, flight, queue, told, lost>>

Erase(t) ==
    /\ At(t, "erase")
    /\ store' = 0
    /\ Done(t)
    /\ UNCHANGED <<server, clock, flight, queue, told, lost>>

\* The app is killed; what the device stores stays.
Kill ==
    /\ \E t \in Tasks : ~At(t, "idle")
    /\ task' = [t \in Tasks |-> Idle]
    /\ flight' = NoFlight
    /\ lost' = lost \cup LostWith(flight)
    /\ UNCHANGED <<server, clock, store, queue, told>>

-----------------------------------------------------------------------------
Next ==
    \/ RevokeAll \/ Tick \/ Kill
    \/ FlightReads \/ FlightAnswered \/ FlightLost \/ FlightEnds
    \/ \E t \in Tasks :
         \/ Start(t) \/ Begin(t) \/ Call(t) \/ Clear(t) \/ WriteBack(t)
         \/ List(t) \/ NextScan(t) \/ QueueRead(t) \/ QueueWrite(t)
         \/ Login(t) \/ LoginFails(t) \/ SignOutBegin(t) \/ Revoke(t) \/ Erase(t)

Spec == Init /\ [][Next]_vars

-----------------------------------------------------------------------------
\* Properties

\* "Only stable invalid/revoked/inactive results clear it": the device loses its
\* session by signing out, or because that very session was ended at the API,
\* and never for a replay as long as no answer of a refresh was lost, however
\* many requests find their token expired at once.
SessionKept ==
    [][(store # 0 /\ store' = 0) =>
          \/ \E t \in Tasks : At(t, "erase") /\ At(t, "idle")'
          \/ ended[family[store]] \in {"NATIVE_LOGOUT", "ADMIN_REVOKE_ALL"}
          \/ ended[family[store]] = "REFRESH_REPLAY" /\ family[store] \in lost]_vars

\* A scan whose user was told that it is queued is in the queue, whatever is
\* scanned or synchronised after it and whenever the app is killed; and what the
\* queue calls SYNCED has been loaded.
ScansKept ==
    /\ \A p \in told : queue[p] # "absent"
    /\ \A p \in Pallets : queue[p] = "SYNCED" => p \in loaded

=============================================================================
