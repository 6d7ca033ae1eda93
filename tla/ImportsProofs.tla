---------------------------- MODULE ImportsProofs ----------------------------
(***************************************************************************)
(* What holds of Imports for every number of requests, imports, workbooks  *)
(* and acceptances: the version's trust is made of reviews, and nothing    *)
(* that was reviewed, paid or labelled goes with a parse or a deletion.    *)
(***************************************************************************)
EXTENDS Imports, TLAPS

\* A request that is not idle is about an import.
HasImport == \A t \in Tx : pc[t] # "idle" => Mine(t) \in Imports

\* Between the steps of a deletion its import stays live and unreviewed, and
\* pay that comes in is noticed: none had been seen.
Deleting == \A t \in Tx : pc[t] = "delete" =>
    /\ row[Mine(t)] = "live" /\ review[Mine(t)] = "none"
    /\ "paid" \notin mem[t].use

\* An import is deleted by one request at a time.
OneDeletion == \A t, u \in Tx :
    pc[t] = "delete" /\ pc[u] = "delete" /\ Mine(t) = Mine(u) => t = u

\* Pallets and pay need a container.
UsedIsThere == \A i \in Imports : use[i] # {} => source[i] # "none"

IInv == /\ TypeOK /\ HasImport /\ Deleting /\ OneDeletion /\ UsedIsThere
        /\ TrustIsEarned /\ ReviewedStays

-----------------------------------------------------------------------------
\* Where a request goes

\* Going on keeps the types, and the import unless the request has ended.
LEMMA GotoMoves ==
    ASSUME TypeOK, NEW t \in Tx, NEW s \in Steps, Goto(t, s)
    PROVE  /\ pc' \in [Tx -> Steps] /\ mem' \in [Tx -> Memory]
           /\ pc'[t] = s
           /\ s # "idle" => mem'[t].import = mem[t].import
           /\ \A u \in Tx : u # t => pc'[u] = pc[u] /\ mem'[u] = mem[u]
<1>1. mem[t] \in Memory /\ Idle \in Memory
  BY DEF TypeOK, Memory, Idle, Statuses, Uses, Matches, Trusts
<1>2. [Idle EXCEPT !.import = Mine(t), !.status = mem[t].status] \in Memory
  BY <1>1 DEF Mine, Idle, Memory
<1>3. [Idle EXCEPT !.import = Mine(t)] \in Memory
  BY <1>1 DEF Mine, Idle, Memory
<1>4. Kept(t, s) \in Memory
  BY <1>1, <1>2, <1>3 DEF Kept
<1>5. s # "idle" => Kept(t, s).import = mem[t].import
  BY <1>1 DEF Kept, Idle, Mine, Memory
<1> QED
  BY <1>4, <1>5 DEF Goto, TypeOK

\* The steps of a parse that store a status at most.
Quiet(t) ==
    \/ \E i \in Imports : ParseRead(t, i)
    \/ ParseStart(t) \/ WorkerFails(t) \/ Select(t)
    \/ SourceChanged(t) \/ NoMatch(t) \/ ExecutionFailed(t) \/ Drift(t)
    \/ CommitFails(t) \/ Restore(t) \/ MarkError(t) \/ Lost(t)

\* What a step does to the requests: one of them moves, and not to "delete".
Moves(t) ==
    /\ pc' \in [Tx -> Steps] /\ mem' \in [Tx -> Memory]
    /\ pc'[t] # "delete"
    /\ pc'[t] # "idle" => mem'[t].import \in Imports
    /\ \A u \in Tx : u # t => pc'[u] = pc[u] /\ mem'[u] = mem[u]

LEMMA GotoIsMove ==
    ASSUME TypeOK, HasImport, NEW t \in Tx, NEW s \in Steps, pc[t] # "idle",
           s # "delete", Goto(t, s)
    PROVE  Moves(t)
  BY GotoMoves DEF Moves, HasImport, Mine

\* A status that is written is one of the statuses.
LEMMA SetType ==
    ASSUME TypeOK, NEW i, NEW s \in Statuses, Set(i, s)
    PROVE  status' \in [Imports -> Statuses]
  BY DEF TypeOK, Set

\* A quiet step moves its request and keeps everything but statuses.
LEMMA QuietMoves ==
    ASSUME IInv, NEW t \in Tx, Quiet(t)
    PROVE  /\ UNCHANGED <<row, disk, results, profiles>>
           /\ status' \in [Imports -> Statuses]
           /\ Moves(t)
<1> USE DEF IInv
<1> DEFINE Unstored == UNCHANGED <<row, disk, results, profiles>>
<1> DEFINE Typed == status' \in [Imports -> Statuses]
<1>0. UNCHANGED status => Typed
  BY DEF TypeOK
<1>00. mem[t].status \in Statuses /\ {"idle", "work", "persist", "restore", "markError"} \subseteq Steps
       /\ {"ERROR", "PARSING", "PARSED", "REVIEW_REQUIRED"} \subseteq Statuses
  BY DEF TypeOK, Memory, Steps, Statuses
<1>1. ASSUME NEW i \in Imports, ParseRead(t, i) PROVE Unstored /\ Typed /\ Moves(t)
  <2>1. Unstored
    BY <1>1 DEF ParseRead
  <2>2. CASE FileMissing(i)
    <3>1. Set(i, "ERROR") /\ UNCHANGED <<pc, mem>> /\ pc[t] = "idle"
      BY <1>1, <2>2 DEF ParseRead, requests
    <3>2. Typed
      BY <3>1, <1>00, SetType
    <3>3. Moves(t)
      BY <3>1 DEF Moves, TypeOK
    <3> QED
      BY <2>1, <3>2, <3>3
  <2>3. CASE ~FileMissing(i)
    <3> DEFINE m == [Idle EXCEPT !.import = i, !.status = Restored(status[i])]
    <3>1. pc' = [pc EXCEPT ![t] = "start"] /\ mem' = [mem EXCEPT ![t] = m] /\ UNCHANGED status
      BY <1>1, <2>3 DEF ParseRead
    <3>2. Restored(status[i]) \in Statuses
      BY DEF Restored, TypeOK, Statuses
    <3>3. m \in Memory /\ m.import = i
      BY <3>2 DEF Memory, Idle, Statuses, Uses, Matches, Trusts
    <3>4. Moves(t)
      BY <3>1, <3>3 DEF Moves, TypeOK, Steps
    <3> QED
      BY <2>1, <3>1, <3>4, <1>0
  <2> QED
    BY <2>2, <2>3
<1>2. CASE ParseStart(t)
  BY <1>2, <1>00, GotoIsMove, SetType DEF ParseStart, SetTo
<1>3. CASE WorkerFails(t)
  BY <1>3, <1>00, GotoIsMove, SetType DEF WorkerFails, SetTo
<1>4. CASE Select(t)
  <2>1. Unstored /\ pc[t] = "work"
    BY <1>4 DEF Select
  <2>2. CASE Goto(t, "idle") /\ (UNCHANGED status \/ SetTo(t, "PARSED"))
    BY <2>1, <2>2, <1>0, <1>00, GotoIsMove, SetType DEF SetTo
  <2>3. CASE Goto(t, "persist") /\ UNCHANGED status
    BY <2>1, <2>3, <1>0, <1>00, GotoIsMove
  <2>4. CASE /\ pc' = [pc EXCEPT ![t] = "match"] /\ UNCHANGED status
             /\ \/ \E m \in {"noMatch", "drift", "failed"} : mem' = [mem EXCEPT ![t].match = m]
                \/ \E m \in {"blocked", "clean"} :
                      mem' = [mem EXCEPT ![t].match = m, ![t].trust = version.trust,
                                         ![t].current = TRUE]
    <3>1. PICK m \in Matches, g \in Trusts, c \in BOOLEAN :
             mem' = [mem EXCEPT ![t] = [@ EXCEPT !.match = m, !.trust = g, !.current = c]]
      <4>1. CASE \E m \in {"noMatch", "drift", "failed"} : mem' = [mem EXCEPT ![t].match = m]
        <5>1. PICK m \in {"noMatch", "drift", "failed"} : mem' = [mem EXCEPT ![t].match = m]
          BY <4>1
        <5>2. mem' = [mem EXCEPT ![t] = [@ EXCEPT !.match = m, !.trust = mem[t].trust,
                                                  !.current = mem[t].current]]
          BY <5>1 DEF TypeOK
        <5>3. mem[t].trust \in Trusts /\ mem[t].current \in BOOLEAN /\ m \in Matches
          BY DEF TypeOK, Memory, Matches
        <5> QED
          BY <5>2, <5>3
      <4>2. CASE \E m \in {"blocked", "clean"} :
                    mem' = [mem EXCEPT ![t].match = m, ![t].trust = version.trust,
                                       ![t].current = TRUE]
        <5>1. PICK m \in {"blocked", "clean"} :
                    mem' = [mem EXCEPT ![t].match = m, ![t].trust = version.trust,
                                       ![t].current = TRUE]
          BY <4>2
        <5>2. mem' = [mem EXCEPT ![t] = [@ EXCEPT !.match = m, !.trust = version.trust,
                                                  !.current = TRUE]]
          BY <5>1 DEF TypeOK
        <5> QED
          BY <5>2 DEF TypeOK, Matches, Versions
      <4> QED
        BY <2>4, <4>1, <4>2
    <3>2. Mine(t) \in Imports
      BY <2>1 DEF HasImport
    <3>3. [mem[t] EXCEPT !.match = m, !.trust = g, !.current = c] \in Memory
      BY DEF TypeOK, Memory
    <3>4. [mem[t] EXCEPT !.match = m, !.trust = g, !.current = c].import = mem[t].import
      BY DEF TypeOK, Memory
    <3>5. Moves(t)
      BY <2>4, <3>1, <3>2, <3>3, <3>4 DEF Moves, TypeOK, Steps, Mine
    <3> QED
      BY <2>1, <2>4, <3>5, <1>0
  <2> QED
    BY <1>4, <2>2, <2>3, <2>4 DEF Select
<1>5. CASE SourceChanged(t)
  BY <1>5, <1>0, <1>00, GotoIsMove DEF SourceChanged, imports, results, profiles
<1>6. CASE NoMatch(t)
  BY <1>6, <1>0, <1>00, GotoIsMove DEF NoMatch, Matched, imports, results, profiles
<1>7. CASE ExecutionFailed(t)
  BY <1>7, <1>00, GotoIsMove, SetType DEF ExecutionFailed, Matched, SetTo
<1>8. CASE Drift(t)
  BY <1>8, <1>00, GotoIsMove, SetType DEF Drift, SetTo
<1>9. CASE CommitFails(t)
  BY <1>9, <1>0, <1>00, GotoIsMove DEF CommitFails, imports, results, profiles
<1>10. CASE Restore(t)
  BY <1>10, <1>00, GotoIsMove, SetType DEF Restore, SetTo
<1>11. CASE MarkError(t)
  BY <1>11, <1>00, GotoIsMove, SetType DEF MarkError, SetTo
<1>12. CASE Lost(t)
  BY <1>12, <1>0, <1>00, GotoIsMove, ImportsAssumption DEF Lost, imports, results, profiles
<1> QED
  BY <1>1, <1>2, <1>3, <1>4, <1>5, <1>6, <1>7, <1>8, <1>9, <1>10, <1>11, <1>12 DEF Quiet

\* What a move and another's storing leave of the requests' invariants: no one
\* else's import is deleted or reviewed while its deletion is under way.
LEMMA RequestsStep ==
    ASSUME IInv, NEW t \in Tx, Moves(t),
           \A u \in Tx : u # t /\ pc[u] = "delete" =>
               row'[Mine(u)] = row[Mine(u)] /\ review'[Mine(u)] = review[Mine(u)]
    PROVE  (HasImport /\ Deleting /\ OneDeletion)'
<1>1. HasImport'
  BY DEF IInv, Moves, HasImport, Mine
<1>2. Deleting'
  BY DEF IInv, Moves, Deleting, Mine
<1>3. OneDeletion'
  BY DEF IInv, Moves, OneDeletion, Mine
<1> QED
  BY <1>1, <1>2, <1>3

\* The same for a step after which each request is where it was, with the
\* import and the uses it had.
LEMMA RequestsStay ==
    ASSUME IInv, UNCHANGED pc,
           \A u \in Tx : mem'[u].import = mem[u].import /\ mem'[u].use = mem[u].use,
           \A u \in Tx : pc[u] = "delete" =>
               row'[Mine(u)] = row[Mine(u)] /\ review'[Mine(u)] = review[Mine(u)]
    PROVE  (HasImport /\ Deleting /\ OneDeletion)'
  BY DEF IInv, HasImport, Deleting, OneDeletion, Mine

\* A change of the revision leaves the import and the uses.
LEMMA RevisionChanges ==
    ASSUME TypeOK, NextRevision
    PROVE  /\ mem' \in [Tx -> Memory]
           /\ \A u \in Tx : mem'[u].import = mem[u].import /\ mem'[u].use = mem[u].use
  BY DEF TypeOK, NextRevision, Memory

\* A decision keeps the type of the version, and trust is a full streak.
LEMMA AcceptedVersion ==
    ASSUME TypeOK, TrustIsEarned, NEW material \in BOOLEAN
    PROVE  /\ Accepted(material) \in Versions
           /\ Accepted(material).streak = IF material THEN 0 ELSE LeastOf(version.streak + 1, Needed)
           /\ Accepted(material).trust = "TRUSTED" <=> Accepted(material).streak = Needed
<1>1. version.lifecycle \in Lifecycles /\ version.trust \in Trusts
      /\ version.streak \in 0..Needed /\ Needed \in Nat \ {0}
  BY ImportsAssumption DEF TypeOK, Versions
<1>2. Streak(material) \in 0..Needed
  BY <1>1 DEF Streak, LeastOf
<1>3. /\ Accepted(material).lifecycle = version.lifecycle
      /\ Accepted(material).streak = Streak(material)
      /\ Accepted(material).trust = IF material THEN "REVIEW_REQUIRED"
                                    ELSE IF Promoted(material) THEN "TRUSTED" ELSE version.trust
  BY DEF Accepted, TypeOK, Versions
<1>4. Accepted(material).trust \in Trusts
  BY <1>1, <1>3 DEF Trusts
<1>5. Accepted(material) \in Versions
  BY <1>1, <1>2, <1>3, <1>4 DEF Accepted, TypeOK, Versions, Trusts
<1>6. Accepted(material).trust = "TRUSTED" <=> Streak(material) = Needed
  <2>1. CASE material
    BY <2>1, <1>1, <1>3 DEF Streak
  <2>2. CASE ~material
    BY <2>2, <1>1, <1>3 DEF Streak, LeastOf, Promoted, TrustIsEarned, Trusts
  <2> QED
    BY <2>1, <2>2
<1> QED
  BY <1>3, <1>5, <1>6 DEF Streak

-----------------------------------------------------------------------------
\* Every step keeps the invariant

\* If a step stores nothing but statuses of a parse, its request moves alone.
LEMMA QuietStep ==
    ASSUME IInv, NEW t \in Tx, Quiet(t)
    PROVE  IInv'
<1>1. UNCHANGED <<row, disk, source, use, review, version, evidence>>
      /\ status' \in [Imports -> Statuses] /\ Moves(t)
  BY QuietMoves DEF results, profiles
<1>2. TypeOK'
  BY <1>1 DEF IInv, TypeOK, Moves
<1>3. (HasImport /\ Deleting /\ OneDeletion)'
  BY <1>1, RequestsStep
<1>4. (UsedIsThere /\ TrustIsEarned /\ ReviewedStays)'
  BY <1>1 DEF IInv, UsedIsThere, TrustIsEarned, ReviewedStays, Live
<1> QED
  BY <1>2, <1>3, <1>4 DEF IInv

\* The import of a parse that stages or commits has no deletion under way.
LEMMA StageStep ==
    ASSUME IInv, NEW t \in Tx, Stage(t)
    PROVE  IInv'
<1> DEFINE i == Mine(t)
<1>0. {"idle", "restore"} \subseteq Steps /\ "REVIEW_REQUIRED" \in Statuses
  BY DEF Steps, Statuses
<1>1. pc[t] = "match" /\ i \in Imports /\ i \in Live /\ Unlocked(i)
  BY DEF Stage, Matched, IInv, HasImport
<1>2. UNCHANGED <<row, disk, source, use, version, evidence>>
  BY DEF Stage, results
<1>3. Moves(t)
  BY <1>0, <1>1, GotoIsMove DEF Stage, IInv
<1>4. status' \in [Imports -> Statuses]
  <2>1. UNCHANGED status \/ SetTo(t, "REVIEW_REQUIRED")
    BY DEF Stage
  <2> QED
    BY <2>1, <1>0, SetType DEF IInv, TypeOK, SetTo
<1>5. UNCHANGED review \/ (review[i] = "none" /\ review' = [review EXCEPT ![i] = "PENDING"])
  BY DEF Stage
<1>6. TypeOK'
  BY <1>1, <1>2, <1>3, <1>4, <1>5 DEF IInv, TypeOK, Moves
<1>7. (HasImport /\ Deleting /\ OneDeletion)'
  <2>1. \A u \in Tx : pc[u] = "delete" => review'[Mine(u)] = review[Mine(u)]
    BY <1>1, <1>5 DEF Unlocked, IInv, TypeOK, HasImport, Mine
  <2> QED
    BY <1>2, <1>3, <2>1, RequestsStep
<1>8. (UsedIsThere /\ TrustIsEarned /\ ReviewedStays)'
  BY <1>1, <1>2, <1>5 DEF IInv, TypeOK, UsedIsThere, TrustIsEarned, ReviewedStays, Live
<1> QED
  BY <1>6, <1>7, <1>8 DEF IInv

LEMMA CommitStep ==
    ASSUME IInv, NEW t \in Tx, CommitTrusted(t)
    PROVE  IInv'
<1> DEFINE i == Mine(t)
<1>0. {"idle", "restore", "markError"} \subseteq Steps /\ {"PARSED", "REVIEW_REQUIRED"} \subseteq Statuses
  BY DEF Steps, Statuses
<1>1. pc[t] = "match" /\ i \in Imports /\ i \in Live /\ Unlocked(i)
  BY DEF CommitTrusted, Matched, IInv, HasImport
<1>2. UNCHANGED <<row, disk, version, evidence>>
  BY DEF CommitTrusted
<1>3. Moves(t)
  BY <1>0, <1>1, GotoIsMove DEF CommitTrusted, IInv
<1>4. status' \in [Imports -> Statuses]
  <2>1. UNCHANGED status \/ SetTo(t, "PARSED") \/ SetTo(t, "REVIEW_REQUIRED")
    BY DEF CommitTrusted
  <2> QED
    BY <2>1, <1>0, SetType DEF IInv, TypeOK, SetTo
<1>5. UNCHANGED review \/ (review[i] = "none" /\ review' = [review EXCEPT ![i] = "PENDING"])
  BY DEF CommitTrusted
<1>6. UNCHANGED <<source, use>> \/ (source[i] = "none" /\ Create(i, "PROFILE"))
  BY DEF CommitTrusted, results
<1>7. TypeOK'
  BY <1>1, <1>2, <1>3, <1>4, <1>5, <1>6 DEF IInv, TypeOK, Moves, Create
<1>8. (HasImport /\ Deleting /\ OneDeletion)'
  <2>1. \A u \in Tx : pc[u] = "delete" => review'[Mine(u)] = review[Mine(u)]
    BY <1>1, <1>5 DEF Unlocked, IInv, TypeOK, HasImport, Mine
  <2> QED
    BY <1>2, <1>3, <2>1, RequestsStep
<1>9. UsedIsThere'
  BY <1>6 DEF IInv, TypeOK, UsedIsThere, Create
<1>10. TrustIsEarned'
  BY <1>2 DEF IInv, TrustIsEarned
<1>11. ReviewedStays'
  BY <1>1, <1>2, <1>5, <1>6 DEF IInv, TypeOK, ReviewedStays, Live, Create
<1> QED
  BY <1>7, <1>8, <1>9, <1>10, <1>11 DEF IInv

\* A parse rebuilds a container that nothing refers to.
LEMMA PersistStep ==
    ASSUME IInv, NEW t \in Tx, Persist(t)
    PROVE  IInv'
<1> DEFINE i == Mine(t)
<1>0. {"idle", "restore", "markError"} \subseteq Steps /\ {"ERROR", "PARSED"} \subseteq Statuses
  BY DEF Steps, Statuses
<1>1. pc[t] = "persist" /\ i \in Imports
  BY DEF Persist, IInv, HasImport
<1>2. UNCHANGED <<row, disk, review, version, evidence>>
  BY DEF Persist, profiles
<1>3. Moves(t)
  BY <1>0, <1>1, GotoIsMove DEF Persist, IInv
<1>4. status' \in [Imports -> Statuses]
  <2>1. UNCHANGED status \/ Set(i, "ERROR") \/ Set(i, "PARSED")
    BY DEF Persist
  <2> QED
    BY <2>1, <1>0, SetType DEF IInv, TypeOK
<1>5. \/ UNCHANGED <<source, use>>
      \/ ~Referred(i) /\ (Create(i, "none") \/ Create(i, "BUILT_IN"))
  BY DEF Persist, results
<1>6. TypeOK'
  BY <1>1, <1>2, <1>3, <1>4, <1>5 DEF IInv, TypeOK, Moves, Create
<1>7. (HasImport /\ Deleting /\ OneDeletion)'
  BY <1>2, <1>3, RequestsStep
<1>8. UsedIsThere'
  BY <1>5 DEF IInv, TypeOK, UsedIsThere, Create
<1>9. TrustIsEarned'
  BY <1>2 DEF IInv, TrustIsEarned
<1>10. ReviewedStays'
  BY <1>1, <1>2, <1>5 DEF IInv, TypeOK, ReviewedStays, Live, Create, Referred
<1> QED
  BY <1>6, <1>7, <1>8, <1>9, <1>10 DEF IInv

\* A deletion begins on a live import without a review, a payment or another
\* deletion.
LEMMA DeleteCheckStep ==
    ASSUME IInv, NEW t \in Tx, NEW i \in Imports, DeleteCheck(t, i)
    PROVE  IInv'
<1> DEFINE m == [Idle EXCEPT !.import = i, !.use = use[i]]
<1>1. /\ pc[t] = "idle" /\ row[i] = "live" /\ Unlocked(i)
      /\ review[i] = "none" /\ "paid" \notin use[i]
      /\ pc' = [pc EXCEPT ![t] = "delete"] /\ mem' = [mem EXCEPT ![t] = m]
  BY DEF DeleteCheck, LearnedFrom, InUse, Live
<1>2. UNCHANGED <<row, status, source, use, review, version, evidence>> /\ disk' \subseteq disk
  BY DEF DeleteCheck, CleanUp, results, profiles
<1>3. m \in Memory /\ m.import = i /\ m.use = use[i]
  BY DEF IInv, TypeOK, Memory, Idle, Statuses, Matches, Trusts
<1>4. TypeOK'
  BY <1>1, <1>2, <1>3 DEF IInv, TypeOK, Steps
<1>5. HasImport'
  BY <1>1, <1>3 DEF IInv, TypeOK, HasImport, Mine
<1>6. Deleting'
  BY <1>1, <1>2, <1>3 DEF IInv, TypeOK, Deleting, Mine
<1>7. OneDeletion'
  BY <1>1, <1>3 DEF IInv, TypeOK, OneDeletion, Unlocked, Mine
<1>8. (UsedIsThere /\ TrustIsEarned /\ ReviewedStays)'
  BY <1>2 DEF IInv, UsedIsThere, TrustIsEarned, ReviewedStays, Live
<1> QED
  BY <1>4, <1>5, <1>6, <1>7, <1>8 DEF IInv

LEMMA DeleteCommitStep ==
    ASSUME IInv, NEW t \in Tx, DeleteCommit(t)
    PROVE  IInv'
<1> DEFINE i == Mine(t)
<1>1. pc[t] = "delete" /\ i \in Imports /\ review[i] = "none"
  BY DEF DeleteCommit, IInv, HasImport, Deleting
<1>2. UNCHANGED <<disk, review, version, evidence>>
  BY DEF DeleteCommit, profiles
<1>3. Moves(t)
  BY <1>1, GotoIsMove DEF DeleteCommit, IInv, Steps
<1>4. \/ UNCHANGED <<row, status, source, use>>
      \/ /\ row' = [row EXCEPT ![i] = "deleted"]
         /\ status' = [status EXCEPT ![i] = "NOT_PARSED"]
         /\ Create(i, "none")
  BY DEF DeleteCommit, results
<1>5. TypeOK'
  BY <1>1, <1>2, <1>3, <1>4 DEF IInv, TypeOK, Moves, Create, Statuses
<1>6. (HasImport /\ Deleting /\ OneDeletion)'
  <2>1. \A u \in Tx : u # t /\ pc[u] = "delete" => Mine(u) # i
    BY <1>1 DEF IInv, OneDeletion
  <2>2. \A u \in Tx : u # t /\ pc[u] = "delete" => row'[Mine(u)] = row[Mine(u)]
    BY <2>1, <1>4 DEF IInv, TypeOK, HasImport
  <2> QED
    BY <1>2, <1>3, <2>2, RequestsStep
<1>7. UsedIsThere'
  BY <1>4 DEF IInv, TypeOK, UsedIsThere, Create
<1>8. TrustIsEarned'
  BY <1>2 DEF IInv, TrustIsEarned
<1>9. ReviewedStays'
  BY <1>1, <1>2, <1>4 DEF IInv, TypeOK, ReviewedStays, Live, Create
<1> QED
  BY <1>5, <1>6, <1>7, <1>8, <1>9 DEF IInv

\* An upload changes the row of an import no request has.
LEMMA UploadStep ==
    ASSUME IInv, NEW i \in Imports, Upload(i)
    PROVE  IInv'
<1>1. /\ row[i] = "absent" /\ row' = [row EXCEPT ![i] = "live"]
      /\ disk' = disk \cup {FileOf[i]}
      /\ UNCHANGED <<status, source, use, review, version, evidence, pc, mem>>
  BY DEF Upload, results, profiles, requests
<1>2. TypeOK'
  <2>1. FileOf[i] \in Files
    BY ImportsAssumption
  <2> QED
    BY <1>1, <2>1 DEF IInv, TypeOK
<1>3. (HasImport /\ Deleting /\ OneDeletion)'
  BY <1>1 DEF IInv, TypeOK, HasImport, Deleting, OneDeletion, Mine
<1>4. (UsedIsThere /\ TrustIsEarned /\ ReviewedStays)'
  BY <1>1 DEF IInv, TypeOK, UsedIsThere, TrustIsEarned, ReviewedStays, Live
<1> QED
  BY <1>2, <1>3, <1>4 DEF IInv

LEMMA UseStep ==
    ASSUME IInv, NEW i \in Imports, NEW u \in Uses, Use(i, u)
    PROVE  IInv'
<1>1. /\ source[i] # "none" /\ use' = [use EXCEPT ![i] = @ \cup {u}]
      /\ UNCHANGED <<row, status, disk, source, review, version, evidence, pc, mem>>
  BY DEF Use, Containers, imports, profiles, requests
<1>2. TypeOK'
  BY <1>1 DEF IInv, TypeOK
<1>3. (HasImport /\ Deleting /\ OneDeletion)'
  BY <1>1 DEF IInv, HasImport, Deleting, OneDeletion, Mine
<1>4. (UsedIsThere /\ TrustIsEarned /\ ReviewedStays)'
  BY <1>1 DEF IInv, TypeOK, UsedIsThere, TrustIsEarned, ReviewedStays, Live
<1> QED
  BY <1>2, <1>3, <1>4 DEF IInv

\* A review is accepted where no container has the number, so nothing refers
\* to the one that is made.
LEMMA AcceptStep ==
    ASSUME IInv, NEW i \in Imports, NEW decision \in {"ACCEPTED", "CORRECTED"},
           NEW material \in BOOLEAN, Accept(i, decision, material)
    PROVE  IInv'
<1>1. /\ review[i] = "PENDING" /\ Unlocked(i) /\ Create(i, "PROFILE")
      /\ version' = Accepted(material) /\ Set(i, "PARSED")
      /\ evidence' = IF material THEN 0 ELSE evidence + 1
      /\ review' = [review EXCEPT ![i] = decision]
      /\ UNCHANGED <<row, disk, pc>>
  BY DEF Accept
<1>2. mem' \in [Tx -> Memory]
      /\ \A u \in Tx : mem'[u].import = mem[u].import /\ mem'[u].use = mem[u].use
  BY RevisionChanges DEF Accept, IInv, TypeOK
<1>3. status' \in [Imports -> Statuses]
  BY <1>1, SetType DEF IInv, Statuses
<1>4. Accepted(material) \in Versions
  BY AcceptedVersion DEF IInv
<1>5. TypeOK'
  <2>1. evidence' \in Nat
    BY <1>1 DEF IInv, TypeOK
  <2> QED
    BY <1>1, <1>2, <1>3, <1>4, <2>1 DEF IInv, TypeOK, Create
<1>6. (HasImport /\ Deleting /\ OneDeletion)'
  <2>1. \A u \in Tx : pc[u] = "delete" => Mine(u) # i
    BY <1>1 DEF Unlocked, Mine
  <2> QED
    BY <1>1, <1>2, <2>1, RequestsStay DEF IInv, TypeOK
<1>7. UsedIsThere'
  BY <1>1 DEF IInv, TypeOK, UsedIsThere, Create
<1>8. TrustIsEarned'
  <2>1. version.streak \in Nat /\ Needed \in Nat /\ evidence \in Nat
    BY ImportsAssumption DEF IInv, TypeOK, Versions
  <2>2. Accepted(material).streak <= evidence'
    BY <1>1, <2>1, AcceptedVersion DEF IInv, TrustIsEarned, LeastOf
  <2> QED
    BY <1>1, <2>2, AcceptedVersion DEF IInv, TrustIsEarned
<1>9. ReviewedStays'
  BY <1>1 DEF IInv, TypeOK, ReviewedStays, Live, Create
<1> QED
  BY <1>5, <1>6, <1>7, <1>8, <1>9 DEF IInv

\* A version that has lost its streak is not trusted.
LEMMA Demoted ==
    ASSUME TypeOK, version' = [version EXCEPT !.trust = "REVIEW_REQUIRED", !.streak = 0]
    PROVE  /\ version' \in Versions
           /\ version'.streak = 0
           /\ version'.trust = "TRUSTED" <=> version'.streak = Needed
<1>1. version \in Versions /\ 0 \in 0..Needed /\ 0 # Needed
  BY ImportsAssumption DEF TypeOK
<1> QED
  BY <1>1 DEF Versions, Trusts

LEMMA RejectStep ==
    ASSUME IInv, NEW i \in Imports, Reject(i)
    PROVE  IInv'
<1>1. /\ review[i] = "PENDING" /\ Unlocked(i) /\ evidence' = 0 /\ Set(i, "ERROR")
      /\ review' = [review EXCEPT ![i] = "REJECTED"]
      /\ version' = [version EXCEPT !.trust = "REVIEW_REQUIRED", !.streak = 0]
      /\ UNCHANGED <<row, disk, source, use, pc, mem>>
  BY DEF Reject, results, requests
<1>2. status' \in [Imports -> Statuses]
  BY <1>1, SetType DEF IInv, Statuses
<1>3. TypeOK'
  BY <1>1, <1>2, Demoted DEF IInv, TypeOK
<1>4. (HasImport /\ Deleting /\ OneDeletion)'
  <2>1. \A u \in Tx : pc[u] = "delete" => Mine(u) # i
    BY <1>1 DEF Unlocked, Mine
  <2> QED
    BY <1>1, <2>1, RequestsStay DEF IInv, TypeOK
<1>5. TrustIsEarned'
  BY <1>1, Demoted DEF IInv, TrustIsEarned
<1>6. (UsedIsThere /\ ReviewedStays)'
  BY <1>1 DEF IInv, TypeOK, UsedIsThere, ReviewedStays, Live
<1> QED
  BY <1>3, <1>4, <1>5, <1>6 DEF IInv

LEMMA RevokeStep ==
    ASSUME IInv, NEW i \in Imports, Revoke(i)
    PROVE  IInv'
<1>1. /\ version' = [version EXCEPT !.trust = "REVIEW_REQUIRED", !.streak = 0]
      /\ NextRevision
      /\ UNCHANGED <<row, status, disk, source, use, review, evidence, pc>>
  BY DEF Revoke, imports, results
<1>2. TypeOK'
  BY <1>1, Demoted, RevisionChanges DEF IInv, TypeOK
<1>3. (HasImport /\ Deleting /\ OneDeletion)'
  BY <1>1, RevisionChanges, RequestsStay DEF IInv
<1>4. TrustIsEarned'
  BY <1>1, Demoted DEF IInv, TrustIsEarned, TypeOK
<1>5. (UsedIsThere /\ ReviewedStays)'
  BY <1>1 DEF IInv, UsedIsThere, ReviewedStays, Live
<1> QED
  BY <1>2, <1>3, <1>4, <1>5 DEF IInv

LEMMA GovernStep ==
    ASSUME IInv, Govern
    PROVE  IInv'
<1>1. /\ NextRevision
      /\ UNCHANGED <<row, status, disk, source, use, review, evidence, pc>>
  BY DEF Govern, imports, results
<1>2. /\ version' \in Versions
      /\ version'.streak = version.streak /\ version'.trust = version.trust
  BY DEF Govern, Transition, IInv, TypeOK, Versions, Lifecycles
<1>3. TypeOK'
  BY <1>1, <1>2, RevisionChanges DEF IInv, TypeOK
<1>4. (HasImport /\ Deleting /\ OneDeletion)'
  BY <1>1, RevisionChanges, RequestsStay DEF IInv
<1>5. TrustIsEarned'
  BY <1>1, <1>2 DEF IInv, TrustIsEarned
<1>6. (UsedIsThere /\ ReviewedStays)'
  BY <1>1 DEF IInv, UsedIsThere, ReviewedStays, Live
<1> QED
  BY <1>3, <1>4, <1>5, <1>6 DEF IInv

LEMMA IInvInit ==
    ASSUME Init
    PROVE  IInv
<1>1. PICK n \in Earlier : evidence = n /\
          version = [lifecycle |-> "ACTIVE", trust |-> "REVIEW_REQUIRED", streak |-> n]
  BY DEF Init
<1>2. n \in 0..Needed /\ n # Needed /\ Needed \in Nat \ {0}
  BY ImportsAssumption
<1>3. Idle \in Memory
  BY DEF Idle, Memory, Statuses, Matches, Trusts
<1>4. TypeOK
  BY <1>1, <1>2, <1>3 DEF Init, TypeOK, Statuses, Steps, Versions, Lifecycles, Trusts
<1>5. TrustIsEarned
  BY <1>1, <1>2 DEF TrustIsEarned
<1>6. HasImport /\ Deleting /\ OneDeletion /\ UsedIsThere /\ ReviewedStays
  BY DEF Init, HasImport, Deleting, OneDeletion, UsedIsThere, ReviewedStays
<1> QED
  BY <1>4, <1>5, <1>6 DEF IInv

LEMMA IInvNext ==
    ASSUME IInv, [Next]_vars
    PROVE  IInv'
<1>1. ASSUME NEW t \in Tx, Parse(t) PROVE IInv'
  BY <1>1, QuietStep, StageStep, CommitStep, PersistStep DEF Parse, Quiet
<1>2. ASSUME NEW t \in Tx, Delete(t) PROVE IInv'
  BY <1>2, DeleteCheckStep, DeleteCommitStep DEF Delete
<1>3. CASE Decide
  BY <1>3, AcceptStep, RejectStep, RevokeStep DEF Decide
<1>4. CASE Govern
  BY <1>4, GovernStep
<1>5. CASE Others
  BY <1>5, UploadStep, UseStep DEF Others
<1>6. CASE UNCHANGED vars
  BY <1>6 DEF vars, imports, results, profiles, requests, IInv, TypeOK, HasImport, Deleting,
     OneDeletion, UsedIsThere, TrustIsEarned, ReviewedStays, Mine, Live
<1> QED
  BY <1>1, <1>2, <1>3, <1>4, <1>5, <1>6 DEF Next

-----------------------------------------------------------------------------
\* Theorems

LEMMA Invariance == Spec => []IInv
<1>1. Init => IInv
  BY IInvInit
<1>2. IInv /\ [Next]_vars => IInv'
  BY IInvNext
<1> QED
  BY <1>1, <1>2, PTL DEF Spec

\* The types of everything the imports, reviews and requests keep.
THEOREM TypeCorrect == Spec => []TypeOK
<1>1. IInv => TypeOK
  BY DEF IInv
<1> QED
  BY <1>1, Invariance, PTL

\* A version is trusted exactly after Needed acceptances in a row, and the
\* streak never exceeds the acceptances since the last material correction or
\* rejection, whatever order the reviews are decided in.
THEOREM TrustEarned == Spec => []TrustIsEarned
<1>1. IInv => TrustIsEarned
  BY DEF IInv
<1> QED
  BY <1>1, Invariance, PTL

\* An import that was learned from is never deleted, and the container of an
\* accepted review is never rebuilt.
THEOREM ReviewsKept == Spec => []ReviewedStays
<1>1. IInv => ReviewedStays
  BY DEF IInv
<1> QED
  BY <1>1, Invariance, PTL

\* A profile's container comes from a decision, or from the commit of a version
\* that is active and trusted at that moment.
LEMMA CommitIsTrusted ==
    ASSUME IInv, [Next]_vars, NEW i \in Imports,
           source[i] # "PROFILE", source'[i] = "PROFILE"
    PROVE  \/ review[i] = "PENDING" /\ review'[i] \in {"ACCEPTED", "CORRECTED"}
           \/ version.lifecycle = "ACTIVE" /\ version.trust = "TRUSTED"
<1> SUFFICES ASSUME source' # source
             PROVE  \/ review[i] = "PENDING" /\ review'[i] \in {"ACCEPTED", "CORRECTED"}
                    \/ version.lifecycle = "ACTIVE" /\ version.trust = "TRUSTED"
  OBVIOUS
<1>1. ASSUME NEW t \in Tx, Quiet(t) \/ Stage(t) PROVE FALSE
  BY <1>1, QuietMoves DEF Stage, results
<1>2. ASSUME NEW t \in Tx, CommitTrusted(t)
      PROVE  version.lifecycle = "ACTIVE" /\ version.trust = "TRUSTED"
  BY <1>2 DEF CommitTrusted, Trusted, VersionCurrent, results
<1>3. ASSUME NEW t \in Tx, Persist(t) PROVE FALSE
  <2>1. Create(Mine(t), "none") \/ Create(Mine(t), "BUILT_IN")
    BY <1>3 DEF Persist, results
  <2> QED
    BY <2>1 DEF Create, IInv, TypeOK
<1>4. ASSUME NEW t \in Tx, Delete(t) PROVE FALSE
  <2>1. UNCHANGED source \/ Create(Mine(t), "none")
    BY <1>4 DEF Delete, DeleteCheck, DeleteCommit, results
  <2> QED
    BY <2>1 DEF Create, IInv, TypeOK
<1>5. ASSUME NEW j \in Imports, NEW decision \in {"ACCEPTED", "CORRECTED"},
             NEW material \in BOOLEAN, Accept(j, decision, material)
      PROVE  review[i] = "PENDING" /\ review'[i] \in {"ACCEPTED", "CORRECTED"}
  <2>1. i = j
    BY <1>5 DEF Accept, Create, IInv, TypeOK
  <2> QED
    BY <1>5, <2>1 DEF Accept, IInv, TypeOK
<1>6. ASSUME NEW j \in Imports, Reject(j) \/ Revoke(j) PROVE FALSE
  BY <1>6 DEF Reject, Revoke, results
<1>7. CASE Govern
  BY <1>7 DEF Govern, results
<1>8. CASE Others
  BY <1>8 DEF Others, Upload, Use, results
<1>9. CASE UNCHANGED vars
  BY <1>9 DEF vars, results
<1>10. ASSUME NEW t \in Tx, Parse(t)
       PROVE  version.lifecycle = "ACTIVE" /\ version.trust = "TRUSTED"
  BY <1>1, <1>2, <1>3, <1>10 DEF Parse, Quiet
<1>11. CASE Decide
  BY <1>5, <1>6, <1>11 DEF Decide
<1> QED
  BY <1>4, <1>7, <1>8, <1>9, <1>10, <1>11 DEF Next

THEOREM TrustedCommit == Spec => OnlyTrustedCommits
<1>1. IInv /\ [Next]_vars => [
          \A i \in Imports : source[i] # "PROFILE" /\ source'[i] = "PROFILE" =>
              \/ review[i] = "PENDING" /\ review'[i] \in {"ACCEPTED", "CORRECTED"}
              \/ version.lifecycle = "ACTIVE" /\ version.trust = "TRUSTED"]_vars
  BY CommitIsTrusted
<1> QED
  BY <1>1, Invariance, PTL DEF Spec, OnlyTrustedCommits

\* Nothing rebuilds or removes a paid container, and pallets go only with the
\* deletion of their live import.
LEMMA RecordsStep ==
    ASSUME IInv, [Next]_vars, NEW i \in Imports
    PROVE  /\ "paid" \in use[i] => "paid" \in use'[i] /\ source'[i] = source[i]
           /\ "pallets" \in use[i] /\ "pallets" \notin use'[i] =>
                  i \in Live /\ row'[i] = "deleted"
<1> DEFINE Stays == use[i] \subseteq use'[i] /\ (use[i] # {} => source'[i] = source[i])
<1>1. ASSUME UNCHANGED <<source, use>> PROVE Stays
  BY <1>1
<1>2. ASSUME NEW j \in Imports, NEW kind, use[j] = {}, Create(j, kind) PROVE Stays
  BY <1>2 DEF Create, IInv, TypeOK
<1>3. ASSUME NEW t \in Tx, Parse(t) PROVE Stays
  <2>1. ASSUME Quiet(t) \/ Stage(t) PROVE Stays
    BY <2>1, <1>1, QuietMoves DEF Stage, results
  <2>2. CASE CommitTrusted(t)
    <3>1. Mine(t) \in Imports
      BY <2>2 DEF CommitTrusted, Matched, IInv, HasImport
    <3>2. UNCHANGED <<source, use>> \/ (use[Mine(t)] = {} /\ Create(Mine(t), "PROFILE"))
      BY <2>2, <3>1 DEF CommitTrusted, results, IInv, UsedIsThere
    <3> QED
      BY <1>1, <1>2, <3>1, <3>2
  <2>3. CASE Persist(t)
    <3>1. Mine(t) \in Imports
      BY <2>3 DEF Persist, IInv, HasImport
    <3>2. \/ UNCHANGED <<source, use>>
          \/ use[Mine(t)] = {} /\ (Create(Mine(t), "none") \/ Create(Mine(t), "BUILT_IN"))
      BY <2>3 DEF Persist, results, Referred
    <3> QED
      BY <1>1, <1>2, <3>1, <3>2
  <2> QED
    BY <1>3, <2>1, <2>2, <2>3 DEF Parse, Quiet
<1>4. ASSUME NEW t \in Tx, DeleteCommit(t), use[Mine(t)] = mem[t].use, Mine(t) = i
      PROVE  "paid" \notin use[i] /\ i \in Live /\ row'[i] = "deleted"
  <2>1. "paid" \notin mem[t].use /\ row[i] = "live"
    BY <1>4 DEF DeleteCommit, IInv, Deleting
  <2>2. row' = [row EXCEPT ![i] = "deleted"]
    BY <1>4 DEF DeleteCommit
  <2> QED
    BY <1>4, <2>1, <2>2 DEF Live, IInv, TypeOK
<1>5. ASSUME NEW t \in Tx, DeleteCommit(t), use[Mine(t)] # mem[t].use \/ Mine(t) # i
      PROVE  Stays
  BY <1>5, <1>1 DEF DeleteCommit, Create, results, IInv, TypeOK
<1>6. ASSUME NEW t \in Tx, NEW j \in Imports, DeleteCheck(t, j) PROVE Stays
  BY <1>6, <1>1 DEF DeleteCheck, results
<1>7. ASSUME NEW j \in Imports, NEW decision \in {"ACCEPTED", "CORRECTED"},
             NEW material \in BOOLEAN, Accept(j, decision, material)
      PROVE  Stays
  <2>1. source[j] = "none" /\ Create(j, "PROFILE")
    BY <1>7 DEF Accept, NumberTaken, Containers
  <2> QED
    BY <2>1, <1>2 DEF IInv, UsedIsThere
<1>8. ASSUME NEW j \in Imports, Reject(j) \/ Revoke(j) PROVE Stays
  BY <1>8, <1>1 DEF Reject, Revoke, results
<1>9. CASE Govern
  BY <1>9, <1>1 DEF Govern, results
<1>10. ASSUME NEW j \in Imports, Upload(j) PROVE Stays
  BY <1>10, <1>1 DEF Upload, results
<1>11. ASSUME NEW j \in Imports, NEW u \in Uses, Use(j, u) PROVE Stays
  BY <1>11 DEF Use, IInv, TypeOK
<1>12. CASE UNCHANGED vars
  BY <1>12, <1>1 DEF vars, results
<1> QED
  BY <1>3, <1>4, <1>5, <1>6, <1>7, <1>8, <1>9, <1>10, <1>11, <1>12
     DEF Next, Delete, Decide, Others

THEOREM RecordsKept == Spec => BusinessRecordsStay
<1>1. IInv /\ [Next]_vars => [
          \A i \in Imports :
              /\ "paid" \in use[i] => "paid" \in use'[i] /\ source'[i] = source[i]
              /\ "pallets" \in use[i] /\ "pallets" \notin use'[i] =>
                     i \in Live /\ row'[i] = "deleted"]_vars
  BY RecordsStep
<1> QED
  BY <1>1, Invariance, PTL DEF Spec, BusinessRecordsStay
=============================================================================
