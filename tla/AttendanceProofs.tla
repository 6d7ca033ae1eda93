--------------------------- MODULE AttendanceProofs ---------------------------
(***************************************************************************)
(* What holds of Attendance for every number of requests, days, readings   *)
(* of the workbook and attempts, and that it implements WageLedger.        *)
(***************************************************************************)
EXTENDS Attendance, TLAPS

\* A request has read no revision the import has not had.
ReadNoLater == \A p \in Requests : readRev[p] \leq revision

\* Only a parse starts, only a generation reads rows.
KindOfStep == \A p \in Requests : /\ step[p] = "start" => kind[p] = "parse"
                                  /\ step[p] = "rows" => kind[p] = "generate"

\* As long as the revision is the one a generation has read, its input, which
\* was read after the revision, is the import's active days.
FreshInput ==
    \A p \in Requests :
        (step[p] = "work" /\ kind[p] = "generate" /\ ~Stale(p))
            => input[p] = ActiveDays

\* A request that has published a workbook has ended.
PublishedLast == \A p \in Requests : file[p] = "GENERATED" => step[p] = "done"

IInv == /\ TypeOK /\ ReadNoLater /\ KindOfStep /\ FreshInput /\ PublishedLast
        /\ WorkbookIsCurrent /\ NoJobOnRemoved

-----------------------------------------------------------------------------
\* How a request goes on

\* After it failed, was answered or went to another place in its operation,
\* only the request itself has moved.
LEMMA Moved ==
    ASSUME TypeOK, NEW p \in Requests, NEW s \in Steps,
           Fails(p) \/ Ends(p) \/ Goto(p, s)
    PROVE  /\ step' \in [Requests -> Steps]
           /\ job' \in [Requests -> {"none", "active", "ended"}]
           /\ tries' \in [Requests -> 0 .. MaxAttempts - 1]
           /\ \A q \in Requests : q # p => step'[q] = step[q]
           /\ step'[p] \in {"queued", "done", s}
           /\ \A q \in Requests : job'[q] = "active" => job[q] = "active"
<1>1. CASE job[p] = "active" /\ tries[p] + 1 < MaxAttempts /\ Fails(p)
  BY <1>1, AttendanceAssumption DEF TypeOK, Fails, Steps
<1>2. CASE Ends(p)
  BY <1>2 DEF TypeOK, Ends, Steps
<1>3. CASE Goto(p, s)
  BY <1>3 DEF TypeOK, Goto, Steps
<1> QED
  BY <1>1, <1>2, <1>3 DEF Fails

LEMMA FailedMoves ==
    ASSUME TypeOK, NEW p \in Requests, Fails(p) \/ Ends(p)
    PROVE  step'[p] \in {"queued", "done"}
  BY Moved DEF Steps

-----------------------------------------------------------------------------
\* Every step keeps each part of the invariant

\* the types
LEMMA TypeStep ==
    ASSUME IInv, [Next]_vars
    PROVE  TypeOK'
<1>1. ASSUME NEW p \in Requests, NEW k \in Kinds, SubmitJob(p, k) PROVE TypeOK'
  BY <1>1, Moved DEF IInv, SubmitJob, Kinds, Steps, TypeOK, import, books
<1>2. ASSUME NEW p \in Requests, ParseRead(p) PROVE TypeOK'
  BY <1>2, Moved DEF IInv, ParseRead, Kinds, Steps, TypeOK, import, books
<1>3. ASSUME NEW p \in Requests, GenerateRead(p) PROVE TypeOK'
  BY <1>3, Moved DEF IInv, GenerateRead, Kinds, Steps, TypeOK, import, books
<1>4. ASSUME NEW p \in Requests, FileMissing(p) PROVE TypeOK'
  BY <1>4, Moved DEF IInv, FileMissing, Mark, TypeOK, import, books
<1>5. ASSUME NEW p \in Requests, ParseStart(p) PROVE TypeOK'
  BY <1>5, Moved DEF IInv, ParseStart, Steps, Mark, TypeOK, import, books
<1>6. ASSUME NEW p \in Requests, ParseBroken(p) PROVE TypeOK'
  BY <1>6, Moved DEF IInv, ParseBroken, Mark, TypeOK, import, books
<1>7. ASSUME NEW p \in Requests, ParseStale(p) PROVE TypeOK'
  BY <1>7, Moved DEF IInv, ParseStale, TypeOK, import, books
<1>8. ASSUME NEW p \in Requests, ParseError(p) PROVE TypeOK'
  BY <1>8, Moved DEF IInv, ParseError, TypeOK, import, books
<1>9. ASSUME NEW p \in Requests, NEW found \in Results, ParseCommit(p, found) PROVE TypeOK'
  BY <1>9, Moved DEF IInv, ParseCommit, Superseded, Rebuilt, TypeOK, import,
     books
<1>10. ASSUME NEW p \in Requests, GenerateRows(p) PROVE TypeOK'
  <2>1. step' \in [Requests -> Steps] /\ job' \in [Requests -> {"none", "active", "ended"}]
        /\ tries' \in [Requests -> 0 .. MaxAttempts - 1]
    BY <1>10, Moved DEF IInv, GenerateRows, Steps
  <2> QED
    BY <1>10, <2>1 DEF IInv, GenerateRows, TypeOK, import, ActiveDays
<1>11. ASSUME NEW p \in Requests, GenerateBroken(p) PROVE TypeOK'
  <2>1. step' \in [Requests -> Steps] /\ job' \in [Requests -> {"none", "active", "ended"}]
        /\ tries' \in [Requests -> 0 .. MaxAttempts - 1]
    BY <1>11, Moved DEF IInv, GenerateBroken, Steps
  <2> QED
    BY <1>11, <2>1 DEF IInv, GenerateBroken, TypeOK, import
<1>12. ASSUME NEW p \in Requests, GenerateCommit(p) PROVE TypeOK'
  <2>1. step' \in [Requests -> Steps] /\ job' \in [Requests -> {"none", "active", "ended"}]
        /\ tries' \in [Requests -> 0 .. MaxAttempts - 1]
    BY <1>12, Moved DEF IInv, GenerateCommit, Steps
  <2> QED
    BY <1>12, <2>1 DEF IInv, GenerateCommit, TypeOK, import, books
<1>13. ASSUME NEW p \in Requests, NEW d \in Days, DeleteRow(p, d) PROVE TypeOK'
  BY <1>13, Moved DEF IInv, DeleteRow, Kinds, Steps, Superseded, TypeOK,
     import, books
<1>14. ASSUME NEW p \in Requests, DeleteImport(p) PROVE TypeOK'
  BY <1>14, Moved DEF IInv, DeleteImport, Kinds, Steps, Superseded, TypeOK,
     import, books
<1>15. ASSUME NEW p \in Requests, Crash(p) PROVE TypeOK'
  BY <1>15, Moved DEF IInv, Crash, Steps, TypeOK, import, books
<1>16. CASE UNCHANGED vars
  BY <1>16 DEF IInv, vars, import, books, local, TypeOK
<1> QED
  BY <1>1, <1>2, <1>3, <1>4, <1>5, <1>6, <1>7, <1>8, <1>9, <1>10, <1>11,
     <1>12, <1>13, <1>14, <1>15, <1>16 DEF Next, Continue, Arrive

\* the revisions that were read
LEMMA ReadStep ==
    ASSUME IInv, [Next]_vars
    PROVE  ReadNoLater'
<1>1. ASSUME NEW p \in Requests, NEW k \in Kinds, SubmitJob(p, k) PROVE ReadNoLater'
  BY <1>1 DEF IInv, SubmitJob, TypeOK, ReadNoLater, import
<1>2. ASSUME NEW p \in Requests, ParseRead(p) PROVE ReadNoLater'
  BY <1>2 DEF IInv, ParseRead, TypeOK, ReadNoLater, import
<1>3. ASSUME NEW p \in Requests, GenerateRead(p) PROVE ReadNoLater'
  BY <1>3 DEF IInv, GenerateRead, TypeOK, ReadNoLater, import
<1>4. ASSUME NEW p \in Requests, FileMissing(p) PROVE ReadNoLater'
  BY <1>4 DEF IInv, FileMissing, TypeOK, ReadNoLater, import
<1>5. ASSUME NEW p \in Requests, ParseStart(p) PROVE ReadNoLater'
  BY <1>5 DEF IInv, ParseStart, TypeOK, ReadNoLater, import
<1>6. ASSUME NEW p \in Requests, ParseBroken(p) PROVE ReadNoLater'
  BY <1>6 DEF IInv, ParseBroken, TypeOK, ReadNoLater, import
<1>7. ASSUME NEW p \in Requests, ParseStale(p) PROVE ReadNoLater'
  BY <1>7 DEF IInv, ParseStale, TypeOK, ReadNoLater, import
<1>8. ASSUME NEW p \in Requests, ParseError(p) PROVE ReadNoLater'
  BY <1>8 DEF IInv, ParseError, TypeOK, ReadNoLater, import
<1>9. ASSUME NEW p \in Requests, NEW found \in Results, ParseCommit(p, found) PROVE ReadNoLater'
  BY <1>9 DEF IInv, ParseCommit, TypeOK, ReadNoLater, import
<1>10. ASSUME NEW p \in Requests, GenerateRows(p) PROVE ReadNoLater'
  BY <1>10 DEF IInv, GenerateRows, TypeOK, ReadNoLater, import
<1>11. ASSUME NEW p \in Requests, GenerateBroken(p) PROVE ReadNoLater'
  BY <1>11 DEF IInv, GenerateBroken, TypeOK, ReadNoLater, import
<1>12. ASSUME NEW p \in Requests, GenerateCommit(p) PROVE ReadNoLater'
  BY <1>12 DEF IInv, GenerateCommit, TypeOK, ReadNoLater, import
<1>13. ASSUME NEW p \in Requests, NEW d \in Days, DeleteRow(p, d) PROVE ReadNoLater'
  BY <1>13 DEF IInv, DeleteRow, TypeOK, ReadNoLater, import
<1>14. ASSUME NEW p \in Requests, DeleteImport(p) PROVE ReadNoLater'
  BY <1>14 DEF IInv, DeleteImport, TypeOK, ReadNoLater, import
<1>15. ASSUME NEW p \in Requests, Crash(p) PROVE ReadNoLater'
  BY <1>15 DEF IInv, Crash, TypeOK, ReadNoLater, import
<1>16. CASE UNCHANGED vars
  BY <1>16 DEF IInv, vars, import, books, local, TypeOK, ReadNoLater
<1> QED
  BY <1>1, <1>2, <1>3, <1>4, <1>5, <1>6, <1>7, <1>8, <1>9, <1>10, <1>11,
     <1>12, <1>13, <1>14, <1>15, <1>16 DEF Next, Continue, Arrive

\* what the requests do
LEMMA KindStep ==
    ASSUME IInv, [Next]_vars
    PROVE  KindOfStep'
<1>1. ASSUME NEW p \in Requests, NEW k \in Kinds, SubmitJob(p, k) PROVE KindOfStep'
  BY <1>1, Moved DEF IInv, SubmitJob, Steps, TypeOK, KindOfStep
<1>2. ASSUME NEW p \in Requests, ParseRead(p) PROVE KindOfStep'
  BY <1>2, Moved DEF IInv, ParseRead, Goto, Steps, TypeOK, KindOfStep
<1>3. ASSUME NEW p \in Requests, GenerateRead(p) PROVE KindOfStep'
  BY <1>3, Moved DEF IInv, GenerateRead, Goto, Steps, TypeOK, KindOfStep
<1>4. ASSUME NEW p \in Requests, FileMissing(p) PROVE KindOfStep'
  BY <1>4, Moved DEF IInv, FileMissing, Steps, TypeOK, KindOfStep
<1>5. ASSUME NEW p \in Requests, ParseStart(p) PROVE KindOfStep'
  BY <1>5, Moved DEF IInv, ParseStart, Goto, Steps, TypeOK, KindOfStep
<1>6. ASSUME NEW p \in Requests, ParseBroken(p) PROVE KindOfStep'
  BY <1>6, Moved DEF IInv, ParseBroken, Steps, TypeOK, KindOfStep
<1>7. ASSUME NEW p \in Requests, ParseStale(p) PROVE KindOfStep'
  BY <1>7, Moved DEF IInv, ParseStale, Steps, TypeOK, KindOfStep
<1>8. ASSUME NEW p \in Requests, ParseError(p) PROVE KindOfStep'
  BY <1>8, Moved DEF IInv, ParseError, Steps, TypeOK, KindOfStep
<1>9. ASSUME NEW p \in Requests, NEW found \in Results, ParseCommit(p, found) PROVE KindOfStep'
  BY <1>9, Moved DEF IInv, ParseCommit, Steps, TypeOK, KindOfStep
<1>10. ASSUME NEW p \in Requests, GenerateRows(p) PROVE KindOfStep'
  BY <1>10, Moved DEF IInv, GenerateRows, Goto, Steps, TypeOK, KindOfStep
<1>11. ASSUME NEW p \in Requests, GenerateBroken(p) PROVE KindOfStep'
  BY <1>11, Moved DEF IInv, GenerateBroken, Steps, TypeOK, KindOfStep
<1>12. ASSUME NEW p \in Requests, GenerateCommit(p) PROVE KindOfStep'
  BY <1>12, Moved DEF IInv, GenerateCommit, Steps, TypeOK, KindOfStep
<1>13. ASSUME NEW p \in Requests, NEW d \in Days, DeleteRow(p, d) PROVE KindOfStep'
  BY <1>13, Moved DEF IInv, DeleteRow, Steps, TypeOK, KindOfStep
<1>14. ASSUME NEW p \in Requests, DeleteImport(p) PROVE KindOfStep'
  BY <1>14, Moved DEF IInv, DeleteImport, Steps, TypeOK, KindOfStep
<1>15. ASSUME NEW p \in Requests, Crash(p) PROVE KindOfStep'
  BY <1>15, Moved DEF IInv, Crash, Goto, Steps, TypeOK, KindOfStep
<1>16. CASE UNCHANGED vars
  BY <1>16 DEF IInv, vars, import, books, local, TypeOK, KindOfStep
<1> QED
  BY <1>1, <1>2, <1>3, <1>4, <1>5, <1>6, <1>7, <1>8, <1>9, <1>10, <1>11,
     <1>12, <1>13, <1>14, <1>15, <1>16 DEF Next, Continue, Arrive

\* After a change of the revision every request is stale, and no workbook made
\* before is current.
LEMMA Bumped ==
    ASSUME TypeOK, ReadNoLater, revision' = revision + 1, UNCHANGED readRev
    PROVE  \A q \in Requests : Stale(q)'
  BY DEF TypeOK, ReadNoLater, Stale

LEMMA NoneCurrent ==
    ASSUME TypeOK, file' = Superseded
    PROVE  \A q \in Requests : file'[q] # "GENERATED"
  BY DEF TypeOK, Superseded

\* what the generations hold
LEMMA FreshStep ==
    ASSUME IInv, [Next]_vars
    PROVE  FreshInput'
<1>1. ASSUME NEW p \in Requests, NEW k \in Kinds, SubmitJob(p, k) PROVE FreshInput'
  BY <1>1, Moved DEF IInv, SubmitJob, Steps, import, books, FreshInput,
     Stale, ActiveDays, TypeOK
<1>2. ASSUME NEW p \in Requests, ParseRead(p) PROVE FreshInput'
  BY <1>2, Moved DEF IInv, ParseRead, Goto, Steps, import, books,
     FreshInput, Stale, ActiveDays, TypeOK
<1>3. ASSUME NEW p \in Requests, GenerateRead(p) PROVE FreshInput'
  BY <1>3, Moved DEF IInv, GenerateRead, Goto, Steps, import, books,
     FreshInput, Stale, ActiveDays, TypeOK
<1>4. ASSUME NEW p \in Requests, FileMissing(p) PROVE FreshInput'
  BY <1>4, Moved DEF IInv, FileMissing, Steps, import, books, FreshInput,
     Stale, ActiveDays, TypeOK
<1>5. ASSUME NEW p \in Requests, ParseStart(p) PROVE FreshInput'
  BY <1>5, Moved DEF IInv, ParseStart, Steps, import, books, KindOfStep,
     FreshInput, Stale, ActiveDays, TypeOK
<1>6. ASSUME NEW p \in Requests, ParseBroken(p) PROVE FreshInput'
  BY <1>6, Moved DEF IInv, ParseBroken, Steps, import, books, FreshInput,
     Stale, ActiveDays, TypeOK
<1>7. ASSUME NEW p \in Requests, ParseStale(p) PROVE FreshInput'
  BY <1>7, Moved DEF IInv, ParseStale, Steps, import, books, FreshInput,
     Stale, ActiveDays, TypeOK
<1>8. ASSUME NEW p \in Requests, ParseError(p) PROVE FreshInput'
  BY <1>8, Moved DEF IInv, ParseError, Steps, import, books, FreshInput,
     Stale, ActiveDays, TypeOK
<1>9. ASSUME NEW p \in Requests, NEW found \in Results, ParseCommit(p, found) PROVE FreshInput'
  <2>1. \A q \in Requests : Stale(q)'
    BY <1>9, Bumped DEF IInv, ParseCommit
  <2> QED
    BY <2>1 DEF FreshInput
<1>10. ASSUME NEW p \in Requests, GenerateRows(p) PROVE FreshInput'
  BY <1>10, Moved DEF IInv, GenerateRows, Steps, import, books, FreshInput,
     Stale, ActiveDays, TypeOK
<1>11. ASSUME NEW p \in Requests, GenerateBroken(p) PROVE FreshInput'
  BY <1>11, Moved DEF IInv, GenerateBroken, Steps, import, books,
     FreshInput, Stale, ActiveDays, TypeOK
<1>12. ASSUME NEW p \in Requests, GenerateCommit(p) PROVE FreshInput'
  BY <1>12, Moved DEF IInv, GenerateCommit, Steps, import, books,
     FreshInput, Stale, ActiveDays, TypeOK
<1>13. ASSUME NEW p \in Requests, NEW d \in Days, DeleteRow(p, d) PROVE FreshInput'
  <2>1. \A q \in Requests : Stale(q)'
    BY <1>13, Bumped DEF IInv, DeleteRow
  <2> QED
    BY <2>1 DEF FreshInput
<1>14. ASSUME NEW p \in Requests, DeleteImport(p) PROVE FreshInput'
  <2>1. \A q \in Requests : Stale(q)'
    BY <1>14, Bumped DEF IInv, DeleteImport
  <2> QED
    BY <2>1 DEF FreshInput
<1>15. ASSUME NEW p \in Requests, Crash(p) PROVE FreshInput'
  BY <1>15 DEF IInv, Crash, Goto, import, books, FreshInput, Stale,
     ActiveDays, TypeOK
<1>16. CASE UNCHANGED vars
  BY <1>16 DEF IInv, vars, import, books, local, FreshInput, Stale,
     ActiveDays, TypeOK
<1> QED
  BY <1>1, <1>2, <1>3, <1>4, <1>5, <1>6, <1>7, <1>8, <1>9, <1>10, <1>11,
     <1>12, <1>13, <1>14, <1>15, <1>16 DEF Next, Continue, Arrive

\* that a published workbook is the last of its request
LEMMA PublishedStep ==
    ASSUME IInv, [Next]_vars
    PROVE  PublishedLast'
<1>1. ASSUME NEW p \in Requests, NEW k \in Kinds, SubmitJob(p, k) PROVE PublishedLast'
  BY <1>1, Moved DEF IInv, SubmitJob, books, PublishedLast, TypeOK
<1>2. ASSUME NEW p \in Requests, ParseRead(p) PROVE PublishedLast'
  BY <1>2, Moved DEF IInv, ParseRead, Steps, books, PublishedLast, TypeOK
<1>3. ASSUME NEW p \in Requests, GenerateRead(p) PROVE PublishedLast'
  BY <1>3, Moved DEF IInv, GenerateRead, Steps, books, PublishedLast, TypeOK
<1>4. ASSUME NEW p \in Requests, FileMissing(p) PROVE PublishedLast'
  BY <1>4, Moved DEF IInv, FileMissing, books, PublishedLast, TypeOK
<1>5. ASSUME NEW p \in Requests, ParseStart(p) PROVE PublishedLast'
  BY <1>5, Moved DEF IInv, ParseStart, Steps, books, PublishedLast, TypeOK
<1>6. ASSUME NEW p \in Requests, ParseBroken(p) PROVE PublishedLast'
  BY <1>6, Moved DEF IInv, ParseBroken, books, PublishedLast, TypeOK
<1>7. ASSUME NEW p \in Requests, ParseStale(p) PROVE PublishedLast'
  BY <1>7, Moved DEF IInv, ParseStale, books, PublishedLast, TypeOK
<1>8. ASSUME NEW p \in Requests, ParseError(p) PROVE PublishedLast'
  BY <1>8, Moved DEF IInv, ParseError, books, PublishedLast, TypeOK
<1>9. ASSUME NEW p \in Requests, NEW found \in Results, ParseCommit(p, found) PROVE PublishedLast'
  <2>1. \A q \in Requests : file'[q] # "GENERATED"
    BY <1>9, NoneCurrent DEF IInv, ParseCommit
  <2> QED
    BY <2>1 DEF PublishedLast
<1>10. ASSUME NEW p \in Requests, GenerateRows(p) PROVE PublishedLast'
  BY <1>10, Moved DEF IInv, GenerateRows, Steps, PublishedLast, TypeOK
<1>11. ASSUME NEW p \in Requests, GenerateBroken(p) PROVE PublishedLast'
  BY <1>11, Moved DEF IInv, GenerateBroken, PublishedLast, TypeOK
<1>12. ASSUME NEW p \in Requests, GenerateCommit(p) PROVE PublishedLast'
  BY <1>12, Moved DEF IInv, GenerateCommit, Ends, PublishedLast, TypeOK
<1>13. ASSUME NEW p \in Requests, NEW d \in Days, DeleteRow(p, d) PROVE PublishedLast'
  <2>1. \A q \in Requests : file'[q] # "GENERATED"
    BY <1>13, NoneCurrent DEF IInv, DeleteRow
  <2> QED
    BY <2>1 DEF PublishedLast
<1>14. ASSUME NEW p \in Requests, DeleteImport(p) PROVE PublishedLast'
  <2>1. \A q \in Requests : file'[q] # "GENERATED"
    BY <1>14, NoneCurrent DEF IInv, DeleteImport
  <2> QED
    BY <2>1 DEF PublishedLast
<1>15. ASSUME NEW p \in Requests, Crash(p) PROVE PublishedLast'
  BY <1>15 DEF IInv, Crash, Goto, books, PublishedLast, TypeOK
<1>16. CASE UNCHANGED vars
  BY <1>16 DEF IInv, vars, import, books, local, PublishedLast, TypeOK
<1> QED
  BY <1>1, <1>2, <1>3, <1>4, <1>5, <1>6, <1>7, <1>8, <1>9, <1>10, <1>11,
     <1>12, <1>13, <1>14, <1>15, <1>16 DEF Next, Continue, Arrive

\* that what is published is what is there
LEMMA CurrentStep ==
    ASSUME IInv, [Next]_vars
    PROVE  WorkbookIsCurrent'
<1>1. ASSUME NEW p \in Requests, NEW k \in Kinds, SubmitJob(p, k) PROVE WorkbookIsCurrent'
  BY <1>1 DEF IInv, SubmitJob, books, import, WorkbookIsCurrent, TypeOK,
     ActiveDays
<1>2. ASSUME NEW p \in Requests, ParseRead(p) PROVE WorkbookIsCurrent'
  BY <1>2 DEF IInv, ParseRead, books, import, WorkbookIsCurrent, TypeOK,
     ActiveDays
<1>3. ASSUME NEW p \in Requests, GenerateRead(p) PROVE WorkbookIsCurrent'
  BY <1>3 DEF IInv, GenerateRead, books, import, WorkbookIsCurrent, TypeOK,
     ActiveDays
<1>4. ASSUME NEW p \in Requests, FileMissing(p) PROVE WorkbookIsCurrent'
  BY <1>4 DEF IInv, FileMissing, books, import, WorkbookIsCurrent, TypeOK,
     ActiveDays
<1>5. ASSUME NEW p \in Requests, ParseStart(p) PROVE WorkbookIsCurrent'
  BY <1>5 DEF IInv, ParseStart, books, import, WorkbookIsCurrent, TypeOK,
     ActiveDays
<1>6. ASSUME NEW p \in Requests, ParseBroken(p) PROVE WorkbookIsCurrent'
  BY <1>6 DEF IInv, ParseBroken, books, import, WorkbookIsCurrent, TypeOK,
     ActiveDays
<1>7. ASSUME NEW p \in Requests, ParseStale(p) PROVE WorkbookIsCurrent'
  BY <1>7 DEF IInv, ParseStale, books, import, WorkbookIsCurrent, TypeOK,
     ActiveDays
<1>8. ASSUME NEW p \in Requests, ParseError(p) PROVE WorkbookIsCurrent'
  BY <1>8 DEF IInv, ParseError, books, import, WorkbookIsCurrent, TypeOK,
     ActiveDays
<1>9. ASSUME NEW p \in Requests, NEW found \in Results, ParseCommit(p, found) PROVE WorkbookIsCurrent'
  <2>1. \A q \in Requests : file'[q] # "GENERATED"
    BY <1>9, NoneCurrent DEF IInv, ParseCommit
  <2> QED
    BY <2>1 DEF WorkbookIsCurrent
<1>10. ASSUME NEW p \in Requests, GenerateRows(p) PROVE WorkbookIsCurrent'
  BY <1>10 DEF IInv, GenerateRows, PublishedLast, import, WorkbookIsCurrent,
     TypeOK, ActiveDays
<1>11. ASSUME NEW p \in Requests, GenerateBroken(p) PROVE WorkbookIsCurrent'
  BY <1>11 DEF IInv, GenerateBroken, import, WorkbookIsCurrent, TypeOK,
     ActiveDays
<1>12. ASSUME NEW p \in Requests, GenerateCommit(p) PROVE WorkbookIsCurrent'
  <2>1. UNCHANGED <<import, input>>
    BY <1>12 DEF GenerateCommit
  <2>2. file'[p] = "GENERATED" => input[p] = ActiveDays /\ ~removed
    BY <1>12 DEF IInv, TypeOK, GenerateCommit, FreshInput, Stale
  <2>3. \A q \in Requests : q # p => file'[q] = file[q]
    BY <1>12 DEF IInv, TypeOK, GenerateCommit
  <2> QED
    BY <2>1, <2>2, <2>3 DEF IInv, WorkbookIsCurrent, ActiveDays, import
<1>13. ASSUME NEW p \in Requests, NEW d \in Days, DeleteRow(p, d) PROVE WorkbookIsCurrent'
  <2>1. \A q \in Requests : file'[q] # "GENERATED"
    BY <1>13, NoneCurrent DEF IInv, DeleteRow
  <2> QED
    BY <2>1 DEF WorkbookIsCurrent
<1>14. ASSUME NEW p \in Requests, DeleteImport(p) PROVE WorkbookIsCurrent'
  <2>1. \A q \in Requests : file'[q] # "GENERATED"
    BY <1>14, NoneCurrent DEF IInv, DeleteImport
  <2> QED
    BY <2>1 DEF WorkbookIsCurrent
<1>15. ASSUME NEW p \in Requests, Crash(p) PROVE WorkbookIsCurrent'
  BY <1>15 DEF IInv, Crash, books, import, WorkbookIsCurrent, TypeOK,
     ActiveDays
<1>16. CASE UNCHANGED vars
  BY <1>16 DEF IInv, vars, import, books, local, WorkbookIsCurrent, TypeOK,
     ActiveDays
<1> QED
  BY <1>1, <1>2, <1>3, <1>4, <1>5, <1>6, <1>7, <1>8, <1>9, <1>10, <1>11,
     <1>12, <1>13, <1>14, <1>15, <1>16 DEF Next, Continue, Arrive

\* that a deleted import has no jobs
LEMMA JobsStep ==
    ASSUME IInv, [Next]_vars
    PROVE  NoJobOnRemoved'
<1>1. ASSUME NEW p \in Requests, NEW k \in Kinds, SubmitJob(p, k) PROVE NoJobOnRemoved'
  BY <1>1, Moved DEF IInv, SubmitJob, import, NoJobOnRemoved, TypeOK
<1>2. ASSUME NEW p \in Requests, ParseRead(p) PROVE NoJobOnRemoved'
  BY <1>2, Moved DEF IInv, ParseRead, Steps, import, NoJobOnRemoved, TypeOK
<1>3. ASSUME NEW p \in Requests, GenerateRead(p) PROVE NoJobOnRemoved'
  BY <1>3, Moved DEF IInv, GenerateRead, Steps, import, NoJobOnRemoved,
     TypeOK
<1>4. ASSUME NEW p \in Requests, FileMissing(p) PROVE NoJobOnRemoved'
  BY <1>4, Moved DEF IInv, FileMissing, import, NoJobOnRemoved, TypeOK
<1>5. ASSUME NEW p \in Requests, ParseStart(p) PROVE NoJobOnRemoved'
  BY <1>5, Moved DEF IInv, ParseStart, Steps, import, NoJobOnRemoved, TypeOK
<1>6. ASSUME NEW p \in Requests, ParseBroken(p) PROVE NoJobOnRemoved'
  BY <1>6, Moved DEF IInv, ParseBroken, import, NoJobOnRemoved, TypeOK
<1>7. ASSUME NEW p \in Requests, ParseStale(p) PROVE NoJobOnRemoved'
  BY <1>7, Moved DEF IInv, ParseStale, import, NoJobOnRemoved, TypeOK
<1>8. ASSUME NEW p \in Requests, ParseError(p) PROVE NoJobOnRemoved'
  BY <1>8, Moved DEF IInv, ParseError, import, NoJobOnRemoved, TypeOK
<1>9. ASSUME NEW p \in Requests, NEW found \in Results, ParseCommit(p, found) PROVE NoJobOnRemoved'
  BY <1>9, Moved DEF IInv, ParseCommit, import, NoJobOnRemoved, TypeOK
<1>10. ASSUME NEW p \in Requests, GenerateRows(p) PROVE NoJobOnRemoved'
  BY <1>10, Moved DEF IInv, GenerateRows, Steps, import, NoJobOnRemoved,
     TypeOK
<1>11. ASSUME NEW p \in Requests, GenerateBroken(p) PROVE NoJobOnRemoved'
  BY <1>11, Moved DEF IInv, GenerateBroken, import, NoJobOnRemoved, TypeOK
<1>12. ASSUME NEW p \in Requests, GenerateCommit(p) PROVE NoJobOnRemoved'
  BY <1>12, Moved DEF IInv, GenerateCommit, import, NoJobOnRemoved, TypeOK
<1>13. ASSUME NEW p \in Requests, NEW d \in Days, DeleteRow(p, d) PROVE NoJobOnRemoved'
  BY <1>13, Moved DEF IInv, DeleteRow, import, NoJobOnRemoved, TypeOK
<1>14. ASSUME NEW p \in Requests, DeleteImport(p) PROVE NoJobOnRemoved'
  BY <1>14, Moved DEF IInv, DeleteImport, NotBusy, NoJobOnRemoved, TypeOK
<1>15. ASSUME NEW p \in Requests, Crash(p) PROVE NoJobOnRemoved'
  BY <1>15 DEF IInv, Crash, Goto, import, NoJobOnRemoved, TypeOK
<1>16. CASE UNCHANGED vars
  BY <1>16 DEF IInv, vars, import, books, local, NoJobOnRemoved, TypeOK
<1> QED
  BY <1>1, <1>2, <1>3, <1>4, <1>5, <1>6, <1>7, <1>8, <1>9, <1>10, <1>11,
     <1>12, <1>13, <1>14, <1>15, <1>16 DEF Next, Continue, Arrive

LEMMA InitInvariant == Init => IInv
<1> SUFFICES ASSUME Init PROVE IInv
  OBVIOUS
<1>1. TypeOK
  <2>1. 0 \in 0 .. MaxAttempts - 1
    BY AttendanceAssumption
  <2>2. tries \in [Requests -> 0 .. MaxAttempts - 1]
    BY <2>1 DEF Init
  <2> QED
    BY <2>2 DEF Init, TypeOK, Kinds, Steps
<1>2. ReadNoLater /\ KindOfStep /\ FreshInput /\ PublishedLast
  BY DEF Init, ReadNoLater, KindOfStep, FreshInput, PublishedLast
<1>3. WorkbookIsCurrent /\ NoJobOnRemoved
  BY DEF Init, WorkbookIsCurrent, NoJobOnRemoved
<1> QED
  BY <1>1, <1>2, <1>3 DEF IInv

\* The inductive invariant holds in every state.
THEOREM Invariant == Spec => []IInv
<1>1. IInv /\ [Next]_vars => IInv'
  <2> SUFFICES ASSUME IInv, [Next]_vars PROVE IInv'
    OBVIOUS
  <2> QED
    BY TypeStep, ReadStep, KindStep, FreshStep, PublishedStep, CurrentStep,
       JobsStep DEF IInv
<1>2. QED
  BY InitInvariant, <1>1, PTL DEF Spec

\* The import, its rows, workbooks and jobs keep their types; no job is tried
\* more often than it may be.
THEOREM TypeCorrect == Spec => []TypeOK
<1>1. IInv => TypeOK
  BY DEF IInv
<1>2. QED
  BY Invariant, <1>1, PTL

\* A workbook that may be downloaded holds exactly the active days of an import
\* that was not deleted, however many requests parse it, strike its days,
\* delete it and make workbooks from it at the same time.
THEOREM WorkbookCurrent == Spec => []WorkbookIsCurrent
<1>1. IInv => WorkbookIsCurrent
  BY DEF IInv
<1>2. QED
  BY Invariant, <1>1, PTL

\* No job is active for a deleted import.
THEOREM NoJobRemains == Spec => []NoJobOnRemoved
<1>1. IInv => NoJobOnRemoved
  BY DEF IInv
<1>2. QED
  BY Invariant, <1>1, PTL

-----------------------------------------------------------------------------
\* The import implements the ledger

\* The days and the workbooks of the ledger.
Struck == {d \in Days : row[d] = "deleted"}
Books == [p \in Requests |-> IF file[p] = "GENERATED" THEN {input[p]} ELSE {}]

\* A step that touches neither the days nor a current workbook is none of the
\* ledger's.
LEMMA LedgerStutters ==
    ASSUME UNCHANGED <<revision, removed, row>>, TypeOK, TypeOK',
           \A p \in Requests : \/ file'[p] = file[p] /\ input'[p] = input[p]
                               \/ file[p] # "GENERATED" /\ file'[p] # "GENERATED"
    PROVE  [Ledger!Next]_(Ledger!vars)
<1>1. UNCHANGED ActiveDays /\ UNCHANGED Struck
  BY DEF ActiveDays, Struck
<1>2. UNCHANGED Books
  BY DEF Books, TypeOK
<1> QED
  BY <1>1, <1>2 DEF Ledger!vars, Struck, Books

\* The committed parse rebuilds the ledger's days; the days that were struck
\* stay struck.
LEMMA LedgerRebuilt ==
    ASSUME IInv, NEW p \in Requests, NEW found \in Results, ParseCommit(p, found)
    PROVE  Ledger!Rebuild(found)
<1>1. found \subseteq Days
  BY AttendanceAssumption
<1>2. ~removed /\ UNCHANGED removed
  BY DEF ParseCommit, Stale
<1>3. ActiveDays' = found \ Struck /\ UNCHANGED Struck
  BY <1>1 DEF ParseCommit, Rebuilt, ActiveDays, Struck
<1>4. Books' = Ledger!NoBooks
  BY NoneCurrent DEF ParseCommit, Books, Ledger!NoBooks, IInv
<1> QED
  BY <1>2, <1>3, <1>4 DEF Ledger!Rebuild, Struck, Books

LEMMA LedgerStruck ==
    ASSUME IInv, NEW p \in Requests, NEW d \in Days, DeleteRow(p, d)
    PROVE  Ledger!Strike(d)
<1>1. ~removed /\ UNCHANGED removed /\ d \in ActiveDays
  BY DEF DeleteRow, ActiveDays
<1>2. ActiveDays' = ActiveDays \ {d} /\ Struck' = Struck \cup {d}
  BY DEF DeleteRow, ActiveDays, Struck, IInv, TypeOK
<1>3. Books' = Ledger!NoBooks
  BY NoneCurrent DEF DeleteRow, Books, Ledger!NoBooks, IInv
<1> QED
  BY <1>1, <1>2, <1>3 DEF Ledger!Strike, Struck, Books

LEMMA LedgerClosed ==
    ASSUME IInv, NEW p \in Requests, DeleteImport(p)
    PROVE  Ledger!Close
<1>1. ~removed /\ removed' = TRUE
  BY DEF DeleteImport
<1>2. UNCHANGED ActiveDays /\ UNCHANGED Struck
  BY DEF DeleteImport, ActiveDays, Struck
<1>3. Books' = Ledger!NoBooks
  BY NoneCurrent DEF DeleteImport, Books, Ledger!NoBooks, IInv
<1> QED
  BY <1>1, <1>2, <1>3 DEF Ledger!Close, Struck, Books

\* A generation that is not stale publishes the days as they are now.
LEMMA LedgerPublished ==
    ASSUME IInv, NEW p \in Requests, GenerateCommit(p), ~Stale(p)
    PROVE  Ledger!Publish(p)
<1>1. ~removed
  BY DEF Stale
<1>2. UNCHANGED removed /\ UNCHANGED ActiveDays /\ UNCHANGED Struck
  BY DEF GenerateCommit, import, ActiveDays, Struck
<1>3. input[p] = ActiveDays
  BY DEF IInv, FreshInput, GenerateCommit
<1>4. Books' = [Books EXCEPT ![p] = {ActiveDays}]
  BY <1>3 DEF GenerateCommit, Books, IInv, TypeOK
<1> QED
  BY <1>1, <1>2, <1>4 DEF Ledger!Publish, Struck, Books


\* Every step is one of the ledger's or stutters.
LEMMA LedgerStep ==
    ASSUME IInv, IInv', [Next]_vars
    PROVE  [Ledger!Next]_(Ledger!vars)
<1>1. ASSUME NEW p \in Requests, NEW k \in Kinds, SubmitJob(p, k) PROVE [Ledger!Next]_(Ledger!vars)
  BY <1>1, LedgerStutters DEF IInv, SubmitJob, import, books
<1>2. ASSUME NEW p \in Requests, ParseRead(p) PROVE [Ledger!Next]_(Ledger!vars)
  BY <1>2, LedgerStutters DEF IInv, ParseRead, import, books
<1>3. ASSUME NEW p \in Requests, GenerateRead(p) PROVE [Ledger!Next]_(Ledger!vars)
  BY <1>3, LedgerStutters DEF IInv, GenerateRead, import, books
<1>4. ASSUME NEW p \in Requests, FileMissing(p) PROVE [Ledger!Next]_(Ledger!vars)
  BY <1>4, LedgerStutters DEF IInv, FileMissing, books
<1>5. ASSUME NEW p \in Requests, ParseStart(p) PROVE [Ledger!Next]_(Ledger!vars)
  BY <1>5, LedgerStutters DEF IInv, ParseStart, books
<1>6. ASSUME NEW p \in Requests, ParseBroken(p) PROVE [Ledger!Next]_(Ledger!vars)
  BY <1>6, LedgerStutters DEF IInv, ParseBroken, books
<1>7. ASSUME NEW p \in Requests, ParseStale(p) PROVE [Ledger!Next]_(Ledger!vars)
  BY <1>7, LedgerStutters DEF IInv, ParseStale, import, books
<1>8. ASSUME NEW p \in Requests, ParseError(p) PROVE [Ledger!Next]_(Ledger!vars)
  BY <1>8, LedgerStutters DEF IInv, ParseError, books
<1>9. ASSUME NEW p \in Requests, NEW found \in Results, ParseCommit(p, found) PROVE [Ledger!Next]_(Ledger!vars)
  <2>1. found \in SUBSET Days
    BY AttendanceAssumption
  <2> QED
    BY <1>9, <2>1, LedgerRebuilt DEF Ledger!Next
<1>10. ASSUME NEW p \in Requests, GenerateRows(p) PROVE [Ledger!Next]_(Ledger!vars)
  BY <1>10, LedgerStutters DEF IInv, GenerateRows, import,
     PublishedLast
<1>11. ASSUME NEW p \in Requests, GenerateBroken(p) PROVE [Ledger!Next]_(Ledger!vars)
  BY <1>11, LedgerStutters DEF IInv, GenerateBroken, import,
     PublishedLast
<1>12. ASSUME NEW p \in Requests, GenerateCommit(p) PROVE [Ledger!Next]_(Ledger!vars)
  <2>1. CASE Stale(p)
    <3>1. UNCHANGED <<import, input>> /\ file[p] # "GENERATED"
      BY <1>12 DEF GenerateCommit, IInv, PublishedLast
    <3>2. file' = [file EXCEPT ![p] = "SUPERSEDED"]
      BY <1>12, <2>1 DEF GenerateCommit
    <3> QED
      BY <3>1, <3>2, LedgerStutters DEF IInv, import
  <2>2. CASE ~Stale(p)
    BY <1>12, <2>2, LedgerPublished DEF Ledger!Next
  <2> QED
    BY <2>1, <2>2
<1>13. ASSUME NEW p \in Requests, NEW d \in Days, DeleteRow(p, d) PROVE [Ledger!Next]_(Ledger!vars)
  BY <1>13, LedgerStruck DEF Ledger!Next
<1>14. ASSUME NEW p \in Requests, DeleteImport(p) PROVE [Ledger!Next]_(Ledger!vars)
  BY <1>14, LedgerClosed DEF Ledger!Next
<1>15. ASSUME NEW p \in Requests, Crash(p) PROVE [Ledger!Next]_(Ledger!vars)
  BY <1>15, LedgerStutters DEF IInv, Crash, import, books
<1>16. CASE UNCHANGED vars
  BY <1>16, LedgerStutters DEF IInv, vars, import, books
<1> QED
  BY <1>1, <1>2, <1>3, <1>4, <1>5, <1>6, <1>7, <1>8, <1>9, <1>10, <1>11,
     <1>12, <1>13, <1>14, <1>15, <1>16 DEF Next, Continue, Arrive

\* The import implements the ledger, for any requests, days, readings of the
\* workbook and attempts.
THEOREM ImplementsLedger == Spec => LedgerSpec
<1>1. Init => Ledger!Init
  BY DEF Init, Ledger!Init, Ledger!NoBooks, ActiveDays
<1>2. IInv /\ IInv' /\ [Next]_vars => [Ledger!Next]_(Ledger!vars)
  BY LedgerStep
<1>3. QED
  BY Invariant, <1>1, <1>2, PTL DEF Spec, LedgerSpec, Ledger!Spec

=============================================================================
