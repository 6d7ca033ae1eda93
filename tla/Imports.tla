------------------------------- MODULE Imports -------------------------------
(***************************************************************************)
(* Imported workbooks (apps/api/src/imports) and the parser profile that   *)
(* may read them (apps/api/src/parser-profiles): parsing, the review of a  *)
(* staged result, the trust a profile earns by reviews, and deletion.      *)
(*                                                                         *)
(* A parse (t) reads its import, calls the Python worker for as long as it *)
(* takes, twice when a profile may match, and commits without a revision   *)
(* of the import; every statement outside a transaction is a step of its   *)
(* own.  A transaction that locks the row of the import first is one step. *)
(* A deletion is two: it removes the stored file between its checks and    *)
(* its writes, and pallets or pay may come in between.                     *)
(*                                                                         *)
(* Left out: learning cases, matching between several profile versions     *)
(* (one exact version stands for them all, from its approval on), staged   *)
(* results with parser errors, which no one can accept, and WARNING,       *)
(* treated as PARSED.                                                      *)
(***************************************************************************)
EXTENDS Integers

CONSTANTS
    Tx,          \* concurrent parses and deletions (a bound on concurrency)
    Imports,     \* rows of import_files
    Files,       \* workbooks; each holds one container number
    FileOf,      \* the workbook of an import
    Needed,      \* consecutive acceptances that make a version trusted
    Earlier,     \* the acceptances it may have from imports before these
    Busy,        \* bound: the imports that are deleted or come into use
    Mortal,      \* bound: the steps at which the process of a request may end
    NoImport

ASSUME ImportsAssumption ==
    /\ FileOf \in [Imports -> Files]
    /\ Needed \in Nat \ {0}
    /\ Earlier \subseteq 0..(Needed - 1)
    /\ Busy \subseteq Imports /\ "idle" \notin Mortal
    /\ NoImport \notin Imports

VARIABLES
    row,      \* import_files: absent, live, or deleted (deleted_at is set)
    status,   \* import_files.parse_status; nobody reads that of a deleted one
    disk,     \* the workbooks that are stored
    source,   \* containers.parser_source_kind of the import's container
    use,      \* what else refers to it: pallets, pay
    review,   \* parser_profile_reviews.status
    version,  \* parser_profile_versions
    evidence, \* the acceptances at the end of parser_profile_evidence
    pc,       \* where a request is
    mem       \* its import, what it has read, the worker's answer

imports  == <<row, status, disk>>
results  == <<source, use>>
profiles == <<review, version, evidence>>
requests == <<pc, mem>>
vars     == <<imports, results, profiles, requests>>

Statuses   == {"NOT_PARSED", "PARSING", "PARSED", "ERROR", "REVIEW_REQUIRED"}
Uses       == {"pallets", "paid"}
Lifecycles == {"ACTIVE", "PAUSED"}
Trusts     == {"REVIEW_REQUIRED", "TRUSTED"}
Matches    == {"none", "noMatch", "drift", "failed", "blocked", "clean"}
Steps      == {"idle", "start", "work", "match", "persist", "restore",
               "markError", "delete"}

Versions == [lifecycle : Lifecycles, trust : Trusts, streak : 0..Needed]
Memory   == [import : Imports \cup {NoImport}, status : Statuses, use : SUBSET Uses,
             match : Matches, trust : Trusts, current : BOOLEAN]
Idle     == [import |-> NoImport, status |-> "NOT_PARSED", use |-> {},
             match |-> "none", trust |-> "REVIEW_REQUIRED", current |-> FALSE]

TypeOK ==
    /\ row \in [Imports -> {"absent", "live", "deleted"}]
    /\ status \in [Imports -> Statuses]
    /\ disk \subseteq Files
    /\ source \in [Imports -> {"none", "BUILT_IN", "PROFILE"}]
    /\ use \in [Imports -> SUBSET Uses]
    /\ review \in [Imports -> {"none", "PENDING", "ACCEPTED", "CORRECTED", "REJECTED"}]
    /\ version \in Versions
    /\ evidence \in Nat
    /\ pc \in [Tx -> Steps]
    /\ mem \in [Tx -> Memory]

Live       == {i \in Imports : row[i] = "live"}
Containers == {i \in Imports : source[i] # "none"}

\* containers.container_no is unique
NumberTaken(i) == \E j \in Containers : FileOf[j] = FileOf[i]

\* the row of an import is locked from the checks of a deletion to its end
Unlocked(i) == \A t \in Tx : ~(pc[t] = "delete" /\ mem[t].import = i)

Mine(t)     == mem[t].import
Set(i, s)   == status' = IF i \in Live THEN [status EXCEPT ![i] = s] ELSE status
SetTo(t, s) == Unlocked(Mine(t)) /\ Set(Mine(t), s)

\* a request keeps what it still needs
Kept(t, s) ==
    CASE s = "idle"                   -> Idle
      [] s \in {"persist", "restore"} -> [Idle EXCEPT !.import = Mine(t), !.status = mem[t].status]
      [] s = "markError"              -> [Idle EXCEPT !.import = Mine(t)]
      [] OTHER                        -> mem[t]

Goto(t, s) == /\ pc' = [pc EXCEPT ![t] = s]
              /\ mem' = [mem EXCEPT ![t] = Kept(t, s)]

Create(i, kind) == /\ source' = [source EXCEPT ![i] = kind]
                   /\ use' = [use EXCEPT ![i] = {}]

-----------------------------------------------------------------------------
\* Uploading and parsing

\* importFile: the SHA of a live import is taken, that of a deleted one is not
Upload(i) ==
    /\ row[i] = "absent"
    /\ \A j \in Live : FileOf[j] # FileOf[i]
    /\ row' = [row EXCEPT ![i] = "live"]
    /\ disk' = disk \cup {FileOf[i]}
    /\ UNCHANGED <<status, results, profiles, requests>>

\* a review or a profile's container answers a further parse
Reviewed(i) == review[i] # "none" \/ source[i] = "PROFILE"

\* parseStatusValue: REVIEW_REQUIRED is not among the statuses it restores
Restored(s) == IF s = "REVIEW_REQUIRED" THEN "ERROR" ELSE s

\* parse: the import, its stored file, a review or a profile's result
FileMissing(i) == FileOf[i] \notin disk

ParseRead(t, i) ==
    /\ pc[t] = "idle" /\ i \in Live
    /\ \/ /\ FileMissing(i)
          /\ Unlocked(i) /\ Set(i, "ERROR")
          /\ UNCHANGED requests
       \/ /\ ~FileMissing(i) /\ ~Reviewed(i)
          /\ pc' = [pc EXCEPT ![t] = "start"]
          /\ mem' = [mem EXCEPT ![t] = [Idle EXCEPT !.import = i, !.status = Restored(status[i])]]
          /\ UNCHANGED status
    /\ UNCHANGED <<row, disk, results, profiles>>

ParseStart(t) ==
    /\ pc[t] = "start"
    /\ SetTo(t, "PARSING")
    /\ Goto(t, "work")
    /\ UNCHANGED <<row, disk, results, profiles>>

\* workerParser.parseFile fails
WorkerFails(t) ==
    /\ pc[t] = "work"
    /\ SetTo(t, "ERROR")
    /\ Goto(t, "idle")
    /\ UNCHANGED <<row, disk, results, profiles>>

\* workerParser.parseFile answers, which takes the file, and stageIfMatched
\* reads; what the worker will say when it compares the workbook with the
\* active versions is drawn here
Select(t) ==
    LET i == Mine(t) IN
    /\ pc[t] = "work" /\ ~FileMissing(i)
    /\ \/ review[i] # "none" /\ Goto(t, "idle") /\ UNCHANGED status
       \/ /\ review[i] = "none" /\ source[i] = "PROFILE"
          /\ SetTo(t, "PARSED") /\ Goto(t, "idle")
       \/ /\ review[i] = "none"
          /\ \/ source[i] = "BUILT_IN"
             \/ source[i] = "none" /\ version.lifecycle # "ACTIVE"
          /\ Goto(t, "persist") /\ UNCHANGED status
       \/ /\ review[i] = "none" /\ source[i] = "none" /\ version.lifecycle = "ACTIVE"
          /\ pc' = [pc EXCEPT ![t] = "match"]
          /\ \/ \E m \in {"noMatch", "drift", "failed"} : mem' = [mem EXCEPT ![t].match = m]
             \/ \E m \in {"blocked", "clean"} :
                   mem' = [mem EXCEPT ![t].match = m, ![t].trust = version.trust,
                                      ![t].current = TRUE]
          /\ UNCHANGED status
    /\ UNCHANGED <<row, disk, results, profiles>>

\* the transactions after the match find the import deleted
SourceChanged(t) ==
    /\ pc[t] = "match" /\ mem[t].match # "drift"
    /\ Unlocked(Mine(t)) /\ Mine(t) \notin Live
    /\ Goto(t, "restore")
    /\ UNCHANGED <<imports, results, profiles>>

Matched(t, outcomes) ==
    /\ pc[t] = "match" /\ mem[t].match \in outcomes
    /\ Unlocked(Mine(t)) /\ Mine(t) \in Live

\* persistAttemptFailure, audit only: the built-in result is used
NoMatch(t) ==
    /\ Matched(t, {"noMatch"})
    /\ Goto(t, "persist")
    /\ UNCHANGED <<imports, results, profiles>>

\* persistAttemptFailure after a legal match: blocksBuiltIn
ExecutionFailed(t) ==
    /\ Matched(t, {"failed"})
    /\ SetTo(t, "ERROR")
    /\ Goto(t, "idle")
    /\ UNCHANGED <<row, disk, results, profiles>>

\* persistSelectionReviewFallback, which does not ask for a live import
Drift(t) ==
    /\ pc[t] = "match" /\ mem[t].match = "drift"
    /\ SetTo(t, "REVIEW_REQUIRED")
    /\ Goto(t, "idle")
    /\ UNCHANGED <<row, disk, results, profiles>>

\* Mutant: only the trust is compared
VersionTrusted(t) == version.trust = mem[t].trust

\* the version is ACTIVE and still the one that was read
VersionCurrent(t) ==
    /\ version.lifecycle = "ACTIVE"
    /\ version.trust = mem[t].trust
    /\ mem[t].current

Trusted(t) == mem[t].match = "clean" /\ mem[t].trust = "TRUSTED"

\* the transaction that stages a result for review
Stage(t) ==
    LET i == Mine(t) IN
    /\ Matched(t, {"clean", "blocked"}) /\ ~Trusted(t)
    /\ \/ review[i] # "none" /\ Goto(t, "idle") /\ UNCHANGED <<status, review>>
       \/ /\ review[i] = "none" /\ i \in Containers
          /\ Goto(t, "restore") /\ UNCHANGED <<status, review>>
       \/ /\ review[i] = "none" /\ i \notin Containers
          /\ review' = IF VersionCurrent(t) THEN [review EXCEPT ![i] = "PENDING"]
                       ELSE review
          /\ SetTo(t, "REVIEW_REQUIRED")
          /\ Goto(t, "idle")
    /\ UNCHANGED <<row, disk, results, version, evidence>>

\* commitTrustedResult
CommitTrusted(t) ==
    LET i == Mine(t) IN
    /\ Matched(t, {"clean"}) /\ Trusted(t)
    /\ \/ /\ source[i] = "PROFILE"
          /\ SetTo(t, "PARSED") /\ Goto(t, "idle")
          /\ UNCHANGED <<results, review>>
       \/ /\ source[i] = "BUILT_IN"
          /\ Goto(t, "restore")
          /\ UNCHANGED <<status, results, review>>
       \/ /\ source[i] = "none" /\ VersionCurrent(t)
          /\ IF NumberTaken(i)
             THEN Goto(t, "markError") /\ UNCHANGED <<status, results>>
             ELSE Create(i, "PROFILE") /\ SetTo(t, "PARSED") /\ Goto(t, "idle")
          /\ UNCHANGED review
       \/ /\ source[i] = "none" /\ ~VersionCurrent(t)
          /\ \/ version.lifecycle = "ACTIVE" /\ review[i] # "none"
                /\ Goto(t, "markError") /\ UNCHANGED <<status, review>>
             \/ version.lifecycle = "ACTIVE" /\ review[i] = "none"
                /\ review' = [review EXCEPT ![i] = "PENDING"]
                /\ SetTo(t, "REVIEW_REQUIRED") /\ Goto(t, "idle")
             \/ version.lifecycle # "ACTIVE"
                /\ SetTo(t, "REVIEW_REQUIRED") /\ Goto(t, "idle") /\ UNCHANGED review
          /\ UNCHANGED results
    /\ UNCHANGED <<row, disk, version, evidence>>

\* Mutants: deleting a container takes its pay, or the review, with it
ReferredByReview(i) == review[i] \in {"ACCEPTED", "CORRECTED"}
ReferredByUse(i)    == use[i] # {}

\* rows that refer to a container with ON DELETE RESTRICT
Referred(i) == use[i] # {} \/ review[i] \in {"ACCEPTED", "CORRECTED"}

\* deleteExistingParsedContainers, then the result of the built-in parser:
\* pallets answer with a conflict, every other reference fails the transaction
Blocked(i) == "pallets" \in use[i]

Persist(t) ==
    LET i == Mine(t)
        taken == \E j \in Containers \ {i} : FileOf[j] = FileOf[i] IN
    /\ pc[t] = "persist" /\ Unlocked(i)
    /\ \/ /\ Blocked(i)
          /\ Goto(t, "restore") /\ UNCHANGED <<status, results>>
       \/ /\ ~Blocked(i) /\ (Referred(i) \/ taken)
          /\ Goto(t, "markError") /\ UNCHANGED <<status, results>>
       \/ /\ ~Blocked(i) /\ ~Referred(i)
          /\ \/ Create(i, "none") /\ Set(i, "ERROR")
             \/ ~taken /\ Create(i, "BUILT_IN") /\ Set(i, "PARSED")
          /\ Goto(t, "idle")
    /\ UNCHANGED <<row, disk, profiles>>

\* the transaction fails for want of the database, or as a deadlock victim
CommitFails(t) ==
    /\ \/ pc[t] = "persist"
       \/ pc[t] = "match" /\ mem[t].match # "noMatch"
    /\ Goto(t, "markError")
    /\ UNCHANGED <<imports, results, profiles>>

\* restoreParseStatusAfterConflict
Restore(t) ==
    /\ pc[t] = "restore"
    /\ SetTo(t, mem[t].status)
    /\ Goto(t, "idle")
    /\ UNCHANGED <<row, disk, results, profiles>>

\* markParsePersistenceFailed
MarkError(t) ==
    /\ pc[t] = "markError"
    /\ SetTo(t, "ERROR")
    /\ Goto(t, "idle")
    /\ UNCHANGED <<row, disk, results, profiles>>

\* The process of the API ends.  A parse stores nothing between PARSING and its
\* last step, so one that ends at "work" stands for one that ends later.
Lost(t) ==
    /\ pc[t] \in Mortal
    /\ Goto(t, "idle")
    /\ UNCHANGED <<imports, results, profiles>>

-----------------------------------------------------------------------------
\* Deletion and what stands against it

\* deletion under the lock of the import: no evidence, no business records,
\* and then the stored files go
LearnedFrom(i) == review[i] # "none"
InUse(i)       == "paid" \in use[i]
CleanUp(i)     == disk' = disk \ {FileOf[i]}

DeleteCheck(t, i) ==
    /\ pc[t] = "idle" /\ i \in Live \cap Busy /\ Unlocked(i)
    /\ ~LearnedFrom(i) /\ ~InUse(i)
    /\ CleanUp(i)
    /\ pc' = [pc EXCEPT ![t] = "delete"]
    /\ mem' = [mem EXCEPT ![t] = [Idle EXCEPT !.import = i, !.use = use[i]]]
    /\ UNCHANGED <<row, status, results, profiles>>

\* the pallets that were seen go, by their ids; anything else that refers to
\* the container by now fails the transaction
DeleteCommit(t) ==
    LET i == Mine(t) IN
    /\ pc[t] = "delete"
    /\ IF use[i] # mem[t].use
       THEN UNCHANGED <<row, status, results>>
       ELSE /\ row' = [row EXCEPT ![i] = "deleted"]
            /\ status' = [status EXCEPT ![i] = "NOT_PARSED"]
            /\ Create(i, "none")
    /\ Goto(t, "idle")
    /\ UNCHANGED <<disk, profiles>>

\* labels.generateLabels and saveContainerUnloadingWage
Use(i, u) ==
    /\ i \in Containers \cap Busy
    /\ use' = [use EXCEPT ![i] = @ \cup {u}]
    /\ UNCHANGED <<imports, source, profiles, requests>>

-----------------------------------------------------------------------------
\* Reviews and the life of a version; each is one transaction under the locks
\* of the import, its review and the version

LeastOf(m, n) == IF m < n THEN m ELSE n

\* lifecycle_revision is only compared with the one a parse has read, so a
\* parse keeps whether it has changed since
NextRevision == mem' = [t \in Tx |-> [mem[t] EXCEPT !.current = FALSE]]

\* commit: accept, or correct; a material correction ends the streak
\* Mutants: a material correction leaves the streak; the streak has no end
StreakKept(material)    == IF material THEN version.streak ELSE LeastOf(version.streak + 1, Needed)
StreakEndless(material) == IF material THEN 0 ELSE version.streak + 1

Streak(material)   == IF material THEN 0 ELSE LeastOf(version.streak + 1, Needed)
Promoted(material) == Streak(material) = Needed /\ version.trust # "TRUSTED"

Accepted(material) ==
    [version EXCEPT
        !.streak = Streak(material),
        !.trust = IF material THEN "REVIEW_REQUIRED"
                  ELSE IF Promoted(material) THEN "TRUSTED" ELSE @]

Accept(i, decision, material) ==
    /\ review[i] = "PENDING" /\ Unlocked(i) /\ i \in Live
    /\ version.lifecycle = "ACTIVE"
    /\ ~NumberTaken(i)
    /\ material => decision = "CORRECTED"
    /\ Create(i, "PROFILE")
    /\ version' = Accepted(material)
    /\ IF Promoted(material) THEN NextRevision ELSE UNCHANGED mem
    /\ evidence' = IF material THEN 0 ELSE evidence + 1
    /\ Set(i, "PARSED")
    /\ review' = [review EXCEPT ![i] = decision]
    /\ UNCHANGED <<row, disk, pc>>

\* reject, whatever the life cycle; the revision stays
Reject(i) ==
    /\ review[i] = "PENDING" /\ Unlocked(i)
    /\ version' = [version EXCEPT !.trust = "REVIEW_REQUIRED", !.streak = 0]
    /\ evidence' = 0
    /\ Set(i, "ERROR")
    /\ review' = [review EXCEPT ![i] = "REJECTED"]
    /\ UNCHANGED <<row, disk, results, requests>>

\* revokeTrustedProfileForMaterialCorrection
Revoke(i) ==
    /\ source[i] = "PROFILE"
    /\ version.trust = "TRUSTED"
    /\ version' = [version EXCEPT !.trust = "REVIEW_REQUIRED", !.streak = 0]
    /\ NextRevision
    /\ UNCHANGED <<imports, results, review, evidence, pc>>

\* pause, resume; a retired version is a paused one that is never resumed
Transition(from, to) ==
    /\ version.lifecycle = from
    /\ version' = [version EXCEPT !.lifecycle = to]

Govern ==
    /\ \/ Transition("ACTIVE", "PAUSED")
       \/ Transition("PAUSED", "ACTIVE")
    /\ NextRevision
    /\ UNCHANGED <<imports, results, review, evidence, pc>>

-----------------------------------------------------------------------------
Parse(t) ==
    \/ \E i \in Imports : ParseRead(t, i)
    \/ ParseStart(t) \/ WorkerFails(t) \/ Select(t)
    \/ SourceChanged(t) \/ NoMatch(t) \/ ExecutionFailed(t) \/ Drift(t)
    \/ Stage(t) \/ CommitTrusted(t) \/ Persist(t) \/ CommitFails(t)
    \/ Restore(t) \/ MarkError(t) \/ Lost(t)

Delete(t) == DeleteCommit(t) \/ \E i \in Imports : DeleteCheck(t, i)

Decide == \E i \in Imports :
    \/ \E decision \in {"ACCEPTED", "CORRECTED"}, material \in BOOLEAN :
          Accept(i, decision, material)
    \/ Reject(i) \/ Revoke(i)

Others == \E i \in Imports : Upload(i) \/ \E u \in Uses : Use(i, u)

Init ==
    /\ row = [i \in Imports |-> "absent"]
    /\ status = [i \in Imports |-> "NOT_PARSED"]
    /\ disk = {}
    /\ source = [i \in Imports |-> "none"]
    /\ use = [i \in Imports |-> {}]
    /\ review = [i \in Imports |-> "none"]
    /\ \E n \in Earlier :
          /\ evidence = n
          /\ version = [lifecycle |-> "ACTIVE", trust |-> "REVIEW_REQUIRED", streak |-> n]
    /\ pc = [t \in Tx |-> "idle"]
    /\ mem = [t \in Tx |-> Idle]

Next == (\E t \in Tx : Parse(t) \/ Delete(t)) \/ Decide \/ Govern \/ Others

Spec == Init /\ [][Next]_vars

-----------------------------------------------------------------------------
\* Trust is made of reviews: the streak never exceeds the acceptances since the
\* last material correction or rejection, and a trusted version has all of
\* them, whatever order the imports are decided in.
TrustIsEarned ==
    /\ version.streak <= evidence
    /\ version.trust = "TRUSTED" <=> version.streak = Needed

\* A profile's container comes from a decision, or from a version that is active
\* and trusted at the moment of the commit: one that was paused, retired,
\* demoted or promoted anew since a parse has read it does not commit.
OnlyTrustedCommits == [][
    \A i \in Imports : source[i] # "PROFILE" /\ source'[i] = "PROFILE" =>
        \/ review[i] = "PENDING" /\ review'[i] \in {"ACCEPTED", "CORRECTED"}
        \/ version.lifecycle = "ACTIVE" /\ version.trust = "TRUSTED"
    ]_vars

\* What was learned from stays: an import with a review is not deleted, and the
\* container of an accepted one is not rebuilt by a parse that began earlier.
ReviewedStays == \A i \in Imports :
    /\ review[i] # "none" => i \in Live
    /\ review[i] \in {"ACCEPTED", "CORRECTED"} => source[i] = "PROFILE"

\* Business records outlive parses and deletions: a paid container stays as it
\* is, and pallets go only with the deletion of their import.
BusinessRecordsStay == [][
    \A i \in Imports :
        /\ "paid" \in use[i] => "paid" \in use'[i] /\ source'[i] = source[i]
        /\ "pallets" \in use[i] /\ "pallets" \notin use'[i] =>
               i \in Live /\ row'[i] = "deleted"
    ]_vars

\* docs/architecture/04-api-contracts.md:96: "Set import_files.parse_status
\* accurately."  When no parse is under way, none is said to be, and an import
\* that says PARSED has its container.  The code breaks it.
StatusIsAccurate == \A i \in Live :
    (\A t \in Tx : Mine(t) # i) =>
        /\ status[i] # "PARSING"
        /\ status[i] = "PARSED" => i \in Containers
=============================================================================
