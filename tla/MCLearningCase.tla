--------------------------- MODULE MCLearningCase ---------------------------
(* Small instances of LearningCase for TLC. *)
EXTENDS LearningCase, TLC

CONSTANTS f1, f2, t1, t2

\* a container is corrected once
Once == {<<f1, f2>>}

\* the second draft fits the corrected container
OneEach == <<f1, f2>>

\* what overlaps: everything with captures and submissions, what edits the case with
\* what ends it
EditsAndEnds ==
    (t1 :> {"save", "link", "submit", "capture"})
    @@ (t2 :> {"unlink", "close", "approve", "capture"})

\* containers are interchangeable, and so are jobs
Interchangeable == Permutations(Containers) \cup Permutations(Jobs)
=============================================================================
