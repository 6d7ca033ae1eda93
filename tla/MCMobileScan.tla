---------------------------- MODULE MCMobileScan ----------------------------
(* Small instances of MobileScan for TLC. *)
EXTENDS MobileScan, TLC

\* A scan does not overlap the sending of the queue, and the screen of the
\* session (restore, sign-in) is not in use while a request is under way.
TasksApart ==
    {<<"scan", "sync">>} \cup ({"restore", "signIn", "signOut"} \X Kinds)

Interchangeable == Permutations(Tasks) \cup Permutations(Pallets)
=============================================================================
