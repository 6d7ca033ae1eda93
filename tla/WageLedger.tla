----------------------------- MODULE WageLedger ------------------------------
(***************************************************************************)
(* What one attendance import promises to whoever settles wages with it:   *)
(* the employee days it consists of, and the workbooks that may be         *)
(* downloaded as current.  A workbook is current only while it holds       *)
(* exactly the days of the import; a struck day never comes back; a closed *)
(* import has no current workbook and does not change any more.            *)
(***************************************************************************)
CONSTANTS Requests, Days

VARIABLES
    days,    \* the active employee days
    struck,  \* the days that were deleted by hand
    closed,  \* the import was deleted
    book     \* the current workbook a request made, a set of at most one

vars == <<days, struck, closed, book>>

NoBooks == [p \in Requests |-> {}]

Init ==
    /\ days = {} /\ struck = {}
    /\ closed = FALSE
    /\ book = NoBooks

\* the workbook is read again: all days but the struck ones
Rebuild(found) ==
    /\ ~closed
    /\ days' = found \ struck
    /\ book' = NoBooks
    /\ UNCHANGED <<struck, closed>>

Strike(d) ==
    /\ ~closed
    /\ d \in days
    /\ days' = days \ {d}
    /\ struck' = struck \cup {d}
    /\ book' = NoBooks
    /\ UNCHANGED closed

Publish(p) ==
    /\ ~closed
    /\ book' = [book EXCEPT ![p] = {days}]
    /\ UNCHANGED <<days, struck, closed>>

Close ==
    /\ ~closed
    /\ closed' = TRUE
    /\ book' = NoBooks
    /\ UNCHANGED <<days, struck>>

Next ==
    \/ \E found \in SUBSET Days : Rebuild(found)
    \/ \E d \in Days : Strike(d)
    \/ \E p \in Requests : Publish(p)
    \/ Close

Spec == Init /\ [][Next]_vars
=============================================================================
