--------------------------- MODULE TenureAbstract ---------------------------
(***************************************************************************)
(* What the Tenure Controller promises (spec section 4.3), with the        *)
(* clocks, the fetcher, the tracker and the node hidden: every admitted    *)
(* block opens a new tenure, a tenure gets at most one price update while *)
(* RBF is off, the tenure is marked updated exactly when it got it, and    *)
(* once the Controller has stopped nothing changes.                        *)
(***************************************************************************)
EXTENDS Naturals

VARIABLES
    tenure,    \* tenures opened so far
    updated,   \* the current tenure is marked as having had its update
    posts,     \* price updates posted in the current tenure
    stopped    \* the Controller has left its loop

vars == <<tenure, updated, posts, stopped>>

Init ==
    /\ tenure = 0
    /\ updated = FALSE
    /\ posts = 0
    /\ stopped = FALSE

\* A new block: a fresh tenure, not yet updated.
NewTenure ==
    /\ ~stopped
    /\ tenure' = tenure + 1
    /\ updated' = FALSE
    /\ posts' = 0
    /\ UNCHANGED stopped

\* The one update of the current tenure: posted and marked in one step.
Update ==
    /\ ~stopped
    /\ ~updated
    /\ posts = 0
    /\ posts' = 1
    /\ updated' = TRUE
    /\ UNCHANGED <<tenure, stopped>>

Stop ==
    /\ ~stopped
    /\ stopped' = TRUE
    /\ UNCHANGED <<tenure, updated, posts>>

Next == NewTenure \/ Update \/ Stop

Spec == Init /\ [][Next]_vars

=============================================================================
