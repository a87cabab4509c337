-------------------------- MODULE LeaveEntitlement --------------------------
(***************************************************************************)
(* What the leave module promises the employee and the employer about the  *)
(* leave of one type in one cycle: days are asked for within what has been *)
(* credited, a request is answered at most once, and a leave that was      *)
(* refused or given back is never taken after all.                         *)
(***************************************************************************)
EXTENDS Naturals

CONSTANTS Leaves, Total

VARIABLES
    asked,      \* requests that wait for an answer
    taken,      \* requests that were granted
    closed,     \* requests that were refused or given back
    entitled    \* days credited so far, with what was carried in

evars == <<asked, taken, closed, entitled>>

EInit == asked = {} /\ taken = {} /\ closed = {} /\ entitled \in Nat

Ask(l) ==
    /\ l \notin asked \cup taken \cup closed
    /\ Total[asked \cup taken \cup {l}] <= entitled
    /\ asked' = asked \cup {l}
    /\ UNCHANGED <<taken, closed, entitled>>

Grant(l) ==
    /\ l \in asked
    /\ asked' = asked \ {l} /\ taken' = taken \cup {l}
    /\ UNCHANGED <<closed, entitled>>

Close(l) ==
    /\ l \in asked \cup taken
    /\ asked' = asked \ {l} /\ taken' = taken \ {l} /\ closed' = closed \cup {l}
    /\ UNCHANGED entitled

Accrue ==
    /\ entitled' \in Nat /\ entitled' >= entitled
    /\ UNCHANGED <<asked, taken, closed>>

ENext ==
    \/ \E l \in Leaves : Ask(l) \/ Grant(l) \/ Close(l)
    \/ Accrue

ESpec == EInit /\ [][ENext]_evars
=============================================================================
