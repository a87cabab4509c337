--------------------------- MODULE Reimbursement ---------------------------
(***************************************************************************)
(* What the expense and payroll modules together promise an employee: a    *)
(* claim that is approved is owed from then on, whatever is recalculated,  *)
(* resubmitted or refused meanwhile, until the payslips of one pay run pay *)
(* it; a pay run issues its payslips once, and they stay as they are.      *)
(***************************************************************************)
CONSTANTS Runs, Claims

VARIABLES
    owed,      \* claims that are approved and not paid
    issued,    \* pay runs that have issued their payslips
    paid       \* paid[r]: claims the payslips of r pay

rvars == <<owed, issued, paid>>

RInit == owed = {} /\ issued = {} /\ paid = [r \in Runs |-> {}]

Grant(c) ==
    /\ c \notin owed /\ \A r \in Runs : c \notin paid[r]
    /\ owed' = owed \cup {c}
    /\ UNCHANGED <<issued, paid>>

Issue(r, S) ==
    /\ r \notin issued
    /\ S \subseteq owed
    /\ issued' = issued \cup {r}
    /\ paid' = [paid EXCEPT ![r] = S]
    /\ owed' = owed \ S

RNext ==
    \/ \E c \in Claims : Grant(c)
    \/ \E r \in Runs, S \in SUBSET Claims : Issue(r, S)

RSpec == RInit /\ [][RNext]_rvars
=============================================================================
