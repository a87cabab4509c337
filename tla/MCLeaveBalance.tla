--------------------------- MODULE MCLeaveBalance ---------------------------
(* Instances of LeaveBalance for TLC: a request of one day and one of two. *)
EXTENDS LeaveBalance, FiniteSets, FiniteSetsExt
CONSTANTS l1, l2, e1, e2

TwoLeaves == {l1, l2}
Days(l) == IF l = l1 THEN 1 ELSE 2
OneLeave == {l2}
SumOfDays == [L \in SUBSET Leaves |-> MapThenSumSet(Days, L)]

OneEncashment == {e1}
TwoEncashments == {e1, e2}
OneDayEach == [E \in SUBSET Encashments |-> Cardinality(E)]
=============================================================================
