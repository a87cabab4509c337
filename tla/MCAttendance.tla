----------------------------- MODULE MCAttendance -----------------------------
EXTENDS Attendance
TwoDays == [d \in 1..2 |-> IF d = 2 THEN "WEEK_OFF" ELSE "NO"]
Scan(at, act, src) == [at |-> at, act |-> act, src |-> src]
SomeScans == {Scan(3, "CHECK_IN", "DEVICE"), Scan(4, "CHECK_OUT", "API")}
Ask(kind, from, to, first, last, age) ==
    [kind |-> kind, from |-> from, to |-> to, first |-> first, last |-> last, age |-> age]
SomeRequests == {Ask("LEAVE", 1, 2, 1, 2, 1), Ask("WFH", 1, 1, 2, 2, 2)}
SomeTaps == {<<2, "CHECK_IN">>}
SomeEdits == {[date |-> 1, in |-> 2, out |-> 4], [date |-> 1, in |-> NoTime, out |-> 4]}
===============================================================================
