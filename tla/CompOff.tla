------------------------------ MODULE CompOff ------------------------------
(***************************************************************************)
(* Compensatory off: the units one employee earned by working on a day     *)
(* off, and the leave requests that redeem them.  A request reserves units *)
(* accrual by accrual, the one that expires first before the others, and   *)
(* its redemption rows follow its approval.  create_leave_request and      *)
(* withdraw_leave_request of backend/apps/timeoff/services.py are not      *)
(* transactions: each of their statements is a step of its own here, the   *)
(* day may change between two of them, and any of them may be the last     *)
(* one a call gets to.  The leaves asked for are of different days, as the *)
(* check for overlapping requests demands, and the approval run is reduced *)
(* to how it ends (ApprovalRun has the rest).                              *)
(***************************************************************************)
EXTENDS Naturals, FiniteSets, FiniteSetsExt

CONSTANTS
    Accruals,   \* accruals, numbered in the order they are drawn on
    Units,      \* Units[a]: what accrual a is worth
    Expires,    \* Expires[a]: the last day it may be drawn on
    Leaves,     \* leave requests of the comp-off type there may be
    Asked,      \* Asked[l]: total_units of l
    LastDay,    \* a bound on the days that pass
    Serial      \* TRUE: the employee's calls are served one after the other

ASSUME CompOffAssumption ==
    /\ Accruals \subseteq Nat /\ IsFiniteSet(Accruals) /\ IsFiniteSet(Leaves)
    /\ Units \in [Accruals -> Nat]
    /\ Expires \in [Accruals -> Nat]
    /\ \A a, b \in Accruals : a < b => Expires[a] =< Expires[b]
    /\ Asked \in [Leaves -> Nat \ {0}]
    /\ LastDay \in Nat
    /\ Serial \in BOOLEAN

\* Each leave has one call at a time: a withdrawal does not meet the creation of
\* the same request
VARIABLES
    today,
    granted,    \* accruals with status APPROVED
    leave,      \* leave[l]: status of the request
    row,        \* row[<<l, a>>]: the redemption of accrual a for leave l
    run,        \* run[l]: status of its approval run
    call        \* call[l]: how far the call on l has come, and what it has read; day
                \* is when its units were validated

vars == <<today, granted, leave, row, run, call>>

LeaveStatus == {"NONE", "PENDING", "APPROVED", "REJECTED", "WITHDRAWN"}
RowStatus == {"NONE", "PENDING", "APPROVED", "REJECTED", "CANCELLED"}
RunStatus == {"NONE", "PENDING", "APPROVED", "REJECTED", "CANCELLED"}

NoRow == [units |-> 0, status |-> "NONE"]

\* "short", "stopped" and "withdrawn" are ends: too few units, an error or a
\* crash, and a withdrawal that ran through
Rests == {"idle", "short", "stopped", "withdrawn"}
Call ==
    [pc : Rests \cup {"valid", "reserved", "marked", "settle"}, day : Nat]
    \cup [pc : {"reserve"}, day : Nat, todo : SUBSET Accruals, left : Nat]
    \cup [pc : {"take"}, day : Nat, todo : SUBSET Accruals, left : Nat,
          from : Accruals, units : Nat]
    \cup [pc : {"found"}, day : Nat, seen : RunStatus]

TypeOK ==
    /\ today \in Nat
    /\ granted \subseteq Accruals
    /\ leave \in [Leaves -> LeaveStatus]
    /\ row \in [Leaves \X Accruals -> [units : Nat, status : RowStatus]]
    /\ run \in [Leaves -> RunStatus]
    /\ call \in [Leaves -> Call]

At(pc) == [pc |-> pc, day |-> 0]
Moves(l, c) == call' = [call EXCEPT ![l] = c]
Resting(l) == call[l].pc \in Rests
Quiet == \A l \in Leaves : Resting(l)

\* A call may start on l
Starts(l) == Resting(l) /\ (Serial => Quiet)

Init ==
    /\ today = 0
    /\ granted = {}
    /\ leave = [l \in Leaves |-> "NONE"]
    /\ row = [p \in Leaves \X Accruals |-> NoRow]
    /\ run = [l \in Leaves |-> "NONE"]
    /\ call = [l \in Leaves |-> [pc |-> "idle", day |-> 0]]

----------------------------------------------------------------------------
(* What is reserved, and what is left.                                     *)

Reserved == {"PENDING", "APPROVED"}

\* Mutant: what awaits an answer is not counted
ReservedApproved == {"APPROVED"}

ReservedStatuses == Reserved

\* The sum of f over S, counted unit by unit
SumOver(f, S) == Cardinality(UNION {{x} \X (1..f[x]) : x \in S})

UnitsOf(P) == SumOver([p \in P |-> row[p].units], P)
RowsOf(a) == {p \in Leaves \X {a} : row[p].status \in ReservedStatuses}
Held(a) == UnitsOf(RowsOf(a))
Left(a) == IF Units[a] > Held(a) THEN Units[a] - Held(a) ELSE 0

Usable == {a \in granted : Expires[a] >= today}

\* Mutant: what is already reserved is not subtracted
AvailableGross == SumOver(Units, Usable)

\* Units reserved on accruals that have expired since are subtracted too
Available ==
    LET earned == SumOver(Units, Usable)
        reserved == UnitsOf(UNION {RowsOf(a) : a \in Accruals})
    IN IF earned > reserved THEN earned - reserved ELSE 0

----------------------------------------------------------------------------
(* create_leave_request.                                                   *)

\* validate_comp_off_balance
Validate(l) ==
    /\ leave[l] = "NONE" /\ call[l].pc = "idle" /\ Starts(l)
    /\ Asked[l] =< Available
    /\ Moves(l, [pc |-> "valid", day |-> today])
    /\ UNCHANGED <<today, granted, leave, row, run>>

File(l) ==
    /\ call[l].pc = "valid"
    /\ leave' = [leave EXCEPT ![l] = "PENDING"]
    /\ Moves(l, [pc |-> "reserve", day |-> call[l].day, todo |-> Usable, left |-> Asked[l]])
    /\ UNCHANGED <<today, granted, row, run>>

\* One turn of the loop of _reserve_comp_off_redemption: its query
Look(l) ==
    /\ call[l].pc = "reserve" /\ call[l].todo # {}
    /\ LET a == Min(call[l].todo)
           rest == call[l].todo \ {a}
       IN IF Left(a) = 0
          THEN Moves(l, [pc |-> "reserve", day |-> call[l].day, todo |-> rest,
                         left |-> call[l].left])
          ELSE Moves(l, [pc |-> "take", day |-> call[l].day, todo |-> rest,
                         left |-> call[l].left, from |-> a,
                         units |-> Min({call[l].left, Left(a)})])
    /\ UNCHANGED <<today, granted, leave, row, run>>

\* and the row it creates
Take(l) ==
    /\ call[l].pc = "take"
    /\ LET left == call[l].left - call[l].units
       IN /\ row' = [row EXCEPT ![<<l, call[l].from>>] =
                         [units |-> call[l].units, status |-> "PENDING"]]
          /\ Moves(l, IF left = 0 THEN At("reserved")
                      ELSE [pc |-> "reserve", day |-> call[l].day, todo |-> call[l].todo,
                            left |-> left])
    /\ UNCHANGED <<today, granted, leave, run>>

\* The loop ends with units still to be found: the call raises, and the request
\* and the rows it has stay
ComeShort(l) ==
    /\ call[l].pc = "reserve" /\ call[l].todo = {}
    /\ Moves(l, [pc |-> "short", day |-> call[l].day])
    /\ UNCHANGED <<today, granted, leave, row, run>>

\* create_approval_run, a transaction of its own
OpenRun(l) ==
    /\ call[l].pc = "reserved"
    /\ run' = [run EXCEPT ![l] = "PENDING"]
    /\ Moves(l, At("idle"))
    /\ UNCHANGED <<today, granted, leave, row>>

\* The worker dies in the middle of a call, or no workflow or approver is found
Stop(l) ==
    /\ ~ Resting(l)
    /\ Moves(l, At("stopped"))
    /\ UNCHANGED <<today, granted, leave, row, run>>

----------------------------------------------------------------------------
(* How the request ends.                                                   *)

RowStatusFor(status) ==
    CASE status = "APPROVED" -> "APPROVED"
      [] status = "REJECTED" -> "REJECTED"
      [] status = "WITHDRAWN" -> "CANCELLED"
      [] OTHER -> "PENDING"

\* Mutant: only rows that await an answer follow the request
SyncPending(l, status) ==
    [p \in Leaves \X Accruals |->
        IF p[1] = l /\ row[p].status = "PENDING"
        THEN [units |-> row[p].units, status |-> RowStatusFor(status)] ELSE row[p]]

\* Mutant: one row follows the request
SyncOne(l, status) ==
    [p \in Leaves \X Accruals |->
        IF p[1] = l /\ row[p].status # "NONE" /\ \A a \in Accruals :
                            row[<<l, a>>].status # "NONE" => p[2] =< a
        THEN [units |-> row[p].units, status |-> RowStatusFor(status)] ELSE row[p]]

\* sync_comp_off_redemptions_for_leave_request
Sync(l, status) ==
    [p \in Leaves \X Accruals |->
        IF p[1] = l /\ row[p].status # "NONE"
        THEN [units |-> row[p].units, status |-> RowStatusFor(status)] ELSE row[p]]

\* The run ends: _apply_subject_status saves the status, the rows follow
Answer(l, status) ==
    /\ run[l] = "PENDING" /\ (Serial => Quiet)
    /\ run' = [run EXCEPT ![l] = status]
    /\ leave' = [leave EXCEPT ![l] = status]
    /\ row' = Sync(l, status)
    /\ UNCHANGED <<today, granted, call>>

\* withdraw_leave_request: the status first,
MarkWithdrawn(l) ==
    /\ leave[l] \in {"PENDING", "APPROVED"} /\ Starts(l)
    /\ leave' = [leave EXCEPT ![l] = "WITHDRAWN"]
    /\ Moves(l, At("marked"))
    /\ UNCHANGED <<today, granted, row, run>>

FindRun(l) ==
    /\ call[l].pc = "marked"
    /\ Moves(l, [pc |-> "found", day |-> 0, seen |-> run[l]])
    /\ UNCHANGED <<today, granted, leave, row, run>>

\* then cancel_approval_run, which does nothing to a run that has ended,
CancelRun(l) ==
    /\ call[l].pc = "found"
    /\ IF call[l].seen = "PENDING"
       THEN /\ run' = [run EXCEPT ![l] = "CANCELLED"]
            /\ leave' = [leave EXCEPT ![l] = "WITHDRAWN"]
            /\ row' = Sync(l, "WITHDRAWN")
       ELSE UNCHANGED <<run, leave, row>>
    /\ Moves(l, At("settle"))
    /\ UNCHANGED <<today, granted>>

\* and the rows last
GiveBack(l) ==
    /\ call[l].pc = "settle"
    /\ row' = Sync(l, "WITHDRAWN")
    /\ Moves(l, At("withdrawn"))
    /\ UNCHANGED <<today, granted, leave, run>>

----------------------------------------------------------------------------
(* Accruals come from outside; nights fall at any moment.                  *)

Grant(a) ==
    /\ a \notin granted
    /\ granted' = granted \cup {a}
    /\ UNCHANGED <<today, leave, row, run, call>>

Night ==
    /\ today < LastDay
    /\ today' = today + 1
    /\ UNCHANGED <<granted, leave, row, run, call>>

Next ==
    \/ \E l \in Leaves :
        \/ Validate(l)
        \/ File(l)
        \/ Look(l)
        \/ Take(l)
        \/ ComeShort(l)
        \/ OpenRun(l)
        \/ Stop(l)
        \/ \E s \in {"APPROVED", "REJECTED"} : Answer(l, s)
        \/ MarkWithdrawn(l)
        \/ FindRun(l)
        \/ CancelRun(l)
        \/ GiveBack(l)
    \/ \E a \in Accruals : Grant(a)
    \/ Night

Spec == Init /\ [][Next]_vars

----------------------------------------------------------------------------
(* Properties.                                                             *)

\* No accrual is redeemed beyond its units by requests served one after the
\* other, also when some of them stopped half way (_reserve_comp_off_redemption)
NeverOverTaken == \A a \in Accruals : Held(a) =< Units[a]

\* A leave that is approved has redeemed exactly the units it takes, though it
\* collected them row by row (create_leave_request, handle_approval_status_change)
ApprovedIsCovered ==
    \A l \in Leaves : leave[l] = "APPROVED" =>
        Asked[l] = UnitsOf({p \in {l} \X Accruals : row[p].status = "APPROVED"})

\* A request that was refused, or whose withdrawal ran through, holds nothing: the
\* rows follow the run whichever way it ended (cancel_approval_run, sync_...)
RefusedGivesBack ==
    \A l \in Leaves :
        run[l] \in {"REJECTED", "CANCELLED"} \/ call[l].pc = "withdrawn" =>
            \A a \in Accruals : row[<<l, a>>].status \notin Reserved

\* What validate_comp_off_balance promised is found: a request served alone comes
\* short only when an accrual expired at midnight between the two
\* (get_available_comp_off_units and _reserve_comp_off_redemption count alike)
ShortOnlyByMidnight ==
    \A l \in Leaves : call[l].pc = "short" => \E a \in granted : Expires[a] >= call[l].day
                                                                /\ Expires[a] < today
=============================================================================
