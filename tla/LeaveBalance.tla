---------------------------- MODULE LeaveBalance ----------------------------
(***************************************************************************)
(* The balance of one employee, one leave type and one leave cycle of      *)
(* backend/apps/timeoff.  The row keeps how much was credited, used and is *)
(* pending, but get_or_create_leave_balance computes the three again from  *)
(* the leave requests and the date every time it is called, and saves what *)
(* it found; encashments and the nightly cycle-end task write the same     *)
(* columns.  A request of an employee is several transactions, so requests *)
(* overlap; their approval runs are those of ApprovalRun, seen here by     *)
(* their status alone.                                                     *)
(* Amounts are whole units; the source keeps two decimals.                 *)
(***************************************************************************)
EXTENDS Integers

CONSTANTS
    Leaves,          \* leave requests the employee may raise, on different days of the cycle
    Total,           \* Total[L]: SUM(total_units) of the requests L
    Encashments,     \* encashment requests the employee may raise
    Debited,         \* Debited[E]: days that the encashments E ask to be paid
    Rate,            \* credit of one period: annual_entitlement over the periods of a year
    PeriodsPerYear,  \* 12, 4, 2, or 1 for a yearly credit
    LastPeriod,      \* bound on the time that passes; beyond PeriodsPerYear the cycle has ended
    Carried,         \* carried_forward_amount of the cycle
    MaxBalance,      \* max_balance; a large number stands for none
    CarryMode,       \* carry_forward_mode: "NONE", "CAPPED" or "UNLIMITED"
    CarryCap,        \* carry_forward_cap
    MaxSweeps,       \* bound on the nights the cycle-end task runs
    Serial           \* TRUE: requests, decisions and tasks are served one at a time

ASSUME LeaveAssumption ==
    /\ Total \in [SUBSET Leaves -> Nat]
    /\ \A L, M \in SUBSET Leaves : L \cap M = {} => Total[L \cup M] = Total[L] + Total[M]
    /\ Debited \in [SUBSET Encashments -> Nat]
    /\ Rate \in Nat /\ PeriodsPerYear \in Nat \ {0} /\ LastPeriod \in Nat \ {0}
    /\ Carried \in Nat /\ MaxBalance \in Nat /\ CarryCap \in Nat /\ MaxSweeps \in Nat
    /\ CarryMode \in {"NONE", "CAPPED", "UNLIMITED"}
    /\ Carried <= MaxBalance
    /\ Serial \in BOOLEAN

VARIABLES
    leave,      \* leave[l]: status column of the request, and of its approval run
    submit,     \* submit[l]: the POST that raises l, and the used days it has read
    withdraw,   \* withdraw[l]: the POST that withdraws l, likewise
    view,       \* a page that shows the balances, likewise
    bal,        \* the LeaveBalance row
    encash,     \* encash[e]: status of the encashment request
    debits,     \* debits[e]: DEBIT ledger entries of encashment e
    period,     \* periods of the year that have begun, today
    job,        \* the cycle-end task, and the row as its query has read it
    expired,    \* EXPIRY ledger entries of the row: how many, and their total
    sweeps,     \* nights the task has run
    next        \* carried_forward_amount of the cycle that follows

vars == <<leave, submit, withdraw, view, bal, encash, debits, period, job, expired, sweeps,
          next>>

LeaveStatus == {"NONE", "PENDING", "APPROVED", "REJECTED", "WITHDRAWN"}
RunStatus == {"NONE", "PENDING", "APPROVED", "REJECTED", "CANCELLED"}
Balances == [credited : Nat, used : Nat, pending : Nat]

NewRow == [credited |-> 0, used |-> 0, pending |-> 0]
NoRow == [pc |-> "idle", row |-> NewRow]

TypeOK ==
    /\ leave \in [Leaves -> [status : LeaveStatus, approval : RunStatus]]
    /\ submit \in [Leaves -> [pc : {"idle", "counting", "checked", "saved", "raised",
                                    "recounting", "done"}, used : Nat]]
    /\ withdraw \in [Leaves -> [pc : {"idle", "asked", "marked", "cancelling", "left",
                                      "recounting", "done"}, used : Nat]]
    /\ view \in [pc : {"idle", "counting"}, used : Nat]
    /\ bal \in Balances
    /\ encash \in [Encashments -> {"NONE", "CHECKED", "PENDING", "APPROVED", "REJECTED"}]
    /\ debits \in [Encashments -> Nat]
    /\ period \in 1..LastPeriod
    /\ job \in [pc : {"idle", "loaded"}, row : Balances]
    /\ expired \in [count : Nat, total : Nat]
    /\ sweeps \in 0..MaxSweeps
    /\ next \in Nat

Quiet ==
    /\ \A l \in Leaves : submit[l].pc \in {"idle", "done"} /\ withdraw[l].pc \in {"idle", "done"}
    /\ \A e \in Encashments : encash[e] # "CHECKED"
    /\ view.pc = "idle" /\ job.pc = "idle"

MayStart == Serial => Quiet

Ended == period > PeriodsPerYear

----------------------------------------------------------------------------
(* The computed balance.                                                   *)

AtLeastZero(x) == IF x > 0 THEN x ELSE 0
Lesser(x, y) == IF x < y THEN x ELSE y

Units(l) == Total[{l}]
InStatus(status) == {l \in Leaves : leave[l].status = status}

\* _compute_credit_for_period for an employee who joined before the cycle.  The
\* periods are counted to today's date, which may lie beyond the end of the cycle.
CreditFor(p) == IF PeriodsPerYear = 1 THEN Rate ELSE Rate * p

\* What get_or_create_leave_balance writes, from the totals it has read
Recomputed(used, pending) ==
    [credited |-> AtLeastZero(Lesser(CreditFor(period), MaxBalance - Carried + used + pending)),
     used |-> used, pending |-> pending]

Available(b) == Carried + b.credited - b.used - b.pending

\* The two queries of get_or_create_leave_balance are two snapshots: the first
\* step of a call reads the approved days, the second the pending ones, and saves.
Count(calls, c, to) == [calls EXCEPT ![c] = [pc |-> to, used |-> Total[InStatus("APPROVED")]]]
Found(used) == Recomputed(used, Total[InStatus("PENDING")])

GoTo(calls, c, to) == [calls EXCEPT ![c] = [pc |-> to, used |-> 0]]

----------------------------------------------------------------------------
(* create_leave_request                                                    *)

BeginSubmit(l) ==
    /\ MayStart
    /\ submit[l].pc = "idle"
    /\ submit' = Count(submit, l, "counting")
    /\ UNCHANGED <<leave, withdraw, view, bal, encash, debits, period, job, expired, sweeps, next>>

\* Mutant: the request is compared with what was credited
CheckCreditOnly(l) ==
    /\ submit[l].pc = "counting"
    /\ bal' = Found(submit[l].used)
    /\ submit' = GoTo(submit, l, IF Units(l) <= Carried + bal'.credited THEN "checked" ELSE "done")
    /\ UNCHANGED <<leave, withdraw, view, encash, debits, period, job, expired, sweeps, next>>

\* validate_leave_balance, on the row as it was just computed
Check(l) ==
    /\ submit[l].pc = "counting"
    /\ bal' = Found(submit[l].used)
    /\ submit' = GoTo(submit, l, IF Units(l) <= Available(bal') THEN "checked" ELSE "done")
    /\ UNCHANGED <<leave, withdraw, view, encash, debits, period, job, expired, sweeps, next>>

Insert(l) ==
    /\ submit[l].pc = "checked"
    /\ leave' = [leave EXCEPT ![l].status = "PENDING"]
    /\ submit' = GoTo(submit, l, "saved")
    /\ UNCHANGED <<withdraw, view, bal, encash, debits, period, job, expired, sweeps, next>>

\* create_approval_run, or its failure: no workflow, no approver, a crash
Raise(l) ==
    /\ submit[l].pc = "saved"
    /\ \/ /\ leave' = [leave EXCEPT ![l].approval = "PENDING"]
          /\ submit' = GoTo(submit, l, "raised")
       \/ /\ submit' = GoTo(submit, l, "done")
          /\ UNCHANGED leave
    /\ UNCHANGED <<withdraw, view, bal, encash, debits, period, job, expired, sweeps, next>>

\* The last call recomputes the balance of today's cycle, which is this one until it ends
Recount(l) ==
    /\ submit[l].pc = "raised"
    /\ submit' = IF Ended THEN GoTo(submit, l, "done") ELSE Count(submit, l, "recounting")
    /\ UNCHANGED <<leave, withdraw, view, bal, encash, debits, period, job, expired, sweeps, next>>

FinishSubmit(l) ==
    /\ submit[l].pc = "recounting"
    /\ bal' = Found(submit[l].used)
    /\ submit' = GoTo(submit, l, "done")
    /\ UNCHANGED <<leave, withdraw, view, encash, debits, period, job, expired, sweeps, next>>

----------------------------------------------------------------------------
(* The approval engine decides on a leave, and the employee withdraws one. *)

\* A decision is a request of its own that has read the run as pending.  Where
\* requests overlap it lands on whatever the run has become meanwhile, as
\* ApprovalOverlap shows.
MayDecide(status) ==
    IF Serial THEN status = "PENDING" ELSE status \in {"PENDING", "APPROVED", "REJECTED", "CANCELLED"}

\* Mutant: the subject is written, the run is not
DecideSubjectOnly(l, verdict) ==
    /\ MayStart
    /\ MayDecide(leave[l].approval)
    /\ leave' = [leave EXCEPT ![l].status = verdict]
    /\ UNCHANGED <<submit, withdraw, view, bal, encash, debits, period, job, expired, sweeps, next>>

\* _apply_subject_status: whatever the status of the leave has become meanwhile
Decide(l, verdict) ==
    /\ MayStart
    /\ MayDecide(leave[l].approval)
    /\ leave' = [leave EXCEPT ![l] = [status |-> verdict, approval |-> verdict]]
    /\ UNCHANGED <<submit, withdraw, view, bal, encash, debits, period, job, expired, sweeps, next>>

AskToWithdraw(l) ==
    /\ MayStart
    /\ withdraw[l].pc = "idle"
    /\ leave[l].status \in {"PENDING", "APPROVED"}
    /\ withdraw' = GoTo(withdraw, l, "asked")
    /\ UNCHANGED <<leave, submit, view, bal, encash, debits, period, job, expired, sweeps, next>>

MarkWithdrawn(l) ==
    /\ withdraw[l].pc = "asked"
    /\ leave' = [leave EXCEPT ![l].status = "WITHDRAWN"]
    /\ withdraw' = GoTo(withdraw, l, "marked")
    /\ UNCHANGED <<submit, view, bal, encash, debits, period, job, expired, sweeps, next>>

\* The run is looked up; there may be none yet, or none that is pending
FindRun(l) ==
    /\ withdraw[l].pc = "marked"
    /\ withdraw' = GoTo(withdraw, l,
                        IF leave[l].approval = "PENDING" THEN "cancelling" ELSE "left")
    /\ UNCHANGED <<leave, submit, view, bal, encash, debits, period, job, expired, sweeps, next>>

\* Mutant: the run of a withdrawn leave stays pending
CancelRunInName(l) ==
    /\ withdraw[l].pc = "cancelling"
    /\ withdraw' = GoTo(withdraw, l, "left")
    /\ UNCHANGED <<leave, submit, view, bal, encash, debits, period, job, expired, sweeps, next>>

CancelRun(l) ==
    /\ withdraw[l].pc = "cancelling"
    /\ leave' = [leave EXCEPT ![l] = [status |-> "WITHDRAWN", approval |-> "CANCELLED"]]
    /\ withdraw' = GoTo(withdraw, l, "left")
    /\ UNCHANGED <<submit, view, bal, encash, debits, period, job, expired, sweeps, next>>

RecountWithdrawn(l) ==
    /\ withdraw[l].pc = "left"
    /\ withdraw' = IF Ended THEN GoTo(withdraw, l, "done") ELSE Count(withdraw, l, "recounting")
    /\ UNCHANGED <<leave, submit, view, bal, encash, debits, period, job, expired, sweeps, next>>

FinishWithdraw(l) ==
    /\ withdraw[l].pc = "recounting"
    /\ bal' = Found(withdraw[l].used)
    /\ withdraw' = GoTo(withdraw, l, "done")
    /\ UNCHANGED <<leave, submit, view, encash, debits, period, job, expired, sweeps, next>>

----------------------------------------------------------------------------
(* Pages that show the balances: they compute and save them, too.           *)

BeginView ==
    /\ MayStart
    /\ view.pc = "idle" /\ ~Ended
    /\ view' = [pc |-> "counting", used |-> Total[InStatus("APPROVED")]]
    /\ UNCHANGED <<leave, submit, withdraw, bal, encash, debits, period, job, expired, sweeps, next>>

FinishView ==
    /\ view.pc = "counting"
    /\ bal' = Found(view.used)
    /\ view' = [pc |-> "idle", used |-> 0]
    /\ UNCHANGED <<leave, submit, withdraw, encash, debits, period, job, expired, sweeps, next>>

----------------------------------------------------------------------------
(* Encashment: the columns are read as they are.                           *)

\* create_leave_encashment_request up to the insert
CheckEncash(e) ==
    /\ MayStart
    /\ encash[e] = "NONE"
    /\ Debited[{e}] <= Available(bal)
    /\ encash' = [encash EXCEPT ![e] = "CHECKED"]
    /\ UNCHANGED <<leave, submit, withdraw, view, bal, debits, period, job, expired, sweeps, next>>

\* The insert, with the approval run, or the rollback of both
InsertEncash(e) ==
    /\ encash[e] = "CHECKED"
    /\ \E status \in {"PENDING", "NONE"} : encash' = [encash EXCEPT ![e] = status]
    /\ UNCHANGED <<leave, submit, withdraw, view, bal, debits, period, job, expired, sweeps, next>>

\* Mutant: the ledger is not looked at
ApproveEncashAgain(e) ==
    /\ MayStart
    /\ encash[e] \in {"PENDING", "APPROVED"}
    /\ debits[e] < 2
    /\ encash' = [encash EXCEPT ![e] = "APPROVED"]
    /\ bal' = [bal EXCEPT !.used = @ + Debited[{e}]]
    /\ debits' = [debits EXCEPT ![e] = @ + 1]
    /\ UNCHANGED <<leave, submit, withdraw, view, period, job, expired, sweeps, next>>

\* The approval, and finalize_leave_encashment from its hook: the row is locked
\* and the ledger tells whether it was debited
ApproveEncash(e) ==
    /\ MayStart
    /\ MayDecide(encash[e])
    /\ encash' = [encash EXCEPT ![e] = "APPROVED"]
    /\ \/ /\ debits[e] = 0
          /\ bal' = [bal EXCEPT !.used = @ + Debited[{e}]]
          /\ debits' = [debits EXCEPT ![e] = 1]
       \/ /\ debits[e] > 0
          /\ UNCHANGED <<bal, debits>>
    /\ UNCHANGED <<leave, submit, withdraw, view, period, job, expired, sweeps, next>>

RejectEncash(e) ==
    /\ MayStart
    /\ MayDecide(encash[e])
    /\ encash' = [encash EXCEPT ![e] = "REJECTED"]
    /\ UNCHANGED <<leave, submit, withdraw, view, bal, debits, period, job, expired, sweeps, next>>

----------------------------------------------------------------------------
(* run_leave_lapse_for_all_active_cycles                                   *)

\* Its query loads the rows of cycles that have ended
LoadEnded ==
    /\ MayStart
    /\ Ended /\ job.pc = "idle" /\ sweeps < MaxSweeps
    /\ CarryMode \in {"NONE", "CAPPED"}
    /\ job' = [pc |-> "loaded", row |-> bal]
    /\ sweeps' = sweeps + 1
    /\ UNCHANGED <<leave, submit, withdraw, view, bal, encash, debits, period, expired, next>>

\* Mutant: the cap is compared with the credited days alone
ExcessOfCredit(b) == AtLeastZero(b.credited - CarryCap)

\* What process_cycle_end_cap expires of a row
Excess(b) == AtLeastZero(AtLeastZero(Available(b)) - CarryCap)

\* The EXPIRY entry, and the credited column as it was loaded, less the days that expire
Expire(n) ==
    \/ /\ n > 0
       /\ expired' = [count |-> expired.count + 1, total |-> expired.total + n]
       /\ bal' = [bal EXCEPT !.credited = AtLeastZero(job.row.credited - n)]
    \/ /\ n = 0
       /\ UNCHANGED <<expired, bal>>

\* Mutant: the ledger is not looked at
LapseAgain ==
    /\ CarryMode = "NONE"
    /\ job.pc = "loaded"
    /\ Expire(AtLeastZero(Available(job.row)))
    /\ job' = NoRow
    /\ UNCHANGED <<leave, submit, withdraw, view, encash, debits, period, sweeps, next>>

\* process_cycle_end_lapse on the row as it was loaded: all that is left, once
LapseRest ==
    /\ CarryMode = "NONE"
    /\ job.pc = "loaded"
    /\ Expire(IF expired.count > 0 THEN 0 ELSE AtLeastZero(Available(job.row)))
    /\ job' = NoRow
    /\ UNCHANGED <<leave, submit, withdraw, view, encash, debits, period, sweeps, next>>

\* What process_cycle_end_carry_forward gives the next cycle
CarriedOver(b) == Lesser(AtLeastZero(Available(b)), CarryCap)

\* process_cycle_end_cap, then process_cycle_end_carry_forward, which reads the row again
CapRest ==
    /\ CarryMode = "CAPPED"
    /\ job.pc = "loaded"
    /\ Expire(Excess(job.row))
    /\ next' = CarriedOver(bal')
    /\ job' = NoRow
    /\ UNCHANGED <<leave, submit, withdraw, view, encash, debits, period, sweeps>>

----------------------------------------------------------------------------
NextPeriod ==
    /\ MayStart
    /\ period < LastPeriod
    /\ period' = period + 1
    /\ UNCHANGED <<leave, submit, withdraw, view, bal, encash, debits, job, expired, sweeps, next>>

Init ==
    /\ leave = [l \in Leaves |-> [status |-> "NONE", approval |-> "NONE"]]
    /\ submit = [l \in Leaves |-> [pc |-> "idle", used |-> 0]]
    /\ withdraw = [l \in Leaves |-> [pc |-> "idle", used |-> 0]]
    /\ view = [pc |-> "idle", used |-> 0]
    /\ bal = NewRow
    /\ encash = [e \in Encashments |-> "NONE"]
    /\ debits = [e \in Encashments |-> 0]
    /\ period = 1
    /\ job = NoRow
    /\ expired = [count |-> 0, total |-> 0]
    /\ sweeps = 0
    /\ next = 0

Next ==
    \/ \E l \in Leaves : BeginSubmit(l)
    \/ \E l \in Leaves : Check(l)
    \/ \E l \in Leaves : Insert(l)
    \/ \E l \in Leaves : Raise(l)
    \/ \E l \in Leaves : Recount(l)
    \/ \E l \in Leaves : FinishSubmit(l)
    \/ \E l \in Leaves, verdict \in {"APPROVED", "REJECTED"} : Decide(l, verdict)
    \/ \E l \in Leaves : AskToWithdraw(l)
    \/ \E l \in Leaves : MarkWithdrawn(l)
    \/ \E l \in Leaves : FindRun(l)
    \/ \E l \in Leaves : CancelRun(l)
    \/ \E l \in Leaves : RecountWithdrawn(l)
    \/ \E l \in Leaves : FinishWithdraw(l)
    \/ BeginView
    \/ FinishView
    \/ \E e \in Encashments : CheckEncash(e)
    \/ \E e \in Encashments : InsertEncash(e)
    \/ \E e \in Encashments : ApproveEncash(e)
    \/ \E e \in Encashments : RejectEncash(e)
    \/ LoadEnded
    \/ LapseRest
    \/ CapRest
    \/ NextPeriod

Spec == Init /\ [][Next]_vars
----------------------------------------------------------------------------
(* Properties                                                              *)

Active == InStatus("PENDING") \cup InStatus("APPROVED")

\* The days an employee has asked for or taken never exceed what the cycle has
\* credited so far and what was carried into it.  validate_leave_balance decides
\* it from two queries, and the insert is a later transaction: it holds when
\* requests are served one at a time, and fails when they overlap.
NotOverdrawn == Total[Active] <= Carried + CreditFor(period)

\* The row never shows more days than max_balance: the cap of
\* get_or_create_leave_balance counts the days that were used and are pending, and
\* what the nightly task writes back is no more than what was there.
NeverAboveMax == Available(bal) <= MaxBalance

\* Once the nightly task has been at a row whose carry-forward is capped, no more
\* than the cap is left in it, and what is carried into the next cycle is exactly
\* what is left: no day is both expired and carried, none is lost between the two.
CarriedIsWhatIsLeft ==
    [][CapRest => /\ Available(bal') <= CarryCap
                  /\ next' = AtLeastZero(Available(bal'))]_vars

\* However often the engine calls the hook of an approved encashment, and whoever
\* overlaps whom, the request is debited once at most, and it is debited when it is
\* approved.
DebitedOnce ==
    \A e \in Encashments : debits[e] <= 1 /\ (encash[e] = "APPROVED" => debits[e] = 1)

\* Served one at a time, no day is debited for an encashment that was refused.
RefusedIsNotDebited == \A e \in Encashments : debits[e] > 0 => encash[e] = "APPROVED"

\* A leave counts as taken, or as refused, only by the verdict of its run, however
\* a withdrawal overlaps the decision: payroll and attendance read the status of
\* the leave and never the run.
TakenByVerdict ==
    \A l \in Leaves :
        leave[l].status \in {"APPROVED", "REJECTED"} => leave[l].approval = leave[l].status

\* A leave that was withdrawn stays withdrawn once withdraw_leave_request has
\* returned: its run can no longer be decided.  Served one at a time; where requests
\* overlap, the run may be decided between the write of the status and the
\* cancellation, or be raised after the withdrawal looked for one.
WithdrawnStays == \A l \in Leaves : withdraw[l].pc = "done" => leave[l].status = "WITHDRAWN"

\* Days that are paid out are not taken as well: leave and debited encashments
\* together stay within the days of the cycle.
EncashedDaysAreSpent ==
    Total[Active] + Debited[{e \in Encashments : debits[e] > 0}] <= Carried + CreditFor(period)

\* Where nothing is carried forward, the nightly task never expires more days than the
\* cycle ever had, though a late request computes the expired days into the row again:
\* process_cycle_end_lapse looks at the ledger.  process_cycle_end_cap does not.
NoDayLapsesTwice == CarryMode = "NONE" => expired.total <= Carried + CreditFor(period)

\* Served one at a time, the several transactions of a request, the engine and the tasks
\* implement LeaveEntitlement: whatever stands between the check and the insert, or
\* between the mark of a withdrawal and the cancellation of its run, days are asked for
\* within the entitlement and what is closed stays closed.
Entitlement == INSTANCE LeaveEntitlement WITH
    asked <- InStatus("PENDING"),
    taken <- InStatus("APPROVED"),
    closed <- InStatus("REJECTED") \cup InStatus("WITHDRAWN"),
    entitled <- Carried + CreditFor(period)
ImplementsEntitlement == Entitlement!ESpec
=============================================================================
