------------------------------ MODULE Attendance ------------------------------
(***************************************************************************)
(* The attendance of one employee in backend/apps/attendance: punches of   *)
(* devices, feeds and the web, the stored day rows, overrides by staff and *)
(* imports, and regularization requests.  A day row is a copy of what the  *)
(* punches, overrides and requests come to; every page that shows a day,   *)
(* and payroll, calculates it afresh and stores it again, with other       *)
(* requests served in between.  What a day comes to is AttendanceDay; the  *)
(* verdicts on requests are given by the approval engine (ApprovalRun).    *)
(***************************************************************************)
EXTENDS AttendanceDay, Sequences

CONSTANTS
    Workers,         \* server processes that handle requests and device pushes
    Viewers,         \* server processes that handle pages showing a day
    NDays, DayLength,
    Overnight,       \* dates on which the employee's shift is a night shift
    Opens, Closes,   \* the window of such a date, counted from its midnight
    Scans,           \* scans that a device or a feed may send
    Taps,            \* times and kinds of the punches the employee may make on the web
    Slack,           \* half the width of the window for duplicate scans of a device
    Regs,            \* regularization requests that may be filed
    Edits,           \* the dates and times staff and requests may ask for
    MaxEvents,       \* bound on what people do, and on processes that die
    StaffAlone       \* TRUE: requests about overrides and regularization do not overlap

Dates == 1..NDays
Times == 0..(NDays * DayLength - 1)
DateOf(t) == t \div DayLength + 1
Midnight(d) == (d - 1) * DayLength

MaybeTime == Times \cup {NoTime}
KeptPunch == {p \in Punch : p.at \in Times}
EditType == [date : Dates, in : MaybeTime, out : MaybeTime]

ASSUME AttendanceAssumption ==
    /\ NDays \in Nat \ {0} /\ DayLength \in Nat \ {0} /\ Slack \in Nat
    /\ HalfDay \in Nat \ {0} /\ FullDay \in Nat /\ HalfDay =< FullDay
    /\ Opens \in Int /\ Closes \in Int
    /\ Off \in [Dates -> {"HOLIDAY", "WEEK_OFF", "NO"}]
    /\ Requests \subseteq RequestType(Dates)
    /\ Scans \subseteq {s \in KeptPunch : s.src # "WEB"}
    /\ Taps \subseteq Times \X {"CHECK_IN", "CHECK_OUT"}
    /\ Edits \subseteq {e \in EditType : e.in # NoTime \/ e.out # NoTime}
    /\ Overnight \subseteq Dates /\ StaffAlone \in BOOLEAN /\ MaxEvents \in Nat
    /\ Workers \cap Viewers = {}

VARIABLES
    now,        \* the clock
    punches,    \* rows of attendance_punches
    approved,   \* leave, on-duty and work-from-home requests that are approved
    record,     \* record[d]: the override of date d
    reg,        \* reg[q]: regularization request q, with the status of its approval run
    day,        \* day[d]: the stored row of date d
    req,        \* req[w]: what process w is doing
    answered,   \* scans whose sender was told that they are in, or were already
    events      \* how many of the bounded things have happened

vars == <<now, punches, approved, record, reg, day, req, answered, events>>
inputs == <<now, punches, approved, record>>

Processes == Workers \cup Viewers

\* The statements left to a request of each kind, one step each: between two of
\* them the database shows what other requests have committed
Program(op) ==
    CASE op = "view" -> <<"read", "write">>
      [] op = "scan" -> <<"check", "keep", "read", "write">>
      [] op = "punch" -> <<"read", "write", "gate", "keep", "read", "write">>
      [] op = "override" -> <<"upsert", "read", "write">>
      [] op = "file" -> <<"read", "write", "file">>
      [] op = "withdraw" -> <<"cancel">>

Ops == {"view", "scan", "punch", "override", "file", "withdraw"}
StaffOps == {"override", "file", "withdraw"}
Steps == {"read", "write", "check", "keep", "gate", "upsert", "file", "cancel"}

NoRow == [in |-> NoTime, out |-> NoTime, status |-> "NONE", paid |-> 0]
NoRecord == [in |-> NoTime, out |-> NoTime, source |-> "NONE"]

StoredRow == [in : MaybeTime, out : MaybeTime, status : DayStatus \cup {"NONE"},
              paid : 0..2]
Record == [in : MaybeTime, out : MaybeTime, source : {"NONE", "MANUAL", "REGULARIZATION", "IMPORT"}]
Reg == [date : Dates, in : MaybeTime, out : MaybeTime,
        status : {"NONE", "PENDING", "APPROVED", "REJECTED", "WITHDRAWN"},
        run : {"NONE", "PENDING", "CLOSED"}]

\* A request: its statements left, the date it works on, the times it brings, the
\* row it has calculated, and the regularization request it is about
Doing(op, d, scan, edit, q) ==
    [op |-> op, todo |-> Program(op), date |-> d, scan |-> scan, edit |-> edit, row |-> NoRow, reg |-> q]

NoScan == [at |-> 0, act |-> "RAW", src |-> "WEB"]
NoEdit == [date |-> 1, in |-> NoTime, out |-> NoTime]
AnyReg == CHOOSE q \in Regs : TRUE
IdleRequest == [Doing("view", 1, NoScan, NoEdit, AnyReg) EXCEPT !.todo = <<>>]
Idle(w) == req[w].todo = <<>>

Init ==
    /\ now = 0 /\ punches = {} /\ approved = {} /\ answered = {}
    /\ record = [d \in Dates |-> NoRecord]
    /\ reg \in [Regs -> {[date |-> 1, in |-> NoTime, out |-> NoTime, status |-> "NONE", run |-> "NONE"]}]
    /\ day = [d \in Dates |-> NoRow]
    /\ req = [w \in Processes |-> IdleRequest]
    /\ events = 0

----------------------------------------------------------------------------
(* What the database says of a date: _get_day_bounds, the override or else *)
(* the punches, and the approved requests.                                 *)

Window(d) ==
    IF d \in Overnight THEN (Midnight(d) + Opens)..(Midnight(d) + Closes)
    ELSE Midnight(d)..(Midnight(d) + DayLength - 1)

PunchesOf(d) == {p \in punches : p.at \in Window(d)}

InOf(d) == IF record[d].source # "NONE" THEN record[d].in ELSE CheckIn(PunchesOf(d))
OutOf(d) == IF record[d].source # "NONE" THEN record[d].out ELSE CheckOut(PunchesOf(d))

\* _summarize_day
Summary(d) == RowOf(InOf(d), OutOf(d), approved, d)

----------------------------------------------------------------------------
(* Requests begin.                                                         *)

Bounded == events < MaxEvents /\ events' = events + 1

NoStaff == StaffAlone => \A w \in Workers : Idle(w) \/ req[w].op \notin StaffOps

Begin(w, op, d, scan, edit, q) ==
    /\ Idle(w)
    /\ op \in StaffOps => NoStaff
    /\ req' = [req EXCEPT ![w] = Doing(op, d, scan, edit, q)]

\* Today's page, the calendar of the month, the organisation's pages, payroll
View(w, d) ==
    /\ Begin(w, "view", d, NoScan, NoEdit, AnyReg)
    /\ UNCHANGED <<inputs, reg, day, answered, events>>

\* create_punch_from_source and each row of ingest_source_punches: a device or a
\* feed sends a scan, maybe late, again, or out of order
Send(w, s) ==
    /\ s.at =< now
    /\ Begin(w, "scan", DateOf(s.at), s, NoEdit, AnyReg)
    /\ UNCHANGED <<inputs, reg, day, answered, events>>

\* record_employee_punch, on the date it is now
PunchNow(w, act) ==
    /\ <<now, act>> \in Taps
    /\ Bounded
    /\ Begin(w, "punch", DateOf(now), [at |-> now, act |-> act, src |-> "WEB"], NoEdit, AnyReg)
    /\ UNCHANGED <<inputs, reg, day, answered>>

\* OrgAttendanceDayDetailView.patch: what the form leaves out is taken from the
\* stored row
Override(w, e) ==
    LET row == day[e.date]
        in == IF e.in = NoTime THEN row.in ELSE e.in
        out == IF e.out = NoTime THEN row.out ELSE e.out
    IN /\ row # NoRow
       /\ Bounded
       /\ Begin(w, "override", e.date, NoScan, [e EXCEPT !.in = in, !.out = out], AnyReg)
       /\ UNCHANGED <<inputs, reg, day, answered>>

\* create_regularization_request
File(w, q, e) ==
    /\ reg[q].status = "NONE"
    /\ Bounded
    /\ Begin(w, "file", e.date, NoScan, e, q)
    /\ \A v \in Processes : ~ Idle(v) /\ req[v].op = "file" => req[v].reg # q
    /\ UNCHANGED <<inputs, reg, day, answered>>

\* withdraw_regularization_request, up to the first save
Withdraw(w, q) ==
    /\ reg[q].status = "PENDING"
    /\ Begin(w, "withdraw", reg[q].date, NoScan, NoEdit, q)
    /\ reg' = [reg EXCEPT ![q].status = "WITHDRAWN"]
    /\ UNCHANGED <<inputs, day, answered, events>>

----------------------------------------------------------------------------
(* Their statements, one at a time.                                        *)

At(w, step) == req[w].todo # <<>> /\ Head(req[w].todo) = step
Advance(w) == [req[w] EXCEPT !.todo = Tail(@)]
Stop(w) == IdleRequest

\* recalculate_attendance_day, which reads with many queries and then writes
Read(w) ==
    /\ At(w, "read")
    /\ req' = [req EXCEPT ![w] = [Advance(w) EXCEPT !.row = Summary(req[w].date)]]
    /\ UNCHANGED <<inputs, reg, day, answered, events>>

\* The end of a request
Finish(w) == IF Len(req[w].todo) = 1 THEN Stop(w) ELSE Advance(w)

\* Mutant: a row that is stored already is left as it is
WriteOnce(w) ==
    /\ At(w, "write")
    /\ day' = [day EXCEPT ![req[w].date] = IF @ # NoRow THEN @ ELSE req[w].row]
    /\ req' = [req EXCEPT ![w] = Finish(w)]
    /\ answered' = IF req[w].op = "scan" THEN answered \cup {req[w].scan} ELSE answered
    /\ UNCHANGED <<inputs, reg, events>>

Write(w) ==
    /\ At(w, "write")
    /\ day' = [day EXCEPT ![req[w].date] = req[w].row]
    /\ req' = [req EXCEPT ![w] = Finish(w)]
    /\ answered' = IF req[w].op = "scan" THEN answered \cup {req[w].scan} ELSE answered
    /\ UNCHANGED <<inputs, reg, events>>

\* Mutant: whether a punch is a check-in or a check-out does not matter
DuplicateAnyKind(s) ==
    IF s.src = "API" THEN s \in punches
    ELSE \E p \in punches : p.at \in (s.at - Slack)..(s.at + Slack)

\* A feed's scan is a duplicate of the same scan, a device's of any punch of the
\* same kind close to it
Duplicate(s) ==
    IF s.src = "API" THEN s \in punches
    ELSE \E p \in punches : p.act = s.act /\ p.at \in (s.at - Slack)..(s.at + Slack)

Check(w) ==
    LET s == req[w].scan IN
    /\ At(w, "check")
    /\ IF Duplicate(s)
       THEN /\ req' = [req EXCEPT ![w] = Stop(w)] /\ answered' = answered \cup {s}
       ELSE /\ req' = [req EXCEPT ![w] = Advance(w)] /\ UNCHANGED answered
    /\ UNCHANGED <<inputs, reg, day, events>>

\* A punch on the web is made when it is stored, not when it was asked for
Keep(w) ==
    LET made == IF req[w].op = "punch" THEN [req[w].scan EXCEPT !.at = now] ELSE req[w].scan IN
    /\ At(w, "keep")
    /\ punches' = punches \cup {made}
    /\ req' = [req EXCEPT ![w] = [Advance(w) EXCEPT !.row = NoRow]]
    /\ UNCHANGED <<now, approved, record, reg, day, answered, events>>

\* A check-in is refused while one is open, a check-out before any check-in
Refused(w) ==
    LET row == req[w].row IN
    IF req[w].scan.act = "CHECK_IN" THEN row.in # NoTime /\ row.out = NoTime
    ELSE row.in = NoTime

Gate(w) ==
    /\ At(w, "gate")
    /\ req' = [req EXCEPT ![w] = IF Refused(w) THEN Stop(w) ELSE Advance(w)]
    /\ UNCHANGED <<inputs, reg, day, answered, events>>

\* The record an override leaves
Overriding(in, out, source) == [in |-> IF in = NoTime THEN out ELSE in, out |-> out, source |-> source]

\* upsert_attendance_override, whose row is recalculated next
Upsert(w) ==
    LET e == req[w].edit IN
    /\ At(w, "upsert")
    /\ IF e.in = NoTime /\ e.out = NoTime
       THEN req' = [req EXCEPT ![w] = Stop(w)] /\ UNCHANGED record
       ELSE /\ req' = [req EXCEPT ![w] = Advance(w)]
            /\ record' = [record EXCEPT ![req[w].date] = Overriding(e.in, e.out, "MANUAL")]
    /\ UNCHANGED <<now, punches, approved, reg, day, answered, events>>

\* One request may be pending per date; the request and its run in one transaction
FileIt(w) ==
    LET d == req[w].date
        e == req[w].edit
    IN /\ At(w, "file")
       /\ req' = [req EXCEPT ![w] = Stop(w)]
       /\ IF \E q \in Regs : reg[q].date = d /\ reg[q].status = "PENDING"
          THEN UNCHANGED reg
          ELSE reg' = [reg EXCEPT ![req[w].reg] =
                          [date |-> d, in |-> e.in, out |-> e.out, status |-> "PENDING", run |-> "PENDING"]]
       /\ UNCHANGED <<inputs, day, answered, events>>

\* cancel_approval_run, one transaction: a run that is over is left alone
Cancel(w) ==
    LET q == req[w].reg IN
    /\ At(w, "cancel")
    /\ req' = [req EXCEPT ![w] = Stop(w)]
    /\ IF reg[q].run = "PENDING"
       THEN /\ reg' = [reg EXCEPT ![q].run = "CLOSED", ![q].status = "WITHDRAWN"]
            /\ day' = [day EXCEPT ![reg[q].date] = Summary(reg[q].date)]
       ELSE UNCHANGED <<reg, day>>
    /\ UNCHANGED <<inputs, answered, events>>

----------------------------------------------------------------------------
(* Transactions of one step.                                               *)

\* MyAttendanceRegularizationDetailView.patch
Edit(q, e) ==
    /\ NoStaff
    /\ reg[q].status = "PENDING"
    /\ reg' = [reg EXCEPT ![q].in = e.in, ![q].out = e.out]
    /\ Bounded
    /\ UNCHANGED <<inputs, day, req, answered>>

\* The row of d once its override is rec
RowWith(d, rec) == RowOf(rec.in, rec.out, approved, d)

\* Mutant: the times of the punches win over the times asked for
ApproveOther(q) ==
    LET d == reg[q].date
        in == IF InOf(d) # NoTime THEN InOf(d)
              ELSE IF reg[q].in # NoTime THEN reg[q].in ELSE reg[q].out
        out == IF OutOf(d) # NoTime THEN OutOf(d) ELSE reg[q].out
        rec == Overriding(in, out, "REGULARIZATION")
    IN /\ NoStaff
       /\ reg[q].run = "PENDING"
       /\ reg' = [reg EXCEPT ![q].run = "CLOSED", ![q].status = "APPROVED"]
       /\ record' = [record EXCEPT ![d] = rec]
       /\ day' = [day EXCEPT ![d] = RowWith(d, rec)]
       /\ UNCHANGED <<now, punches, approved, req, answered, events>>

\* apply_regularization_status_change on approval: the times asked for, and for the
\* others those the day has when it is approved.  A request whose times were edited
\* away, for a day without any, cannot be approved
Approve(q) ==
    LET d == reg[q].date
        in == IF reg[q].in # NoTime THEN reg[q].in
              ELSE IF InOf(d) # NoTime THEN InOf(d) ELSE reg[q].out
        out == IF reg[q].out # NoTime THEN reg[q].out ELSE OutOf(d)
        rec == Overriding(in, out, "REGULARIZATION")
    IN /\ NoStaff
       /\ reg[q].run = "PENDING"
       /\ rec.in # NoTime
       /\ reg' = [reg EXCEPT ![q].run = "CLOSED", ![q].status = "APPROVED"]
       /\ record' = [record EXCEPT ![d] = rec]
       /\ day' = [day EXCEPT ![d] = RowWith(d, rec)]
       /\ UNCHANGED <<now, punches, approved, req, answered, events>>

Reject(q) ==
    /\ NoStaff
    /\ reg[q].run = "PENDING"
    /\ reg' = [reg EXCEPT ![q].run = "CLOSED", ![q].status = "REJECTED"]
    /\ day' = [day EXCEPT ![reg[q].date] = Summary(reg[q].date)]
    /\ UNCHANGED <<inputs, req, answered, events>>

\* import_attendance_sheet, one transaction: both times are given, in order
Import(e) ==
    LET d == e.date
        rec == Overriding(e.in, e.out, "IMPORT")
    IN
    /\ NoStaff
    /\ e.in # NoTime /\ e.in =< e.out
    /\ record' = [record EXCEPT ![d] = rec]
    /\ day' = [day EXCEPT ![d] = RowWith(d, rec)]
    /\ Bounded
    /\ UNCHANGED <<now, punches, approved, reg, req, answered>>

\* The approval or the withdrawal of a leave, on-duty or work-from-home request;
\* no row is recalculated for it
Verdict(q) ==
    /\ approved' = IF q \in approved THEN approved \ {q} ELSE approved \cup {q}
    /\ Bounded
    /\ UNCHANGED <<now, punches, record, reg, day, req, answered>>

Tick ==
    /\ now + 1 \in Times
    /\ now' = now + 1
    /\ UNCHANGED <<punches, approved, record, reg, day, req, answered, events>>

\* A process dies between two statements
Crash(w) ==
    /\ ~ Idle(w)
    /\ req' = [req EXCEPT ![w] = IdleRequest]
    /\ Bounded
    /\ UNCHANGED <<inputs, reg, day, answered>>

----------------------------------------------------------------------------
StepOf(w) ==
    \/ Read(w) \/ Write(w) \/ Check(w) \/ Keep(w) \/ Gate(w) \/ Upsert(w) \/ FileIt(w)
    \/ Cancel(w)

Next ==
    \/ Tick
    \/ \E w \in Viewers, d \in Dates : View(w, d)
    \/ \E w \in Workers :
         \/ \E s \in Scans : Send(w, s)
         \/ \E act \in {"CHECK_IN", "CHECK_OUT"} : PunchNow(w, act)
         \/ \E e \in Edits : Override(w, e) \/ (\E q \in Regs : File(w, q, e))
         \/ \E q \in Regs : Withdraw(w, q)
    \/ \E w \in Processes : StepOf(w) \/ Crash(w)
    \/ \E q \in Regs : Approve(q) \/ Reject(q) \/ (\E e \in Edits \cup {NoEdit} : Edit(q, e))
    \/ \E e \in Edits : Import(e)
    \/ \E q \in Requests : Verdict(q)

\* A request that has begun goes on, and every day is looked at again and again
Fairness ==
    /\ \A w \in Processes : WF_vars(StepOf(w))
    /\ \A d \in Dates : SF_vars(\E w \in Viewers : View(w, d))

Spec == Init /\ [][Next]_vars /\ Fairness

----------------------------------------------------------------------------
Request ==
    [op : Ops, todo : Seq(Steps), date : Dates, scan : KeptPunch, edit : EditType,
     row : StoredRow, reg : Regs \cup {AnyReg}]

\* Rows, requests and punches have the columns and values their models give them
TypeOK ==
    /\ now \in Times
    /\ punches \subseteq KeptPunch
    /\ approved \subseteq Requests
    /\ record \in [Dates -> Record]
    /\ reg \in [Regs -> Reg]
    /\ day \in [Dates -> StoredRow]
    /\ req \in [Processes -> Request]
    /\ answered \subseteq KeptPunch
    /\ events \in 0..MaxEvents

\* A sender that was told its scan is in may forget it: the day shows a check-in no
\* more than the slack after an answered one, and an answered check-out that
\* comes clearly after the check-in is not cut off by more than the slack.  Sends
\* may be late, repeated, out of order or cut short.  A scan
\* within the slack of the window's edge may have been taken for one of the
\* neighbouring day, and overrides replace the punches.
DayShowsItsScans ==
    \A s \in answered, d \in Dates :
        (s.at - Slack)..(s.at + Slack) \subseteq Window(d) /\ record[d].source = "NONE" =>
            /\ s.act = "CHECK_IN" => InOf(d) # NoTime /\ InOf(d) =< s.at + Slack
            /\ s.act = "CHECK_OUT" =>
                 InOf(d) # NoTime /\ (InOf(d) =< s.at - Slack => OutOf(d) >= s.at - Slack)

\* An override that says it comes from regularization shows the times of an approved
\* request, which no withdrawn, refused or pending one can put there
RegularizationHolds ==
    \A d \in Dates : record[d].source = "REGULARIZATION" =>
        \E q \in Regs :
            /\ reg[q].status = "APPROVED" /\ reg[q].date = d
            /\ reg[q].in # NoTime => record[d].in = reg[q].in
            /\ reg[q].out # NoTime => record[d].out = reg[q].out

\* A row whose status and paid half-days say the same
Tells(row) ==
    /\ row.status \in {"PRESENT", "HOLIDAY", "WEEK_OFF", "ON_DUTY", "ON_LEAVE"} => row.paid = 2
    /\ row.status = "HALF_DAY" => row.paid = 1
    /\ row.status = "WFH" => row.paid >= 1
    /\ row.status \in {"ABSENT", "INCOMPLETE"} => row.paid = 0

\* The reports count days by status, payroll adds up what is paid: the two agree
StatusTellsPay == \A d \in Dates : Tells(day[d])

\* The stored rows come to agree with what they were calculated from, and stay so,
\* once punches, verdicts and edits end
StoredDaySettles == <>[](\A d \in Dates : day[d] = Summary(d))
===============================================================================
