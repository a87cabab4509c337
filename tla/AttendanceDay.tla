----------------------------- MODULE AttendanceDay -----------------------------
(***************************************************************************)
(* What one day of one employee comes to: _summarize_day and the helpers   *)
(* it reads with, of backend/apps/attendance/services.py.  Fractions of a  *)
(* day are counted in halves (0, 1, 2) and times in whole minutes of a     *)
(* short model day.  Lateness, overtime, notes and the day's source are    *)
(* left out: they never feed back into the status or what is paid.         *)
(***************************************************************************)
EXTENDS Integers

CONSTANTS
    HalfDay, FullDay,    \* half_day_min_minutes and full_day_min_minutes
    Off,                 \* Off[d]: "HOLIDAY", "WEEK_OFF" or "NO", from the calendars
    Requests             \* leave, on-duty and work-from-home requests there may be

NoTime == -1

\* first and last say how much of the request's first and last day it covers; an
\* on-duty request covers first of each of its days, a work-from-home one too;
\* age orders the requests by when they were created, newest first
RequestType(Dates) ==
    [kind : {"LEAVE", "DUTY", "WFH"}, from : Dates, to : Dates, first : 1..2, last : 1..2,
     age : Nat]

Punch == [at : Int, act : {"CHECK_IN", "CHECK_OUT", "RAW"}, src : {"DEVICE", "API", "WEB"}]

DayStatus ==
    {"ABSENT", "HALF_DAY", "PRESENT", "INCOMPLETE", "HOLIDAY", "WEEK_OFF", "WFH", "ON_DUTY",
     "ON_LEAVE"}

Earliest(T) == CHOOSE t \in T : \A u \in T : t =< u
Latest(T) == CHOOSE t \in T : \A u \in T : t >= u
AtMostFull(f) == IF f >= 2 THEN 2 ELSE f

TimesOf(P, act) == {p.at : p \in {q \in P : q.act = act}}
AllTimes(P) == {p.at : p \in P}

----------------------------------------------------------------------------
(* The interval worked, out of the punches of the day.                     *)

CheckIn(P) ==
    IF P = {} THEN NoTime
    ELSE IF TimesOf(P, "CHECK_IN") # {} THEN Earliest(TimesOf(P, "CHECK_IN"))
         ELSE Earliest(AllTimes(P))

\* Without a check-out the last punch of the day serves, whatever it is
CheckOut(P) ==
    LET outs == {t \in TimesOf(P, "CHECK_OUT") : t >= CheckIn(P)}
        later == {t \in AllTimes(P) : t > CheckIn(P)}
    IN IF P = {} THEN NoTime
       ELSE IF outs # {} THEN Latest(outs)
            ELSE IF later # {} THEN Latest(later) ELSE NoTime

----------------------------------------------------------------------------
(* How much of date d the approved requests A cover.                       *)

Covering(A, kind, d) == {q \in A : q.kind = kind /\ q.from =< d /\ d =< q.to}

LeaveOn(q, d) ==
    IF \/ q.from = q.to /\ (q.first = 1 \/ q.last = 1)
       \/ d = q.from /\ q.first = 1
       \/ d = q.to /\ q.last = 1
    THEN 1 ELSE 2

\* Two requests that each cover some of the day cover all of it
Together(S, Share(_)) ==
    IF S = {} THEN 0
    ELSE IF (\E q \in S : Share(q) = 2) \/ (\E q, r \in S : q # r) THEN 2 ELSE 1

LeaveFraction(A, d) == LET share(q) == LeaveOn(q, d) IN Together(Covering(A, "LEAVE", d), share)
DutyFraction(A, d) == LET share(q) == q.first IN Together(Covering(A, "DUTY", d), share)

\* Of several work-from-home requests only the newest counts
WfhFraction(A, d) ==
    LET C == Covering(A, "WFH", d)
    IN IF C = {} THEN 0 ELSE (CHOOSE q \in C : \A r \in C : q.age =< r.age).first

----------------------------------------------------------------------------
(* The status of a day and the half-days paid for it.                      *)

Outcome == [status : DayStatus, paid : 0..2]
Is(status, paid) == [status |-> status, paid |-> paid]

Worked(in, out) == IF out >= in THEN out - in ELSE 0

\* By the interval, the calendar and work from home, before other requests count
ByPresence(in, out, off, wfh) ==
    IF in # NoTime /\ out # NoTime
    THEN IF Worked(in, out) >= FullDay THEN Is("PRESENT", 2)
         ELSE IF Worked(in, out) >= HalfDay THEN Is("HALF_DAY", 1) ELSE Is("ABSENT", 0)
    ELSE IF in # NoTime THEN Is("INCOMPLETE", 0)
         ELSE IF off # "NO" THEN Is(off, 2)
              ELSE IF wfh = 2 THEN Is("WFH", 2) ELSE Is("ABSENT", 0)

\* Half a day more, which makes the day at most full
HalfMore(o, otherwise) ==
    LET paid == AtMostFull(o.paid + 1)
    IN Is(IF paid = 2 THEN "PRESENT" ELSE otherwise, paid)

\* Mutant: half a day of leave is paid and the status left as it was
DecideForgetful(o, leave, duty, wfh) ==
    IF leave = 2 THEN Is("ON_LEAVE", 2)
    ELSE IF leave = 1 THEN Is(o.status, AtMostFull(o.paid + 1)) ELSE o

\* The requests, in the order of the code: the first that applies decides
Decide(o, leave, duty, wfh) ==
    LET idle == o.status \in {"ABSENT", "INCOMPLETE"}
        short == idle \/ o.status = "HALF_DAY"
    IN IF leave = 2 THEN Is("ON_LEAVE", 2)
       ELSE IF duty = 2 /\ idle THEN Is("ON_DUTY", 2)
       ELSE IF leave = 1 THEN HalfMore(o, "HALF_DAY")
       ELSE IF duty = 1 /\ short THEN HalfMore(o, "HALF_DAY")
       ELSE IF wfh = 2 /\ idle THEN Is("WFH", 2)
       ELSE IF wfh = 1 /\ short THEN HalfMore(o, "WFH")
       ELSE o

\* A row of attendance_days
Row == [in : Int, out : Int, status : DayStatus, paid : 0..2]

\* The row of date d, given the times that hold for it and the approved requests
RowOf(in, out, A, d) ==
    LET present[t \in Int \X Int] == ByPresence(t[1], t[2], Off[d], WfhFraction(A, d))
        decided[o \in Outcome] ==
            Decide(o, LeaveFraction(A, d), DutyFraction(A, d), WfhFraction(A, d))
        row[t \in Int \X Int] ==
            LET o == decided[present[t]]
            IN [in |-> t[1], out |-> t[2], status |-> o.status, paid |-> o.paid]
    IN row[<<in, out>>]
================================================================================
