---------------------------- MODULE AttendanceProofs ----------------------------
(***************************************************************************)
(* Proofs about Attendance, for any number of processes, dates, requests   *)
(* and any lengths: types, that the status and the pay of every stored row *)
(* agree, that an override of a regularization is that of an approved one, *)
(* and that no scan whose sender was answered is forgotten.                *)
(***************************************************************************)
EXTENDS Attendance, WellFoundedInduction, TLAPS

----------------------------------------------------------------------------
(* First and last times.                                                   *)

LEMMA NatMin ==
    ASSUME NEW T, T \subseteq Nat, T # {}
    PROVE  \E x \in T : \A y \in T : x =< y
<1>1. IsWellFoundedOn(OpToRel(<,Nat), Nat)
  BY NatLessThanWellFounded
<1>2. PICK x \in T : \A y \in T : ~ (<<y, x>> \in OpToRel(<,Nat))
  BY <1>1, WFMin
<1>3. ASSUME NEW y \in T
      PROVE  x =< y
  <2>1. x \in Nat /\ y \in Nat
    OBVIOUS
  <2>2. ~ (<<y, x>> \in {ss \in Nat \X Nat : ss[1] < ss[2]})
    BY <1>2 DEF OpToRel
  <2>3. ~ (y < x)
    BY <2>1, <2>2
  <2> QED BY <2>1, <2>3
<1> QED BY <1>3

LEMMA EarliestIs ==
    ASSUME NEW T, T \subseteq Nat, T # {}
    PROVE  Earliest(T) \in T /\ \A t \in T : Earliest(T) =< t
<1>1. \E x \in T : \A y \in T : x =< y
  BY NatMin
<1> QED BY <1>1 DEF Earliest

LEMMA LatestIs ==
    ASSUME NEW T, NEW n \in Nat, T \subseteq 0..n, T # {}
    PROVE  Latest(T) \in T /\ \A t \in T : Latest(T) >= t
<1> DEFINE U == {n - t : t \in T}
<1>1. U \subseteq Nat /\ U # {}
  OBVIOUS
<1>2. PICK x \in U : \A y \in U : x =< y
  BY <1>1, NatMin
<1>3. PICK t \in T : x = n - t
  OBVIOUS
<1>4. ASSUME NEW u \in T
      PROVE  t >= u
  <2>1. n - u \in U
    OBVIOUS
  <2>2. n - t =< n - u
    BY <1>2, <1>3, <2>1
  <2>3. t \in Nat /\ u \in Nat
    OBVIOUS
  <2> QED BY <2>2, <2>3
<1>5. \E z \in T : \A y \in T : z >= y
  BY <1>4
<1> QED BY <1>5 DEF Latest

LEMMA TimesAre ==
    /\ NDays * DayLength - 1 \in Nat
    /\ Times = 0..(NDays * DayLength - 1)
    /\ 0 \in Times /\ Times \subseteq Nat /\ NoTime \notin Times /\ MaybeTime \subseteq Int
    /\ 1 \in Dates /\ Dates \subseteq Nat
<1>1. NDays \in Nat \ {0} /\ DayLength \in Nat \ {0}
  BY AttendanceAssumption
<1>2. NDays * DayLength \in Nat /\ NDays * DayLength >= NDays
  BY <1>1
<1>3. NDays * DayLength - 1 \in Nat
  BY <1>1, <1>2
<1>4. Times = 0..(NDays * DayLength - 1)
  BY DEF Times
<1>5. 0 \in Times /\ Times \subseteq Nat
  BY <1>3, <1>4
<1>6. NoTime \notin Times /\ MaybeTime \subseteq Int
  BY <1>5 DEF NoTime, MaybeTime
<1>7. 1 \in Dates /\ Dates \subseteq Nat
  BY <1>1 DEF Dates
<1> QED BY <1>3, <1>4, <1>5, <1>6, <1>7

\* Every time is on one of the dates
LEMMA DateOfTime ==
    ASSUME NEW t \in Times
    PROVE  DateOf(t) \in Dates
<1> DEFINE q == t \div DayLength
<1>1. NDays \in Nat \ {0} /\ DayLength \in Nat \ {0} /\ t \in Nat /\ t < NDays * DayLength
  BY AttendanceAssumption, TimesAre
<1>2. q \in Nat /\ DayLength * q =< t
  BY <1>1
<1>3. q < NDays
  <2>1. SUFFICES ASSUME q >= NDays
                 PROVE  FALSE
    BY <1>1, <1>2
  <2>2. DayLength * q >= DayLength * NDays
    BY <1>1, <1>2, <2>1
  <2> QED BY <1>1, <1>2, <2>2
<1> QED BY <1>1, <1>2, <1>3 DEF DateOf, Dates

----------------------------------------------------------------------------
(* The interval worked, of any punches.                                    *)

LEMMA CheckInIs ==
    ASSUME NEW P, P \subseteq KeptPunch
    PROVE  /\ CheckIn(P) \in MaybeTime
           /\ P # {} => CheckIn(P) \in Times
           /\ \A p \in P : p.act = "CHECK_IN" => CheckIn(P) =< p.at
<1> USE TimesAre
<1>1. AllTimes(P) \subseteq Times /\ TimesOf(P, "CHECK_IN") \subseteq Times
  BY DEF AllTimes, TimesOf, KeptPunch
<1>2. CASE P = {}
  BY <1>2 DEF CheckIn, MaybeTime
<1>3. CASE P # {} /\ TimesOf(P, "CHECK_IN") # {}
  <2>1. CheckIn(P) = Earliest(TimesOf(P, "CHECK_IN"))
    BY <1>3 DEF CheckIn
  <2>2. TimesOf(P, "CHECK_IN") \subseteq Nat
    BY <1>1
  <2>3. /\ CheckIn(P) \in TimesOf(P, "CHECK_IN")
        /\ \A t \in TimesOf(P, "CHECK_IN") : CheckIn(P) =< t
    BY <1>3, <2>1, <2>2, EarliestIs
  <2>4. CheckIn(P) \in Times
    BY <1>1, <2>3
  <2>5. ASSUME NEW p \in P, p.act = "CHECK_IN"
        PROVE  p.at \in TimesOf(P, "CHECK_IN")
    BY <2>5 DEF TimesOf
  <2> QED BY <2>3, <2>4, <2>5 DEF MaybeTime
<1>4. CASE P # {} /\ TimesOf(P, "CHECK_IN") = {}
  <2>1. CheckIn(P) = Earliest(AllTimes(P))
    BY <1>4 DEF CheckIn
  <2>2. AllTimes(P) \subseteq Nat /\ AllTimes(P) # {}
    BY <1>1, <1>4 DEF AllTimes
  <2>3. CheckIn(P) \in AllTimes(P)
    BY <2>1, <2>2, EarliestIs
  <2>4. \A p \in P : p.act # "CHECK_IN"
    BY <1>4 DEF TimesOf
  <2> QED BY <1>1, <2>3, <2>4 DEF MaybeTime
<1> QED BY <1>2, <1>3, <1>4

LEMMA CheckOutIs ==
    ASSUME NEW P, P \subseteq KeptPunch
    PROVE  /\ CheckOut(P) \in MaybeTime
           /\ \A p \in P : p.act = "CHECK_OUT" /\ p.at >= CheckIn(P) =>
                  CheckOut(P) \in Times /\ CheckOut(P) >= p.at
<1> DEFINE outs == {t \in TimesOf(P, "CHECK_OUT") : t >= CheckIn(P)}
           later == {t \in AllTimes(P) : t > CheckIn(P)}
           n == NDays * DayLength - 1
<1> USE TimesAre
<1>1. outs \subseteq Times /\ later \subseteq Times
  BY DEF AllTimes, TimesOf, KeptPunch
<1>2. n \in Nat /\ outs \subseteq 0..n /\ later \subseteq 0..n
  BY <1>1
<1>3. CASE P = {}
  BY <1>3 DEF CheckOut, MaybeTime
<1>4. CASE P # {} /\ outs # {}
  <2>1. CheckOut(P) = Latest(outs)
    BY <1>4 DEF CheckOut
  <2>2. CheckOut(P) \in outs /\ \A t \in outs : CheckOut(P) >= t
    BY <1>2, <1>4, <2>1, LatestIs
  <2>3. ASSUME NEW p \in P, p.act = "CHECK_OUT", p.at >= CheckIn(P)
        PROVE  p.at \in outs
    BY <2>3 DEF TimesOf
  <2> QED BY <1>1, <2>2, <2>3 DEF MaybeTime
<1>5. CASE P # {} /\ outs = {}
  <2>1. CheckOut(P) = IF later # {} THEN Latest(later) ELSE NoTime
    BY <1>5 DEF CheckOut
  <2>2. later # {} => Latest(later) \in later
    BY <1>2, LatestIs
  <2>3. CheckOut(P) \in MaybeTime
    BY <1>1, <2>1, <2>2 DEF MaybeTime
  <2>4. \A p \in P : ~ (p.act = "CHECK_OUT" /\ p.at >= CheckIn(P))
    BY <1>5 DEF TimesOf
  <2> QED BY <2>3, <2>4
<1> QED BY <1>3, <1>4, <1>5

----------------------------------------------------------------------------
(* What a day comes to.                                                    *)

LEMMA WfhFractionIs ==
    ASSUME NEW A, A \subseteq Requests, NEW d \in Dates
    PROVE  WfhFraction(A, d) \in 0..2
<1> DEFINE C == Covering(A, "WFH", d)
           ages == {q.age : q \in C}
<1>1. \A q \in C : q.first \in 1..2 /\ q.age \in Nat
  BY AttendanceAssumption DEF Covering, RequestType
<1>2. CASE C = {}
  BY <1>2 DEF WfhFraction
<1>3. CASE C # {}
  <2>1. ages \subseteq Nat /\ ages # {}
    BY <1>1, <1>3
  <2>2. PICK a \in ages : \A b \in ages : a =< b
    BY <2>1, NatMin
  <2>3. \E q \in C : \A r \in C : q.age =< r.age
    BY <2>2
  <2>4. (CHOOSE q \in C : \A r \in C : q.age =< r.age) \in C
    BY <2>3
  <2>5. WfhFraction(A, d) = (CHOOSE q \in C : \A r \in C : q.age =< r.age).first
    BY <1>3 DEF WfhFraction
  <2> QED BY <1>1, <2>4, <2>5
<1> QED BY <1>2, <1>3

LEMMA FractionsAre ==
    ASSUME NEW A, NEW d
    PROVE  LeaveFraction(A, d) \in 0..2 /\ DutyFraction(A, d) \in 0..2
BY DEF LeaveFraction, DutyFraction, Together

LEMMA PresenceTells ==
    ASSUME NEW in \in Int, NEW out \in Int, NEW off \in {"HOLIDAY", "WEEK_OFF", "NO"},
           NEW wfh \in 0..2
    PROVE  /\ ByPresence(in, out, off, wfh) \in Outcome
           /\ Tells(ByPresence(in, out, off, wfh))
BY DEF ByPresence, Is, Outcome, DayStatus, Tells

LEMMA DecisionTells ==
    ASSUME NEW o \in Outcome, Tells(o), NEW leave \in 0..2, NEW duty \in 0..2, NEW wfh \in 0..2
    PROVE  /\ Decide(o, leave, duty, wfh) \in Outcome
           /\ Tells(Decide(o, leave, duty, wfh))
<1>1. HalfMore(o, "HALF_DAY") \in Outcome /\ Tells(HalfMore(o, "HALF_DAY"))
  BY DEF HalfMore, Is, AtMostFull, Outcome, DayStatus, Tells
<1>2. HalfMore(o, "WFH") \in Outcome /\ Tells(HalfMore(o, "WFH"))
  BY DEF HalfMore, Is, AtMostFull, Outcome, DayStatus, Tells
<1>3. \A s \in {"ON_LEAVE", "ON_DUTY", "WFH"} : Is(s, 2) \in Outcome /\ Tells(Is(s, 2))
  BY DEF Is, Outcome, DayStatus, Tells
<1> QED BY <1>1, <1>2, <1>3 DEF Decide

\* Every row that may be stored says the same by its status and by its pay
LEMMA RowTells ==
    ASSUME NEW in \in MaybeTime, NEW out \in MaybeTime, NEW A, A \subseteq Requests,
           NEW d \in Dates
    PROVE  /\ RowOf(in, out, A, d) \in StoredRow
           /\ Tells(RowOf(in, out, A, d))
<1> DEFINE wfh == WfhFraction(A, d)
           leave == LeaveFraction(A, d)
           duty == DutyFraction(A, d)
           present == [t \in Int \X Int |-> ByPresence(t[1], t[2], Off[d], wfh)]
           decided == [o \in Outcome |-> Decide(o, leave, duty, wfh)]
           row == [t \in Int \X Int |->
                     LET o == decided[present[t]]
                     IN [in |-> t[1], out |-> t[2], status |-> o.status, paid |-> o.paid]]
           o1 == ByPresence(in, out, Off[d], wfh)
           o2 == Decide(o1, leave, duty, wfh)
<1>1. in \in Int /\ out \in Int /\ Off[d] \in {"HOLIDAY", "WEEK_OFF", "NO"}
  BY TimesAre, AttendanceAssumption
<1>2. wfh \in 0..2 /\ leave \in 0..2 /\ duty \in 0..2
  BY WfhFractionIs, FractionsAre
<1> HIDE DEF wfh, leave, duty
<1>3. o1 \in Outcome /\ Tells(o1)
  BY <1>1, <1>2, PresenceTells
<1>4. o2 \in Outcome /\ Tells(o2)
  BY <1>2, <1>3, DecisionTells
<1> HIDE DEF o1, o2
<1>5. present[<<in, out>>] = o1
  BY <1>1 DEF o1
<1>6. decided[o1] = o2
  BY <1>3 DEF o2
<1> HIDE DEF present, decided
<1>7. row[<<in, out>>] = [in |-> in, out |-> out, status |-> o2.status, paid |-> o2.paid]
  BY <1>1, <1>5, <1>6
<1>8. RowOf(in, out, A, d) = row[<<in, out>>]
  BY DEF RowOf, wfh, leave, duty, present, decided
<1> HIDE DEF row
<1>9. RowOf(in, out, A, d) = [in |-> in, out |-> out, status |-> o2.status, paid |-> o2.paid]
  BY <1>7, <1>8
<1>10. o2.status \in DayStatus /\ o2.paid \in 0..2
  BY <1>4 DEF Outcome
<1> QED BY <1>4, <1>9, <1>10 DEF StoredRow, Tells

----------------------------------------------------------------------------
(* Types.                                                                  *)

LEMMA TimesOfDay ==
    ASSUME TypeOK, NEW d \in Dates
    PROVE  InOf(d) \in MaybeTime /\ OutOf(d) \in MaybeTime
<1>1. PunchesOf(d) \subseteq KeptPunch
  BY DEF TypeOK, PunchesOf
<1>2. CheckIn(PunchesOf(d)) \in MaybeTime /\ CheckOut(PunchesOf(d)) \in MaybeTime
  BY <1>1, CheckInIs, CheckOutIs
<1>3. record[d].in \in MaybeTime /\ record[d].out \in MaybeTime
  BY DEF TypeOK, Record
<1> QED BY <1>2, <1>3 DEF InOf, OutOf

LEMMA SummaryIs ==
    ASSUME TypeOK, NEW d \in Dates
    PROVE  Summary(d) \in StoredRow /\ Tells(Summary(d))
<1>1. InOf(d) \in MaybeTime /\ OutOf(d) \in MaybeTime
  BY TimesOfDay
<1>2. approved \subseteq Requests
  BY DEF TypeOK
<1> QED BY <1>1, <1>2, RowTells DEF Summary

\* The row of a day whose override has been replaced
LEMMA OverriddenIs ==
    ASSUME TypeOK, NEW d \in Dates, NEW in \in MaybeTime, NEW out \in MaybeTime,
           NEW source \in {"MANUAL", "REGULARIZATION", "IMPORT"}
    PROVE  LET rec == Overriding(in, out, source)
           IN rec \in Record /\ RowWith(d, rec) \in StoredRow /\ Tells(RowWith(d, rec))
<1> DEFINE rec == Overriding(in, out, source)
<1>1. rec \in Record
  BY DEF Overriding, Record
<1>2. rec.in \in MaybeTime /\ rec.out \in MaybeTime
  BY <1>1 DEF Record
<1>3. approved \subseteq Requests
  BY DEF TypeOK
<1> HIDE DEF rec
<1>4. RowWith(d, rec) \in StoredRow /\ Tells(RowWith(d, rec))
  BY <1>2, <1>3, RowTells DEF RowWith
<1> QED BY <1>1, <1>4 DEF rec

LEMMA NothingIs ==
    /\ NoRow \in StoredRow /\ Tells(NoRow) /\ NoRecord \in Record
    /\ NoScan \in KeptPunch /\ NoEdit \in EditType /\ IdleRequest \in Request
<1> USE TimesAre
<1>1. NoRow \in StoredRow /\ Tells(NoRow) /\ NoRecord \in Record
  BY DEF NoRow, StoredRow, MaybeTime, Tells, NoRecord, Record
<1>2. NoScan \in KeptPunch /\ NoEdit \in EditType
  BY DEF NoScan, KeptPunch, Punch, NoEdit, EditType, MaybeTime
<1>3. <<>> \in Seq(Steps)
  OBVIOUS
<1> QED BY <1>1, <1>2, <1>3 DEF IdleRequest, Doing, Request, Ops

LEMMA ProgramsAre == \A op \in Ops : Program(op) \in Seq(Steps) /\ Program(op) # <<>>
<1>1. "read" \in Steps /\ "write" \in Steps /\ "check" \in Steps /\ "keep" \in Steps
      /\ "gate" \in Steps /\ "upsert" \in Steps /\ "file" \in Steps /\ "cancel" \in Steps
  BY DEF Steps
<1>2. Program("view") \in Seq(Steps) /\ Program("view") # <<>>
  BY <1>1 DEF Program
<1>3. Program("scan") \in Seq(Steps) /\ Program("scan") # <<>>
  BY <1>1 DEF Program
<1>4. Program("punch") \in Seq(Steps) /\ Program("punch") # <<>>
  BY <1>1 DEF Program
<1>5. Program("override") \in Seq(Steps) /\ Program("override") # <<>>
  BY <1>1 DEF Program
<1>6. Program("file") \in Seq(Steps) /\ Program("file") # <<>>
  BY <1>1 DEF Program
<1>7. Program("withdraw") \in Seq(Steps) /\ Program("withdraw") # <<>>
  BY <1>1 DEF Program
<1> QED BY <1>2, <1>3, <1>4, <1>5, <1>6, <1>7 DEF Ops

LEMMA DoingIs ==
    ASSUME NEW op \in Ops, NEW d \in Dates, NEW scan \in KeptPunch, NEW edit \in EditType,
           NEW q \in Regs \cup {AnyReg}
    PROVE  /\ Doing(op, d, scan, edit, q) \in Request
           /\ Doing(op, d, scan, edit, q).todo = Program(op)
           /\ Doing(op, d, scan, edit, q).op = op
           /\ Doing(op, d, scan, edit, q).scan = scan
           /\ Doing(op, d, scan, edit, q).reg = q
           /\ Doing(op, d, scan, edit, q).row = NoRow
BY NothingIs, ProgramsAre DEF Doing, Request

\* What the statements of a request leave of it
LEMMA AdvancedIs ==
    ASSUME TypeOK, NEW w \in Processes, req[w].todo # <<>>
    PROVE  /\ Advance(w) \in Request /\ Stop(w) \in Request /\ Finish(w) \in Request
           /\ \A row \in StoredRow : [Advance(w) EXCEPT !.row = row] \in Request
<1>1. req[w] \in Request
  BY DEF TypeOK
<1>2. Tail(req[w].todo) \in Seq(Steps)
  BY <1>1 DEF Request
<1>3. Advance(w) \in Request
  BY <1>1, <1>2 DEF Advance, Request
<1>4. \A row \in StoredRow : [Advance(w) EXCEPT !.row = row] \in Request
  BY <1>3 DEF Request
<1>5. Stop(w) \in Request
  BY NothingIs DEF Stop
<1> QED BY <1>3, <1>4, <1>5 DEF Finish

LEMMA InitTypes == Init => TypeOK
<1> SUFFICES ASSUME Init
             PROVE  TypeOK
  OBVIOUS
<1>1. reg \in [Regs -> Reg]
  BY TimesAre DEF Init, Reg, MaybeTime
<1> QED BY <1>1, NothingIs, TimesAre, AttendanceAssumption DEF Init, TypeOK

\* A request begins: of the named variables only req changes
LEMMA BeginTypes ==
    ASSUME TypeOK, NEW w \in Processes, NEW op \in Ops, NEW d \in Dates, NEW scan \in KeptPunch,
           NEW edit \in EditType, NEW q \in Regs \cup {AnyReg}, Begin(w, op, d, scan, edit, q)
    PROVE  /\ req' \in [Processes -> Request]
           /\ req' = [req EXCEPT ![w] = Doing(op, d, scan, edit, q)]
BY DoingIs DEF Begin, TypeOK

\* The requests that begin on their own clock, and what they bring
LEMMA BeginsAre ==
    ASSUME TypeOK, NEW w \in Processes
    PROVE  /\ \A d \in Dates : View(w, d) =>
                Begin(w, "view", d, NoScan, NoEdit, AnyReg) /\ d \in Dates
           /\ \A s \in Scans : Send(w, s) =>
                Begin(w, "scan", DateOf(s.at), s, NoEdit, AnyReg) /\ s \in KeptPunch /\ DateOf(s.at) \in Dates
           /\ \A act \in {"CHECK_IN", "CHECK_OUT"} : PunchNow(w, act) =>
                /\ [at |-> now, act |-> act, src |-> "WEB"] \in KeptPunch /\ DateOf(now) \in Dates
           /\ \A e \in Edits : e \in EditType /\ e.date \in Dates
                /\ LET row == day[e.date]
                       in == IF e.in = NoTime THEN row.in ELSE e.in
                       out == IF e.out = NoTime THEN row.out ELSE e.out
                   IN [e EXCEPT !.in = in, !.out = out] \in EditType
           /\ \A q \in Regs : reg[q].date \in Dates
<1>1. \A s \in Scans : s \in KeptPunch /\ s.at \in Times
  BY AttendanceAssumption DEF KeptPunch
<1>2. \A s \in Scans : DateOf(s.at) \in Dates
  BY <1>1, DateOfTime
<1>3. now \in Times /\ DateOf(now) \in Dates /\ now \in Int
  BY DateOfTime, TimesAre DEF TypeOK
<1>4. \A act \in {"CHECK_IN", "CHECK_OUT"} : [at |-> now, act |-> act, src |-> "WEB"] \in KeptPunch
  BY <1>3 DEF KeptPunch, Punch
<1>5. \A e \in Edits : e \in EditType /\ e.date \in Dates
  BY AttendanceAssumption DEF EditType
<1>6. ASSUME NEW e \in Edits
      PROVE  LET row == day[e.date]
                 in == IF e.in = NoTime THEN row.in ELSE e.in
                 out == IF e.out = NoTime THEN row.out ELSE e.out
             IN [e EXCEPT !.in = in, !.out = out] \in EditType
  BY <1>5 DEF TypeOK, StoredRow, EditType
<1>7. \A q \in Regs : reg[q].date \in Dates
  BY DEF TypeOK, Reg
<1> QED BY <1>1, <1>2, <1>3, <1>4, <1>5, <1>6, <1>7 DEF View, Send

LEMMA TypeStep == TypeOK /\ [Next]_vars => TypeOK'
<1> SUFFICES ASSUME TypeOK, [Next]_vars
             PROVE  TypeOK'
  OBVIOUS
<1> USE DEF inputs
<1>1. CASE UNCHANGED vars
  BY <1>1 DEF TypeOK, vars
<1>2. CASE Tick
  BY <1>2 DEF Tick, TypeOK
<1>3. ASSUME NEW w \in Viewers, NEW d \in Dates, View(w, d)
      PROVE  TypeOK'
  <2>1. w \in Processes /\ "view" \in Ops
    BY DEF Processes, Ops
  <2>2. req' \in [Processes -> Request]
    BY <1>3, <2>1, BeginsAre, BeginTypes, NothingIs
  <2> QED BY <1>3, <2>2 DEF View, TypeOK
<1>4. ASSUME NEW w \in Workers, NEW s \in Scans, Send(w, s)
      PROVE  TypeOK'
  <2>1. w \in Processes /\ "scan" \in Ops
    BY DEF Processes, Ops
  <2>2. Begin(w, "scan", DateOf(s.at), s, NoEdit, AnyReg) /\ s \in KeptPunch /\ DateOf(s.at) \in Dates
    BY <1>4, <2>1, BeginsAre
  <2>3. req' \in [Processes -> Request]
    BY <2>1, <2>2, BeginTypes, NothingIs
  <2> QED BY <1>4, <2>3 DEF Send, TypeOK
<1>5. ASSUME NEW w \in Workers, NEW act \in {"CHECK_IN", "CHECK_OUT"}, PunchNow(w, act)
      PROVE  TypeOK'
  <2> DEFINE made == [at |-> now, act |-> act, src |-> "WEB"]
  <2>1. w \in Processes /\ "punch" \in Ops
    BY DEF Processes, Ops
  <2>2. made \in KeptPunch /\ DateOf(now) \in Dates
    BY <1>5, <2>1, BeginsAre
  <2>3. Begin(w, "punch", DateOf(now), made, NoEdit, AnyReg) /\ Bounded
    BY <1>5 DEF PunchNow
  <2> HIDE DEF made
  <2>4. req' \in [Processes -> Request]
    BY <2>1, <2>2, <2>3, BeginTypes, NothingIs
  <2> QED BY <1>5, <2>3, <2>4, AttendanceAssumption DEF PunchNow, TypeOK, Bounded
<1>6. ASSUME NEW w \in Workers, NEW e \in Edits, Override(w, e)
      PROVE  TypeOK'
  <2> DEFINE in == IF e.in = NoTime THEN day[e.date].in ELSE e.in
             out == IF e.out = NoTime THEN day[e.date].out ELSE e.out
             f == [e EXCEPT !.in = in, !.out = out]
  <2>1. w \in Processes /\ "override" \in Ops
    BY DEF Processes, Ops
  <2>2. f \in EditType /\ e.date \in Dates
    BY <2>1, BeginsAre
  <2>3. Begin(w, "override", e.date, NoScan, f, AnyReg) /\ Bounded
    BY <1>6 DEF Override
  <2> HIDE DEF f
  <2>4. req' \in [Processes -> Request]
    BY <2>1, <2>2, <2>3, BeginTypes, NothingIs
  <2> QED BY <1>6, <2>3, <2>4, AttendanceAssumption DEF Override, TypeOK, Bounded
<1>7. ASSUME NEW w \in Workers, NEW e \in Edits, NEW q \in Regs, File(w, q, e)
      PROVE  TypeOK'
  <2>1. w \in Processes /\ "file" \in Ops
    BY DEF Processes, Ops
  <2>2. e \in EditType /\ e.date \in Dates
    BY <2>1, BeginsAre
  <2>3. Begin(w, "file", e.date, NoScan, e, q) /\ Bounded
    BY <1>7 DEF File
  <2>4. req' \in [Processes -> Request]
    BY <2>1, <2>2, <2>3, BeginTypes, NothingIs
  <2> QED BY <1>7, <2>3, <2>4, AttendanceAssumption DEF File, TypeOK, Bounded
<1>8. ASSUME NEW w \in Workers, NEW q \in Regs, Withdraw(w, q)
      PROVE  TypeOK'
  <2>1. w \in Processes /\ "withdraw" \in Ops
    BY DEF Processes, Ops
  <2>2. reg[q].date \in Dates
    BY <2>1, BeginsAre
  <2>3. Begin(w, "withdraw", reg[q].date, NoScan, NoEdit, q)
    BY <1>8 DEF Withdraw
  <2>4. req' \in [Processes -> Request]
    BY <2>1, <2>2, <2>3, BeginTypes, NothingIs
  <2>5. reg' \in [Regs -> Reg]
    BY <1>8 DEF Withdraw, TypeOK, Reg
  <2> QED BY <1>8, <2>4, <2>5 DEF Withdraw, TypeOK
<1>9. ASSUME NEW w \in Processes, StepOf(w)
      PROVE  TypeOK'
  <2>1. req[w].todo # <<>> /\ req[w] \in Request
    BY <1>9 DEF StepOf, Read, Write, Check, Keep, Gate, Upsert, FileIt, Cancel, At, TypeOK
  <2>2. /\ Advance(w) \in Request /\ Stop(w) \in Request /\ Finish(w) \in Request
        /\ \A row \in StoredRow : [Advance(w) EXCEPT !.row = row] \in Request
    BY <2>1, AdvancedIs
  <2>3. req[w].date \in Dates /\ req[w].scan \in KeptPunch /\ req[w].edit \in EditType
        /\ req[w].row \in StoredRow
    BY <2>1 DEF Request
  <2>4. CASE Read(w)
    <3>1. Summary(req[w].date) \in StoredRow
      BY <2>3, SummaryIs
    <3> QED BY <2>2, <2>4, <3>1 DEF Read, TypeOK
  <2>5. CASE Write(w)
    <3>1. day' \in [Dates -> StoredRow]
      BY <2>3, <2>5 DEF Write, TypeOK
    <3>2. req' \in [Processes -> Request]
      BY <2>2, <2>5 DEF Write, TypeOK
    <3>3. answered' \in SUBSET (answered \cup {req[w].scan})
      BY <2>5 DEF Write
    <3> QED BY <2>3, <2>5, <3>1, <3>2, <3>3 DEF Write, TypeOK
  <2>6. CASE Check(w)
    <3>1. req' \in [Processes -> Request]
      BY <2>2, <2>6 DEF Check, TypeOK
    <3> QED BY <2>3, <2>6, <3>1 DEF Check, TypeOK
  <2>7. CASE Keep(w)
    <3>1. [req[w].scan EXCEPT !.at = now] \in KeptPunch
      <4>1. now \in Times /\ now \in Int
        BY TimesAre DEF TypeOK
      <4>2. req[w].scan \in Punch
        BY <2>3 DEF KeptPunch
      <4>3. [req[w].scan EXCEPT !.at = now] \in Punch /\ [req[w].scan EXCEPT !.at = now].at = now
        BY <4>1, <4>2 DEF Punch
      <4> QED BY <4>1, <4>3 DEF KeptPunch
    <3>2. punches' \subseteq KeptPunch
      BY <2>3, <2>7, <3>1 DEF Keep, TypeOK
    <3>3. req' \in [Processes -> Request]
      BY <2>2, <2>7, NothingIs DEF Keep, TypeOK
    <3> QED BY <2>7, <3>2, <3>3 DEF Keep, TypeOK
  <2>8. CASE Gate(w)
    BY <2>2, <2>8 DEF Gate, TypeOK
  <2>9. CASE Upsert(w)
    <3>1. req' \in [Processes -> Request]
      BY <2>2, <2>9 DEF Upsert, TypeOK
    <3>2. Overriding(req[w].edit.in, req[w].edit.out, "MANUAL") \in Record
      BY <2>3 DEF EditType, Overriding, Record
    <3>3. record' \in [Dates -> Record]
      BY <2>9, <3>2 DEF Upsert, TypeOK
    <3> QED BY <2>9, <3>1, <3>3 DEF Upsert, TypeOK
  <2>10. CASE FileIt(w)
    <3>1. req' \in [Processes -> Request]
      BY <2>2, <2>10 DEF FileIt, TypeOK
    <3>2. [date |-> req[w].date, in |-> req[w].edit.in, out |-> req[w].edit.out,
           status |-> "PENDING", run |-> "PENDING"] \in Reg
      BY <2>3 DEF EditType, Reg
    <3>3. reg' \in [Regs -> Reg]
      BY <2>10, <3>2 DEF FileIt, TypeOK
    <3> QED BY <2>10, <3>1, <3>3 DEF FileIt, TypeOK
  <2>11. CASE Cancel(w)
    <3>1. req' \in [Processes -> Request]
      BY <2>2, <2>11 DEF Cancel, TypeOK
    <3>2. reg' \in [Regs -> Reg]
      BY <2>11 DEF Cancel, TypeOK, Reg
    <3>3. \A d \in Dates : Summary(d) \in StoredRow
      BY SummaryIs
    <3>4. day' \in [Dates -> StoredRow]
      BY <2>11, <3>3 DEF Cancel, TypeOK
    <3> QED BY <2>11, <3>1, <3>2, <3>4 DEF Cancel, TypeOK
  <2> QED BY <1>9, <2>4, <2>5, <2>6, <2>7, <2>8, <2>9, <2>10, <2>11 DEF StepOf
<1>10. ASSUME NEW w \in Processes, Crash(w)
       PROVE  TypeOK'
  BY <1>10, NothingIs, AttendanceAssumption DEF Crash, TypeOK, Bounded
<1>11. ASSUME NEW q \in Regs, Approve(q)
       PROVE  TypeOK'
  <2> DEFINE d == reg[q].date
             in == IF reg[q].in # NoTime THEN reg[q].in
                   ELSE IF InOf(d) # NoTime THEN InOf(d) ELSE reg[q].out
             out == IF reg[q].out # NoTime THEN reg[q].out ELSE OutOf(d)
             rec == Overriding(in, out, "REGULARIZATION")
  <2>1. d \in Dates /\ reg[q].in \in MaybeTime /\ reg[q].out \in MaybeTime
    BY DEF TypeOK, Reg
  <2>2. InOf(d) \in MaybeTime /\ OutOf(d) \in MaybeTime
    BY <2>1, TimesOfDay
  <2>3. in \in MaybeTime /\ out \in MaybeTime
    BY <2>1, <2>2
  <2> HIDE DEF in, out, d
  <2>4. rec \in Record /\ RowWith(d, rec) \in StoredRow
    BY <2>1, <2>3, OverriddenIs
  <2>5. /\ record' = [record EXCEPT ![d] = rec]
        /\ day' = [day EXCEPT ![d] = RowWith(d, rec)]
        /\ UNCHANGED <<now, punches, approved, req, answered, events>>
    BY <1>11 DEF Approve, d, in, out
  <2> HIDE DEF rec
  <2>6. reg' \in [Regs -> Reg]
    BY <1>11 DEF Approve, TypeOK, Reg
  <2>7. record' \in [Dates -> Record] /\ day' \in [Dates -> StoredRow]
    BY <2>4, <2>5 DEF TypeOK
  <2> QED BY <2>5, <2>6, <2>7 DEF TypeOK
<1>12. ASSUME NEW q \in Regs, Reject(q)
       PROVE  TypeOK'
  <2>1. \A d \in Dates : Summary(d) \in StoredRow
    BY SummaryIs
  <2>2. reg[q].date \in Dates
    BY DEF TypeOK, Reg
  <2>3. day' \in [Dates -> StoredRow]
    BY <1>12, <2>1, <2>2 DEF Reject, TypeOK
  <2>4. reg' \in [Regs -> Reg]
    BY <1>12 DEF Reject, TypeOK, Reg
  <2> QED BY <1>12, <2>3, <2>4 DEF Reject, TypeOK
<1>13. ASSUME NEW q \in Regs, NEW e \in Edits \cup {NoEdit}, Edit(q, e)
       PROVE  TypeOK'
  <2>1. e \in EditType
    BY AttendanceAssumption, NothingIs
  <2>2. reg' \in [Regs -> Reg]
    BY <1>13, <2>1 DEF Edit, TypeOK, Reg, EditType
  <2> QED BY <1>13, <2>2, AttendanceAssumption DEF Edit, TypeOK, Bounded
<1>14. ASSUME NEW e \in Edits, Import(e)
       PROVE  TypeOK'
  <2> DEFINE rec == Overriding(e.in, e.out, "IMPORT")
  <2>1. e.date \in Dates /\ e.in \in MaybeTime /\ e.out \in MaybeTime
    BY AttendanceAssumption DEF EditType
  <2>2. rec \in Record /\ RowWith(e.date, rec) \in StoredRow
    BY <2>1, OverriddenIs
  <2>3. /\ record' = [record EXCEPT ![e.date] = rec]
        /\ day' = [day EXCEPT ![e.date] = RowWith(e.date, rec)]
        /\ Bounded /\ UNCHANGED <<now, punches, approved, reg, req, answered>>
    BY <1>14 DEF Import
  <2> HIDE DEF rec
  <2>4. record' \in [Dates -> Record] /\ day' \in [Dates -> StoredRow]
    BY <2>2, <2>3 DEF TypeOK
  <2> QED BY <2>3, <2>4, AttendanceAssumption DEF TypeOK, Bounded
<1>15. ASSUME NEW q \in Requests, Verdict(q)
       PROVE  TypeOK'
  BY <1>15, AttendanceAssumption DEF Verdict, TypeOK, Bounded
<1> QED BY <1>1, <1>2, <1>3, <1>4, <1>5, <1>6, <1>7, <1>8, <1>9, <1>10, <1>11, <1>12, <1>13,
           <1>14, <1>15 DEF Next

----------------------------------------------------------------------------
(* What every request in progress keeps of itself.                         *)

\* Every request that changes either begins, goes on, is given its row, or is over
LEMMA RequestsChange ==
    ASSUME TypeOK, [Next]_vars, NEW v \in Processes
    PROVE  \/ req'[v] = req[v]
           \/ req'[v] = IdleRequest
           \/ Idle(v) /\ \E op \in Ops, d \in Dates, scan \in KeptPunch, edit \in EditType,
                            q \in Regs \cup {AnyReg} :
                /\ req'[v] = Doing(op, d, scan, edit, q)
                /\ op = "scan" => scan \in Scans
                /\ op = "file" => q \in Regs /\ File(v, q, edit)
           \/ ~ Idle(v) /\ req'[v] = Advance(v) /\ ~ At(v, "keep")
           \/ /\ ~ Idle(v) /\ At(v, "read")
              /\ req'[v] = [Advance(v) EXCEPT !.row = Summary(req[v].date)]
           \/ Keep(v) /\ req'[v] = [Advance(v) EXCEPT !.row = NoRow]
<1> DEFINE Change ==
           \/ req'[v] = req[v]
           \/ req'[v] = IdleRequest
           \/ Idle(v) /\ \E op \in Ops, d \in Dates, scan \in KeptPunch, edit \in EditType,
                            q \in Regs \cup {AnyReg} :
                /\ req'[v] = Doing(op, d, scan, edit, q)
                /\ op = "scan" => scan \in Scans
                /\ op = "file" => q \in Regs /\ File(v, q, edit)
           \/ ~ Idle(v) /\ req'[v] = Advance(v) /\ ~ At(v, "keep")
           \/ /\ ~ Idle(v) /\ At(v, "read")
              /\ req'[v] = [Advance(v) EXCEPT !.row = Summary(req[v].date)]
           \/ Keep(v) /\ req'[v] = [Advance(v) EXCEPT !.row = NoRow]
<1>0. req \in [Processes -> Request] /\ AnyReg \in Regs \cup {AnyReg}
      /\ NoScan \in KeptPunch /\ NoEdit \in EditType
  BY NothingIs DEF TypeOK
<1>1. ASSUME UNCHANGED req
      PROVE  Change
  BY <1>1
<1>2. ASSUME NEW w \in Processes, NEW op \in Ops, NEW d \in Dates, NEW scan \in KeptPunch,
             NEW edit \in EditType, NEW q \in Regs \cup {AnyReg}, Begin(w, op, d, scan, edit, q),
             op = "scan" => scan \in Scans, op = "file" => q \in Regs /\ File(w, q, edit)
      PROVE  Change
  <2>1. CASE v = w
    <3>1. Idle(v) /\ req'[v] = Doing(op, d, scan, edit, q)
      BY <1>0, <1>2, <2>1 DEF Begin
    <3> HIDE DEF Change
    <3>2. \E op1 \in Ops, d1 \in Dates, scan1 \in KeptPunch, edit1 \in EditType,
              q1 \in Regs \cup {AnyReg} :
                /\ req'[v] = Doing(op1, d1, scan1, edit1, q1)
                /\ op1 = "scan" => scan1 \in Scans
                /\ op1 = "file" => q1 \in Regs /\ File(v, q1, edit1)
      BY <1>2, <2>1, <3>1
    <3> QED BY <3>1, <3>2 DEF Change
  <2>2. CASE v # w
    BY <1>0, <1>2, <2>2 DEF Begin
  <2> QED BY <2>1, <2>2
<1>3. ASSUME NEW w \in Processes, StepOf(w)
      PROVE  Change
  <2>1. CASE v # w
    <3>1. req'[v] = req[v]
      BY <1>0, <1>3, <2>1 DEF StepOf, Read, Write, Check, Keep, Gate, Upsert, FileIt, Cancel
    <3> QED BY <3>1
  <2>2. CASE v = w
    <3>1. ~ Idle(v) /\ req[v].todo # <<>>
      BY <1>3, <2>2 DEF StepOf, Read, Write, Check, Keep, Gate, Upsert, FileIt, Cancel, At, Idle
    <3>2. CASE Read(w)
      BY <1>0, <2>2, <3>1, <3>2 DEF Read
    <3>3. CASE Keep(w)
      BY <1>0, <2>2, <3>1, <3>3 DEF Keep
    <3>4. CASE Write(w) \/ Check(w) \/ Gate(w) \/ Upsert(w) \/ FileIt(w) \/ Cancel(w)
      <4>1. req'[v] = Advance(v) \/ req'[v] = IdleRequest
        BY <1>0, <2>2, <3>1, <3>4 DEF Write, Check, Gate, Upsert, FileIt, Cancel, Finish, Stop
      <4>2. ~ At(v, "keep")
        BY <2>2, <3>4 DEF Write, Check, Gate, Upsert, FileIt, Cancel, At
      <4> QED BY <3>1, <4>1, <4>2
    <3> QED BY <1>3, <3>2, <3>3, <3>4 DEF StepOf
  <2> QED BY <2>1, <2>2
<1>4. ASSUME NEW w \in Processes, Crash(w)
      PROVE  Change
  BY <1>0, <1>4 DEF Crash
<1> HIDE DEF Change
<1>5. ASSUME UNCHANGED vars
      PROVE  Change
  BY <1>1, <1>5 DEF vars
<1>6. ASSUME Tick
      PROVE  Change
  BY <1>1, <1>6 DEF Tick
<1>7. ASSUME NEW w \in Viewers, NEW d \in Dates, View(w, d)
      PROVE  Change
  <2>1. w \in Processes /\ "view" \in Ops
    BY DEF Processes, Ops
  <2>2. Begin(w, "view", d, NoScan, NoEdit, AnyReg)
    BY <1>7 DEF View
  <2> QED BY <1>0, <1>2, <2>1, <2>2
<1>8. ASSUME NEW w \in Workers, NEW s \in Scans, Send(w, s)
      PROVE  Change
  <2>1. w \in Processes /\ "scan" \in Ops
    BY DEF Processes, Ops
  <2>2. Begin(w, "scan", DateOf(s.at), s, NoEdit, AnyReg) /\ s \in KeptPunch /\ DateOf(s.at) \in Dates
    BY <1>8, <2>1, BeginsAre
  <2> QED BY <1>0, <1>2, <2>1, <2>2
<1>9. ASSUME NEW w \in Workers, NEW act \in {"CHECK_IN", "CHECK_OUT"}, PunchNow(w, act)
      PROVE  Change
  <2> DEFINE made == [at |-> now, act |-> act, src |-> "WEB"]
  <2>1. w \in Processes /\ "punch" \in Ops
    BY DEF Processes, Ops
  <2>2. made \in KeptPunch /\ DateOf(now) \in Dates
    BY <1>9, <2>1, BeginsAre
  <2>3. Begin(w, "punch", DateOf(now), made, NoEdit, AnyReg)
    BY <1>9 DEF PunchNow
  <2> HIDE DEF made
  <2> QED BY <1>0, <1>2, <2>1, <2>2, <2>3
<1>10. ASSUME NEW w \in Workers, NEW e \in Edits, Override(w, e)
       PROVE  Change
  <2> DEFINE in == IF e.in = NoTime THEN day[e.date].in ELSE e.in
             out == IF e.out = NoTime THEN day[e.date].out ELSE e.out
             f == [e EXCEPT !.in = in, !.out = out]
  <2>1. w \in Processes /\ "override" \in Ops
    BY DEF Processes, Ops
  <2>2. f \in EditType /\ e.date \in Dates
    BY <2>1, BeginsAre
  <2>3. Begin(w, "override", e.date, NoScan, f, AnyReg)
    BY <1>10 DEF Override
  <2> HIDE DEF f
  <2> QED BY <1>0, <1>2, <2>1, <2>2, <2>3
<1>11. ASSUME NEW w \in Workers, NEW e \in Edits, NEW q \in Regs, File(w, q, e)
       PROVE  Change
  <2>1. w \in Processes /\ "file" \in Ops
    BY DEF Processes, Ops
  <2>2. e \in EditType /\ e.date \in Dates
    BY <2>1, BeginsAre
  <2>3. Begin(w, "file", e.date, NoScan, e, q)
    BY <1>11 DEF File
  <2> QED BY <1>0, <1>2, <1>11, <2>1, <2>2, <2>3
<1>12. ASSUME NEW w \in Workers, NEW q \in Regs, Withdraw(w, q)
       PROVE  Change
  <2>1. w \in Processes /\ "withdraw" \in Ops
    BY DEF Processes, Ops
  <2>2. reg[q].date \in Dates
    BY <2>1, BeginsAre
  <2>3. Begin(w, "withdraw", reg[q].date, NoScan, NoEdit, q)
    BY <1>12 DEF Withdraw
  <2> QED BY <1>0, <1>2, <2>1, <2>2, <2>3
<1>13. ASSUME NEW q \in Regs, Approve(q) \/ Reject(q)
       PROVE  Change
  BY <1>1, <1>13 DEF Approve, Reject
<1>14. ASSUME NEW q \in Regs, NEW e \in Edits \cup {NoEdit}, Edit(q, e)
       PROVE  Change
  BY <1>1, <1>14 DEF Edit
<1>15. ASSUME NEW e \in Edits, Import(e)
       PROVE  Change
  BY <1>1, <1>15 DEF Import
<1>16. ASSUME NEW q \in Requests, Verdict(q)
       PROVE  Change
  BY <1>1, <1>16 DEF Verdict
<1>17. Change
  <2>1. CASE \E w \in Workers :
               \/ \E s \in Scans : Send(w, s)
               \/ \E act \in {"CHECK_IN", "CHECK_OUT"} : PunchNow(w, act)
               \/ \E e \in Edits : Override(w, e) \/ (\E q \in Regs : File(w, q, e))
               \/ \E q \in Regs : Withdraw(w, q)
    BY <1>8, <1>9, <1>10, <1>11, <1>12, <2>1
  <2>2. CASE \E q \in Regs : Approve(q) \/ Reject(q) \/ (\E e \in Edits \cup {NoEdit} : Edit(q, e))
    BY <1>13, <1>14, <2>2
  <2>3. CASE \E w \in Processes : StepOf(w) \/ Crash(w)
    BY <1>3, <1>4, <2>3
  <2>4. CASE (\E w \in Viewers, d \in Dates : View(w, d)) \/ (\E e \in Edits : Import(e))
             \/ \E q \in Requests : Verdict(q)
    BY <1>7, <1>15, <1>16, <2>4
  <2>5. Next => Change
    BY <1>6, <2>1, <2>2, <2>3, <2>4 DEF Next
  <2>6. Next \/ UNCHANGED vars
    OBVIOUS
  <2> QED BY <1>5, <2>5, <2>6
<1> QED BY <1>17 DEF Change

----------------------------------------------------------------------------
(* The status and the pay of every row, stored or about to be.             *)

RowsTell ==
    /\ \A d \in Dates : Tells(day[d])
    /\ \A w \in Processes : Tells(req[w].row)

LEMMA RowsTellStep == TypeOK /\ RowsTell /\ [Next]_vars => RowsTell'
<1> SUFFICES ASSUME TypeOK, RowsTell, [Next]_vars
             PROVE  RowsTell'
  OBVIOUS
<1>1. ASSUME NEW v \in Processes
      PROVE  Tells(req'[v].row)
  <2>1. req[v] \in Request /\ Tells(req[v].row) /\ Tells(NoRow) /\ Tells(IdleRequest.row)
    BY NothingIs DEF TypeOK, RowsTell, IdleRequest, Doing
  <2>2. CASE req'[v] = req[v] \/ req'[v] = IdleRequest
    BY <2>1, <2>2
  <2>3. CASE \E op \in Ops, d \in Dates, scan \in KeptPunch, edit \in EditType,
                q \in Regs \cup {AnyReg} : req'[v] = Doing(op, d, scan, edit, q)
    BY <2>1, <2>3, DoingIs
  <2>4. CASE ~ Idle(v) /\ req'[v] = Advance(v)
    BY <2>1, <2>4 DEF Advance, Request
  <2>5. CASE /\ ~ Idle(v)
             /\ req'[v] = [Advance(v) EXCEPT !.row = Summary(req[v].date)]
    <3>1. Tells(Summary(req[v].date))
      BY <2>1, SummaryIs DEF Request
    <3>2. req'[v].row = Summary(req[v].date)
      BY <2>1, <2>5, AdvancedIs DEF Idle, Request
    <3> QED BY <3>1, <3>2
  <2>6. CASE Keep(v) /\ req'[v] = [Advance(v) EXCEPT !.row = NoRow]
    <3>1. req'[v].row = NoRow
      BY <2>1, <2>6 DEF Advance, Request
    <3> QED BY <2>1, <3>1
  <2> QED BY RequestsChange, <2>2, <2>3, <2>4, <2>5, <2>6
<1>2. ASSUME NEW d \in Dates
      PROVE  Tells(day'[d])
  <2>1. day \in [Dates -> StoredRow] /\ Tells(day[d]) /\ Tells(Summary(d))
    BY SummaryIs DEF TypeOK, RowsTell
  <2>2. ASSUME UNCHANGED day
        PROVE  Tells(day'[d])
    BY <2>1, <2>2
  <2>3. ASSUME NEW w \in Processes, StepOf(w)
        PROVE  Tells(day'[d])
    <3>1. CASE Write(w)
      BY <2>1, <3>1 DEF Write, RowsTell
    <3>2. CASE Cancel(w)
      BY <2>1, <3>2 DEF Cancel
    <3>3. CASE ~ Write(w) /\ ~ Cancel(w)
      BY <2>2, <2>3, <3>3 DEF StepOf, Read, Check, Keep, Gate, Upsert, FileIt
    <3> QED BY <3>1, <3>2, <3>3
  <2>4. ASSUME NEW q \in Regs, Approve(q)
        PROVE  Tells(day'[d])
    <3> DEFINE c == reg[q].date
               in == IF reg[q].in # NoTime THEN reg[q].in
                     ELSE IF InOf(c) # NoTime THEN InOf(c) ELSE reg[q].out
               out == IF reg[q].out # NoTime THEN reg[q].out ELSE OutOf(c)
               rec == Overriding(in, out, "REGULARIZATION")
    <3>1. c \in Dates /\ reg[q].in \in MaybeTime /\ reg[q].out \in MaybeTime
      BY DEF TypeOK, Reg
    <3>2. InOf(c) \in MaybeTime /\ OutOf(c) \in MaybeTime
      BY <3>1, TimesOfDay
    <3>3. in \in MaybeTime /\ out \in MaybeTime
      BY <3>1, <3>2
    <3> HIDE DEF in, out, c
    <3>4. Tells(RowWith(c, rec))
      BY <3>1, <3>3, OverriddenIs
    <3>5. day' = [day EXCEPT ![c] = RowWith(c, rec)]
      BY <2>4 DEF Approve, c, in, out
    <3> HIDE DEF rec
    <3> QED BY <2>1, <3>4, <3>5
  <2>5. ASSUME NEW e \in Edits, Import(e)
        PROVE  Tells(day'[d])
    <3> DEFINE rec == Overriding(e.in, e.out, "IMPORT")
    <3>1. e.date \in Dates /\ e.in \in MaybeTime /\ e.out \in MaybeTime
      BY AttendanceAssumption DEF EditType
    <3>2. Tells(RowWith(e.date, rec))
      BY <3>1, OverriddenIs
    <3>3. day' = [day EXCEPT ![e.date] = RowWith(e.date, rec)]
      BY <2>5 DEF Import
    <3> HIDE DEF rec
    <3> QED BY <2>1, <3>2, <3>3
  <2>6. ASSUME NEW q \in Regs, Reject(q)
        PROVE  Tells(day'[d])
    BY <2>1, <2>6 DEF Reject
  <2>7. CASE \E w \in Workers :
               \/ \E s \in Scans : Send(w, s)
               \/ \E act \in {"CHECK_IN", "CHECK_OUT"} : PunchNow(w, act)
               \/ \E e \in Edits : Override(w, e) \/ (\E q \in Regs : File(w, q, e))
               \/ \E q \in Regs : Withdraw(w, q)
    BY <2>2, <2>7 DEF Send, PunchNow, Override, File, Withdraw
  <2>8. CASE \E w \in Viewers, c \in Dates : View(w, c)
    BY <2>2, <2>8 DEF View
  <2>9. CASE \E w \in Processes : Crash(w)
    BY <2>2, <2>9 DEF Crash
  <2>10. CASE \E q \in Regs, e \in Edits \cup {NoEdit} : Edit(q, e)
    BY <2>2, <2>10 DEF Edit
  <2>11. CASE Tick \/ (\E q \in Requests : Verdict(q)) \/ UNCHANGED vars
    BY <2>2, <2>11 DEF Tick, Verdict, vars
  <2>12. Next \/ UNCHANGED vars
    OBVIOUS
  <2> QED BY <2>3, <2>4, <2>5, <2>6, <2>7, <2>8, <2>9, <2>10, <2>11, <2>12 DEF Next
<1> QED BY <1>1, <1>2 DEF RowsTell

----------------------------------------------------------------------------
(* Regularization.                                                         *)

Filing(w) == ~ Idle(w) /\ req[w].op = "file"

\* What is being filed is new, and nobody else is filing it
FilesAreNew ==
    \A w \in Processes : Filing(w) =>
        /\ req[w].reg \in Regs /\ reg[req[w].reg].status = "NONE"
        /\ \A v \in Processes \ {w} : Filing(v) => req[v].reg # req[w].reg

\* A request that is not filed has no run, one that is approved has none left
RunsFollow ==
    \A q \in Regs :
        /\ reg[q].status = "NONE" => reg[q].run = "NONE"
        /\ reg[q].status = "APPROVED" => reg[q].run = "CLOSED"

RegInv == FilesAreNew /\ RunsFollow /\ RegularizationHolds

\* Only a request that files has that step left
OwnSteps == \A w \in Processes : req[w].op # "file" => req[w].todo \in Seq(Steps \ {"file"})

LEMMA OwnStepsStep == TypeOK /\ OwnSteps /\ [Next]_vars => OwnSteps'
<1> SUFFICES ASSUME TypeOK, OwnSteps, [Next]_vars, NEW v \in Processes, req'[v].op # "file"
             PROVE  req'[v].todo \in Seq(Steps \ {"file"})
  BY DEF OwnSteps
<1>1. req[v] \in Request
  BY DEF TypeOK
<1>2. CASE req'[v] = req[v]
  BY <1>2 DEF OwnSteps
<1>3. CASE req'[v] = IdleRequest
  BY <1>3 DEF IdleRequest, Doing
<1>4. ASSUME NEW op \in Ops, NEW d \in Dates, NEW scan \in KeptPunch, NEW edit \in EditType,
             NEW q \in Regs \cup {AnyReg}, req'[v] = Doing(op, d, scan, edit, q)
      PROVE  req'[v].todo \in Seq(Steps \ {"file"})
  <2>1. op # "file" /\ req'[v].todo = Program(op)
    BY <1>4, DoingIs
  <2>2. \A x \in Seq(Steps) : (\A i \in 1..Len(x) : x[i] # "file") => x \in Seq(Steps \ {"file"})
    OBVIOUS
  <2>3. \A i \in 1..Len(Program(op)) : Program(op)[i] # "file"
    BY <2>1 DEF Program, Ops
  <2> QED BY <2>1, <2>2, <2>3, ProgramsAre
<1>5. CASE ~ Idle(v) /\ \/ req'[v] = Advance(v)
                        \/ \E row : req'[v] = [Advance(v) EXCEPT !.row = row]
  <2>1. req'[v].op = req[v].op /\ req'[v].todo = Tail(req[v].todo) /\ req[v].todo # <<>>
    BY <1>1, <1>5 DEF Advance, Request, Idle
  <2>2. req[v].todo \in Seq(Steps \ {"file"})
    BY <2>1 DEF OwnSteps
  <2>3. Tail(req[v].todo) \in Seq(Steps \ {"file"})
    BY <2>1, <2>2
  <2> QED BY <2>1, <2>3
<1>6. Keep(v) => ~ Idle(v)
  BY DEF Keep, At, Idle
<1>7. CASE \E op \in Ops, d \in Dates, scan \in KeptPunch, edit \in EditType,
                q \in Regs \cup {AnyReg} :
                /\ req'[v] = Doing(op, d, scan, edit, q)
                /\ op = "scan" => scan \in Scans
                /\ op = "file" => q \in Regs /\ File(v, q, edit)
  BY <1>4, <1>7
<1>8. CASE ~ Idle(v) /\ At(v, "read") /\ req'[v] = [Advance(v) EXCEPT !.row = Summary(req[v].date)]
  BY <1>5, <1>8
<1>9. CASE Keep(v) /\ req'[v] = [Advance(v) EXCEPT !.row = NoRow]
  BY <1>5, <1>6, <1>9
<1> QED BY RequestsChange, <1>2, <1>3, <1>5, <1>7, <1>8, <1>9

LEMMA FilingStays ==
    ASSUME TypeOK, [Next]_vars, NEW v \in Processes, Filing(v)'
    PROVE  \/ Filing(v) /\ req'[v].reg = req[v].reg
           \/ \E e \in EditType, q \in Regs : File(v, q, e) /\ req'[v].reg = q
<1>1. req[v] \in Request /\ ~ (IdleRequest.todo # <<>>)
  BY DEF TypeOK, IdleRequest, Doing
<1>2. CASE req'[v] = req[v] \/ req'[v] = IdleRequest
  BY <1>1, <1>2 DEF Filing, Idle
<1>3. ASSUME NEW op \in Ops, NEW d \in Dates, NEW scan \in KeptPunch, NEW edit \in EditType,
             NEW q \in Regs \cup {AnyReg}, req'[v] = Doing(op, d, scan, edit, q),
             op = "file" => q \in Regs /\ File(v, q, edit)
      PROVE  \E e \in EditType, r \in Regs : File(v, r, e) /\ req'[v].reg = r
  BY <1>3, DoingIs DEF Filing
<1>4. CASE ~ Idle(v) /\ \/ req'[v] = Advance(v)
                        \/ \E row : req'[v] = [Advance(v) EXCEPT !.row = row]
  BY <1>1, <1>4 DEF Advance, Request, Filing
<1>5. Keep(v) => ~ Idle(v)
  BY DEF Keep, At, Idle
<1>6. ASSUME \E op \in Ops, d \in Dates, scan \in KeptPunch, edit \in EditType,
                q \in Regs \cup {AnyReg} :
                /\ req'[v] = Doing(op, d, scan, edit, q)
                /\ op = "scan" => scan \in Scans
                /\ op = "file" => q \in Regs /\ File(v, q, edit)
      PROVE  \E e \in EditType, r \in Regs : File(v, r, e) /\ req'[v].reg = r
  BY <1>3, <1>6
<1>7. CASE ~ Idle(v) /\ At(v, "read") /\ req'[v] = [Advance(v) EXCEPT !.row = Summary(req[v].date)]
  BY <1>4, <1>7
<1>8. CASE Keep(v) /\ req'[v] = [Advance(v) EXCEPT !.row = NoRow]
  BY <1>4, <1>5, <1>8
<1> QED BY RequestsChange, <1>2, <1>4, <1>6, <1>7, <1>8

LEMMA FilesStayNew ==
    ASSUME TypeOK, FilesAreNew, [Next]_vars,
           \A q \in Regs : reg[q].status = "NONE" /\ reg'[q].status # "NONE" =>
               \E w \in Processes : Filing(w) /\ req[w].reg = q /\ ~ Filing(w)'
    PROVE  FilesAreNew'
<1>1. ASSUME NEW w \in Processes, Filing(w)'
      PROVE  req'[w].reg \in Regs /\ reg'[req'[w].reg].status = "NONE"
  <2>1. CASE Filing(w) /\ req'[w].reg = req[w].reg
    <3>1. req[w].reg \in Regs /\ reg[req[w].reg].status = "NONE"
      BY <2>1 DEF FilesAreNew
    <3>2. \A v \in Processes : Filing(v) /\ req[v].reg = req[w].reg => v = w
      BY <2>1 DEF FilesAreNew
    <3> QED BY <1>1, <2>1, <3>1, <3>2
  <2>2. CASE \E e \in EditType, q \in Regs : File(w, q, e) /\ req'[w].reg = q
    <3>1. PICK e \in EditType, q \in Regs : File(w, q, e) /\ req'[w].reg = q
      BY <2>2
    <3> QED BY <3>1 DEF File
  <2> QED BY <1>1, <2>1, <2>2, FilingStays
<1>2. ASSUME NEW w \in Processes, Filing(w)', NEW v \in Processes \ {w}, Filing(v)'
      PROVE  req'[v].reg # req'[w].reg
  <2>1. ASSUME NEW x \in Processes, NEW y \in Processes \ {x}, NEW e \in EditType, NEW q \in Regs,
               File(x, q, e), req'[x].reg = q, Filing(y)'
        PROVE  req'[y].reg # q
    <3>1. req'[y] = req[y]
      BY <2>1 DEF File, Begin, TypeOK
    <3>2. ~ Idle(y) /\ req[y].op = "file"
      BY <2>1, <3>1 DEF Filing, Idle
    <3> QED BY <2>1, <3>1, <3>2 DEF File
  <2>2. CASE Filing(w) /\ req'[w].reg = req[w].reg /\ Filing(v) /\ req'[v].reg = req[v].reg
    BY <2>2 DEF FilesAreNew
  <2>3. v \in Processes /\ w \in Processes \ {v}
    OBVIOUS
  <2> QED BY <1>2, <2>1, <2>2, <2>3, FilingStays
<1> QED BY <1>1, <1>2 DEF FilesAreNew

\* The override of an approved request stays that of an approved request, as long as
\* approved requests keep their times and no other override claims to be one
LEMMA HoldsStay ==
    ASSUME RegularizationHolds,
           \A q \in Regs : reg[q].status = "APPROVED" => reg'[q] = reg[q],
           \A d \in Dates : record'[d] = record[d] \/ record'[d].source # "REGULARIZATION"
    PROVE  RegularizationHolds'
<1>1. ASSUME NEW d \in Dates, record'[d].source = "REGULARIZATION"
      PROVE  \E q \in Regs :
                /\ reg'[q].status = "APPROVED" /\ reg'[q].date = d
                /\ reg'[q].in # NoTime => record'[d].in = reg'[q].in
                /\ reg'[q].out # NoTime => record'[d].out = reg'[q].out
  <2>1. record'[d] = record[d]
    BY <1>1
  <2>2. PICK q \in Regs :
          /\ reg[q].status = "APPROVED" /\ reg[q].date = d
          /\ reg[q].in # NoTime => record[d].in = reg[q].in
          /\ reg[q].out # NoTime => record[d].out = reg[q].out
    BY <1>1, <2>1 DEF RegularizationHolds
  <2>3. reg'[q] = reg[q]
    BY <2>2
  <2> QED BY <2>1, <2>2, <2>3
<1> QED BY <1>1 DEF RegularizationHolds

\* A step that leaves the requests for regularization as they are
LEMMA NothingFiled ==
    ASSUME TypeOK, RegInv, [Next]_vars, UNCHANGED reg,
           \A d \in Dates : record'[d] = record[d] \/ record'[d].source # "REGULARIZATION"
    PROVE  RegInv'
<1>1. FilesAreNew'
  BY FilesStayNew DEF RegInv
<1>2. RunsFollow'
  BY DEF RegInv, RunsFollow
<1>3. RegularizationHolds'
  BY HoldsStay DEF RegInv
<1> QED BY <1>1, <1>2, <1>3 DEF RegInv

\* A step that closes or edits a request that is not approved
LEMMA OneChanged ==
    ASSUME TypeOK, RegInv, [Next]_vars, UNCHANGED record, NEW q \in Regs,
           reg[q].status # "NONE", reg[q].status # "APPROVED",
           \A r \in Regs \ {q} : reg'[r] = reg[r],
           reg'[q].status \notin {"NONE", "APPROVED"}
    PROVE  RegInv'
<1>1. \A r \in Regs : reg[r].status = "NONE" => reg'[r] = reg[r]
  OBVIOUS
<1>2. FilesAreNew'
  BY <1>1, FilesStayNew DEF RegInv
<1>3. RunsFollow'
  BY DEF RegInv, RunsFollow
<1>4. \A r \in Regs : reg[r].status = "APPROVED" => reg'[r] = reg[r]
  OBVIOUS
<1>5. RegularizationHolds'
  BY <1>4, HoldsStay DEF RegInv
<1> QED BY <1>2, <1>3, <1>5 DEF RegInv

LEMMA RegStep == TypeOK /\ OwnSteps /\ RegInv /\ [Next]_vars => RegInv'
<1> SUFFICES ASSUME TypeOK, OwnSteps, RegInv, [Next]_vars
             PROVE  RegInv'
  OBVIOUS
<1> USE DEF inputs
<1>0. reg \in [Regs -> Reg] /\ record \in [Dates -> Record]
      /\ \A q \in Regs : reg[q].run = "PENDING" => reg[q].status \notin {"NONE", "APPROVED"}
  BY DEF TypeOK, RegInv, RunsFollow
<1>1. ASSUME UNCHANGED <<reg, record>>
      PROVE  RegInv'
  BY <1>1, NothingFiled
<1>2. ASSUME NEW w \in Processes, StepOf(w)
      PROVE  RegInv'
  <2>1. CASE Read(w) \/ Write(w) \/ Check(w) \/ Keep(w) \/ Gate(w)
    BY <1>1, <2>1 DEF Read, Write, Check, Keep, Gate
  <2>2. CASE Upsert(w)
    <3>1. Overriding(req[w].edit.in, req[w].edit.out, "MANUAL").source # "REGULARIZATION"
      BY DEF Overriding
    <3>2. \A d \in Dates : record'[d] = record[d] \/ record'[d].source # "REGULARIZATION"
      BY <1>0, <2>2, <3>1 DEF Upsert
    <3>3. UNCHANGED reg
      BY <2>2 DEF Upsert
    <3> QED BY <3>2, <3>3, NothingFiled
  <2>3. CASE FileIt(w)
    <3>1. CASE UNCHANGED reg
      BY <1>1, <2>3, <3>1 DEF FileIt
    <3>2. CASE reg' # reg
      <4> DEFINE q == req[w].reg
                 new == [date |-> req[w].date, in |-> req[w].edit.in, out |-> req[w].edit.out,
                         status |-> "PENDING", run |-> "PENDING"]
      <4>1. req[w] \in Request /\ At(w, "file") /\ UNCHANGED record /\ req' = [req EXCEPT ![w] = Stop(w)]
            /\ reg' = [reg EXCEPT ![q] = new]
        BY <2>3, <3>2 DEF FileIt, TypeOK
      <4>2. req[w].op = "file"
        <5>1. req[w].todo # <<>> /\ Head(req[w].todo) = "file"
          BY <4>1 DEF At
        <5>2. req[w].todo \in Seq(Steps \ {"file"}) => FALSE
          BY <5>1
        <5> QED BY <5>2 DEF OwnSteps
      <4>3. Filing(w)
        BY <4>1, <4>2 DEF Filing, Idle, At
      <4>4. q \in Regs /\ reg[q].status = "NONE"
        BY <4>3 DEF RegInv, FilesAreNew
      <4>5. ~ Filing(w)'
        BY <4>1 DEF TypeOK, Filing, Idle, Stop, IdleRequest, Doing
      <4>6. \A r \in Regs : reg[r].status = "NONE" /\ reg'[r].status # "NONE" => r = q
        BY <1>0, <4>1, <4>4
      <4>7. FilesAreNew'
        BY <4>3, <4>5, <4>6, FilesStayNew DEF RegInv
      <4>8. RunsFollow'
        BY <1>0, <4>1, <4>4 DEF RegInv, RunsFollow
      <4>9. \A r \in Regs : reg[r].status = "APPROVED" => reg'[r] = reg[r]
        BY <1>0, <4>1, <4>4
      <4>10. RegularizationHolds'
        BY <4>1, <4>9, HoldsStay DEF RegInv
      <4> QED BY <4>7, <4>8, <4>10 DEF RegInv
    <3> QED BY <3>1, <3>2
  <2>4. CASE Cancel(w)
    <3>1. CASE UNCHANGED reg
      BY <1>1, <2>4, <3>1 DEF Cancel
    <3>2. CASE reg' # reg
      <4> DEFINE q == req[w].reg
      <4>1. /\ reg[q].run = "PENDING" /\ UNCHANGED record
            /\ reg' = [reg EXCEPT ![q].run = "CLOSED", ![q].status = "WITHDRAWN"]
        BY <2>4, <3>2 DEF Cancel
      <4>2. q \in Regs
        BY <1>0, <3>2, <4>1
      <4> QED BY <1>0, <4>1, <4>2, OneChanged DEF Reg
    <3> QED BY <3>1, <3>2
  <2> QED BY <1>2, <2>1, <2>2, <2>3, <2>4 DEF StepOf
<1>3. ASSUME NEW w \in Workers, NEW q \in Regs, Withdraw(w, q)
      PROVE  RegInv'
  <2>1. reg[q].status = "PENDING" /\ UNCHANGED record /\ reg' = [reg EXCEPT ![q].status = "WITHDRAWN"]
    BY <1>3 DEF Withdraw
  <2> QED BY <1>0, <2>1, OneChanged DEF Reg
<1>4. ASSUME NEW q \in Regs, Approve(q)
      PROVE  RegInv'
  <2> DEFINE d == reg[q].date
             in == IF reg[q].in # NoTime THEN reg[q].in
                   ELSE IF InOf(d) # NoTime THEN InOf(d) ELSE reg[q].out
             out == IF reg[q].out # NoTime THEN reg[q].out ELSE OutOf(d)
             rec == Overriding(in, out, "REGULARIZATION")
  <2>1. /\ reg[q].run = "PENDING"
        /\ reg' = [reg EXCEPT ![q].run = "CLOSED", ![q].status = "APPROVED"]
        /\ record' = [record EXCEPT ![d] = rec]
    BY <1>4 DEF Approve
  <2>2. /\ reg[q].in # NoTime => rec.in = reg[q].in
        /\ reg[q].out # NoTime => rec.out = reg[q].out
    BY DEF Overriding
  <2> HIDE DEF d, rec
  <2>3. /\ \A r \in Regs \ {q} : reg'[r] = reg[r]
        /\ reg'[q].status = "APPROVED" /\ reg'[q].run = "CLOSED" /\ reg'[q].date = reg[q].date
        /\ reg'[q].in = reg[q].in /\ reg'[q].out = reg[q].out
    BY <1>0, <2>1 DEF Reg
  <2>4. FilesAreNew'
    <3>1. \A r \in Regs : reg[r].status = "NONE" => reg'[r] = reg[r]
      BY <1>0, <2>1, <2>3
    <3> QED BY <3>1, FilesStayNew DEF RegInv
  <2>5. RunsFollow'
    BY <2>3 DEF RegInv, RunsFollow
  <2>6. ASSUME NEW c \in Dates, record'[c].source = "REGULARIZATION"
        PROVE  \E r \in Regs :
                  /\ reg'[r].status = "APPROVED" /\ reg'[r].date = c
                  /\ reg'[r].in # NoTime => record'[c].in = reg'[r].in
                  /\ reg'[r].out # NoTime => record'[c].out = reg'[r].out
    <3>1. CASE c = d
      <4>1. record'[c] = rec
        BY <1>0, <2>1, <3>1
      <4> QED BY <2>2, <2>3, <3>1, <4>1 DEF d
    <3>2. CASE c # d
      <4>1. record'[c] = record[c]
        BY <1>0, <2>1, <3>2
      <4>2. PICK r \in Regs :
              /\ reg[r].status = "APPROVED" /\ reg[r].date = c
              /\ reg[r].in # NoTime => record[c].in = reg[r].in
              /\ reg[r].out # NoTime => record[c].out = reg[r].out
        BY <2>6, <4>1 DEF RegInv, RegularizationHolds
      <4>3. r # q
        BY <1>0, <2>1, <4>2
      <4> QED BY <2>3, <4>1, <4>2, <4>3
    <3> QED BY <3>1, <3>2
  <2>7. RegularizationHolds'
    BY <2>6 DEF RegularizationHolds
  <2> QED BY <2>4, <2>5, <2>7 DEF RegInv
<1>5. ASSUME NEW q \in Regs, Reject(q)
      PROVE  RegInv'
  <2>1. reg[q].run = "PENDING" /\ UNCHANGED record
        /\ reg' = [reg EXCEPT ![q].run = "CLOSED", ![q].status = "REJECTED"]
    BY <1>5 DEF Reject
  <2> QED BY <1>0, <2>1, OneChanged DEF Reg
<1>6. ASSUME NEW q \in Regs, NEW e \in Edits \cup {NoEdit}, Edit(q, e)
      PROVE  RegInv'
  <2>1. reg[q].status = "PENDING" /\ UNCHANGED record
        /\ reg' = [reg EXCEPT ![q].in = e.in, ![q].out = e.out]
    BY <1>6 DEF Edit
  <2> QED BY <1>0, <2>1, OneChanged DEF Reg
<1>7. ASSUME NEW e \in Edits, Import(e)
      PROVE  RegInv'
  <2>1. Overriding(e.in, e.out, "IMPORT").source # "REGULARIZATION"
    BY DEF Overriding
  <2>2. record' = [record EXCEPT ![e.date] = Overriding(e.in, e.out, "IMPORT")] /\ UNCHANGED reg
    BY <1>7 DEF Import
  <2>3. \A d \in Dates : record'[d] = record[d] \/ record'[d].source # "REGULARIZATION"
    BY <1>0, <2>1, <2>2
  <2> QED BY <2>2, <2>3, NothingFiled
<1>8. CASE \E w \in Workers :
             \/ \E s \in Scans : Send(w, s)
             \/ \E act \in {"CHECK_IN", "CHECK_OUT"} : PunchNow(w, act)
             \/ \E e \in Edits : Override(w, e) \/ (\E q \in Regs : File(w, q, e))
             \/ \E q \in Regs : Withdraw(w, q)
  BY <1>1, <1>3, <1>8 DEF Send, PunchNow, Override, File
<1>9. CASE (\E w \in Viewers, d \in Dates : View(w, d)) \/ \E w \in Processes : Crash(w)
  BY <1>1, <1>9 DEF View, Crash
<1>10. CASE Tick \/ (\E q \in Requests : Verdict(q)) \/ UNCHANGED vars
  BY <1>1, <1>10 DEF Tick, Verdict, vars
<1>11. Next \/ UNCHANGED vars
  OBVIOUS
<1> QED BY <1>2, <1>4, <1>5, <1>6, <1>7, <1>8, <1>9, <1>10, <1>11 DEF Next

----------------------------------------------------------------------------
(* Scans.                                                                  *)

\* Among P is a punch of the kind of s, at most the slack away from it
ShownBy(P, s) == \E p \in P : p.act = s.act /\ p.at \in (s.at - Slack)..(s.at + Slack)

Scanning ==
    {<<"check", "keep", "read", "write">>, <<"keep", "read", "write">>, <<"read", "write">>,
     <<"write">>}

ScanInv ==
    /\ \A w \in Processes : req[w].op = "scan" /\ ~ Idle(w) =>
         /\ req[w].scan \in Scans /\ req[w].todo \in Scanning
         /\ Head(req[w].todo) \in {"read", "write"} => ShownBy(punches, req[w].scan)
    /\ \A s \in answered : ShownBy(punches, s)

LEMMA PunchesStay == [Next]_vars => punches \subseteq punches'
<1> SUFFICES ASSUME [Next]_vars
             PROVE  punches \subseteq punches'
  OBVIOUS
<1> USE DEF inputs
<1>1. ASSUME NEW w \in Processes, StepOf(w)
      PROVE  punches \subseteq punches'
  BY <1>1 DEF StepOf, Read, Write, Check, Keep, Gate, Upsert, FileIt, Cancel
<1>2. CASE \E w \in Workers :
             \/ \E s \in Scans : Send(w, s)
             \/ \E act \in {"CHECK_IN", "CHECK_OUT"} : PunchNow(w, act)
             \/ \E e \in Edits : Override(w, e) \/ (\E q \in Regs : File(w, q, e))
             \/ \E q \in Regs : Withdraw(w, q)
  BY <1>2 DEF Send, PunchNow, Override, File, Withdraw
<1>3. CASE (\E w \in Viewers, d \in Dates : View(w, d)) \/ \E w \in Processes : Crash(w)
  BY <1>3 DEF View, Crash
<1>4. CASE Tick \/ (\E q \in Requests : Verdict(q)) \/ (\E e \in Edits : Import(e)) \/ UNCHANGED vars
  BY <1>4 DEF Tick, Verdict, Import, vars
<1>5. CASE \E q \in Regs : Approve(q) \/ Reject(q) \/ (\E e \in Edits \cup {NoEdit} : Edit(q, e))
  BY <1>5 DEF Approve, Reject, Edit
<1>6. Next \/ UNCHANGED vars
  OBVIOUS
<1> QED BY <1>1, <1>2, <1>3, <1>4, <1>5, <1>6 DEF Next

LEMMA ShownStays == ASSUME [Next]_vars, NEW s, ShownBy(punches, s) PROVE ShownBy(punches', s)
BY PunchesStay DEF ShownBy

\* What is left of a scan after each of its statements
LEMMA ScanningGoesOn ==
    ASSUME NEW t \in Scanning
    PROVE  /\ t # <<>>
           /\ Head(t) = "check" => Tail(t) \in Scanning /\ Head(Tail(t)) = "keep"
           /\ Head(t) \in {"keep", "read"} => Tail(t) \in Scanning
           /\ Head(t) = "write" => Tail(t) = <<>>
           /\ Head(t) \in {"check", "keep", "read", "write"}
<1>1. CASE t = <<"check", "keep", "read", "write">>
  BY <1>1 DEF Scanning
<1>2. CASE t = <<"keep", "read", "write">>
  BY <1>2 DEF Scanning
<1>3. CASE t = <<"read", "write">>
  BY <1>3 DEF Scanning
<1>4. CASE t = <<"write">>
  BY <1>4 DEF Scanning
<1> QED BY <1>1, <1>2, <1>3, <1>4 DEF Scanning

LEMMA DuplicateIsShown ==
    ASSUME TypeOK, NEW s \in KeptPunch, Duplicate(s)
    PROVE  ShownBy(punches, s)
<1>1. s.at \in Int /\ Slack \in Nat
  BY AttendanceAssumption, TimesAre DEF KeptPunch
<1>2. CASE s.src = "API"
  BY <1>1, <1>2 DEF Duplicate, ShownBy
<1>3. CASE s.src # "API"
  BY <1>3 DEF Duplicate, ShownBy
<1> QED BY <1>2, <1>3

LEMMA ScanStep == TypeOK /\ ScanInv /\ [Next]_vars => ScanInv'
<1> SUFFICES ASSUME TypeOK, ScanInv, [Next]_vars
             PROVE  ScanInv'
  OBVIOUS
<1> USE DEF inputs
<1>1. ASSUME NEW v \in Processes, req'[v].op = "scan", req'[v].todo # <<>>
      PROVE  /\ req'[v].scan \in Scans /\ req'[v].todo \in Scanning
             /\ Head(req'[v].todo) \in {"read", "write"} => ShownBy(punches', req'[v].scan)
  <2>1. req[v] \in Request
    BY DEF TypeOK
  <2>2. CASE req'[v] = req[v]
    <3>1. /\ req[v].scan \in Scans /\ req[v].todo \in Scanning
          /\ Head(req[v].todo) \in {"read", "write"} => ShownBy(punches, req[v].scan)
      BY <1>1, <2>2 DEF ScanInv, Idle
    <3>2. Head(req[v].todo) \in {"read", "write"} => ShownBy(punches', req[v].scan)
      BY <3>1, ShownStays
    <3> QED BY <2>2, <3>1, <3>2 DEF ShownBy
  <2>3. req'[v] # IdleRequest
    BY <1>1 DEF IdleRequest, Doing
  <2>4. ASSUME NEW op \in Ops, NEW d \in Dates, NEW scan \in KeptPunch, NEW edit \in EditType,
               NEW q \in Regs \cup {AnyReg}, req'[v] = Doing(op, d, scan, edit, q),
               op = "scan" => scan \in Scans
        PROVE  /\ req'[v].scan \in Scans /\ req'[v].todo \in Scanning
               /\ Head(req'[v].todo) = "check"
    <3>1. op = "scan" /\ req'[v].todo = Program("scan") /\ req'[v].scan = scan
      BY <1>1, <2>4, DoingIs
    <3>2. Program("scan") = <<"check", "keep", "read", "write">>
      BY DEF Program
    <3> QED BY <2>4, <3>1, <3>2 DEF Scanning
  <2>5. CASE ~ Idle(v) /\ (Keep(v) \/ ~ At(v, "keep"))
                       /\ \/ req'[v] = Advance(v)
                          \/ \E row : req'[v] = [Advance(v) EXCEPT !.row = row]
    <3>1. req'[v].op = req[v].op /\ req'[v].todo = Tail(req[v].todo) /\ req'[v].scan = req[v].scan
      BY <2>1, <2>5 DEF Advance, Request
    <3>2. /\ req[v].scan \in Scans /\ req[v].todo \in Scanning
          /\ Head(req[v].todo) \in {"read", "write"} => ShownBy(punches, req[v].scan)
      BY <1>1, <2>5, <3>1 DEF ScanInv
    <3>3. req'[v].scan \in Scans /\ req'[v].todo \in Scanning
      BY <1>1, <3>1, <3>2, ScanningGoesOn
    <3>4. CASE Head(req[v].todo) \in {"read", "write"}
      <4>1. ShownBy(punches', req[v].scan)
        BY <3>2, <3>4, ShownStays
      <4> QED BY <3>1, <3>3, <4>1 DEF ShownBy
    <3>5. CASE Head(req[v].todo) = "check"
      BY <3>1, <3>2, <3>3, <3>5, ScanningGoesOn
    <3>6. CASE Head(req[v].todo) = "keep"
      <4>1. Keep(v)
        BY <2>5, <3>6 DEF At, Idle
      <4>2. req[v].scan \in punches'
        BY <1>1, <3>1, <4>1 DEF Keep
      <4>3. req[v].scan.at \in Int /\ Slack \in Nat
        BY <2>1, AttendanceAssumption, TimesAre DEF Request, KeptPunch
      <4>4. ShownBy(punches', req'[v].scan)
        BY <3>1, <4>2, <4>3 DEF ShownBy
      <4> QED BY <3>3, <4>4
    <3> QED BY <3>2, <3>4, <3>5, <3>6, ScanningGoesOn
  <2>6. CASE \E op \in Ops, d \in Dates, scan \in KeptPunch, edit \in EditType,
                q \in Regs \cup {AnyReg} :
                /\ req'[v] = Doing(op, d, scan, edit, q)
                /\ op = "scan" => scan \in Scans
                /\ op = "file" => q \in Regs /\ File(v, q, edit)
    BY <2>4, <2>6
  <2>7. CASE ~ Idle(v) /\ At(v, "read") /\ req'[v] = [Advance(v) EXCEPT !.row = Summary(req[v].date)]
    BY <2>5, <2>7 DEF At
  <2>8. CASE Keep(v) /\ req'[v] = [Advance(v) EXCEPT !.row = NoRow]
    BY <2>5, <2>8 DEF Keep, At, Idle
  <2> QED BY RequestsChange, <2>2, <2>3, <2>5, <2>6, <2>7, <2>8
<1>2. \A s \in answered : ShownBy(punches', s)
  BY ShownStays DEF ScanInv
<1>3. ASSUME UNCHANGED answered
      PROVE  \A s \in answered' : ShownBy(punches', s)
  BY <1>2, <1>3
<1>4. ASSUME NEW w \in Processes, StepOf(w)
      PROVE  \A s \in answered' : ShownBy(punches', s)
  <2>1. req[w] \in Request
    BY DEF TypeOK
  <2>2. CASE Write(w)
    <3>1. CASE req[w].op = "scan"
      <4>1. req[w].todo # <<>> /\ Head(req[w].todo) = "write" /\ answered' = answered \cup {req[w].scan}
        BY <2>2, <3>1 DEF Write, At
      <4>2. ShownBy(punches, req[w].scan)
        BY <3>1, <4>1 DEF ScanInv, Idle
      <4>3. ShownBy(punches', req[w].scan)
        BY <4>2, ShownStays
      <4> QED BY <1>2, <4>1, <4>3 DEF ShownBy
    <3>2. CASE req[w].op # "scan"
      BY <1>3, <2>2, <3>2 DEF Write
    <3> QED BY <3>1, <3>2
  <2>3. CASE Check(w)
    <3>1. CASE UNCHANGED answered
      BY <1>3, <3>1
    <3>2. CASE Duplicate(req[w].scan) /\ answered' = answered \cup {req[w].scan}
      <4>1. ShownBy(punches, req[w].scan)
        BY <2>1, <3>2, DuplicateIsShown DEF Request
      <4>2. ShownBy(punches', req[w].scan)
        BY <4>1, ShownStays
      <4> QED BY <1>2, <3>2, <4>2 DEF ShownBy
    <3> QED BY <2>3, <3>1, <3>2 DEF Check
  <2> QED BY <1>3, <1>4, <2>2, <2>3 DEF StepOf, Read, Keep, Gate, Upsert, FileIt, Cancel
<1>5. UNCHANGED answered \/ \E w \in Processes : StepOf(w)
  <2>1. CASE \E w \in Workers :
               \/ \E s \in Scans : Send(w, s)
               \/ \E act \in {"CHECK_IN", "CHECK_OUT"} : PunchNow(w, act)
               \/ \E e \in Edits : Override(w, e) \/ (\E q \in Regs : File(w, q, e))
               \/ \E q \in Regs : Withdraw(w, q)
    BY <2>1 DEF Send, PunchNow, Override, File, Withdraw
  <2>2. CASE (\E w \in Viewers, d \in Dates : View(w, d)) \/ \E w \in Processes : Crash(w)
    BY <2>2 DEF View, Crash
  <2>3. CASE Tick \/ (\E q \in Requests : Verdict(q)) \/ (\E e \in Edits : Import(e)) \/ UNCHANGED vars
    BY <2>3 DEF Tick, Verdict, Import, vars
  <2>4. CASE \E q \in Regs : Approve(q) \/ Reject(q) \/ (\E e \in Edits \cup {NoEdit} : Edit(q, e))
    BY <2>4 DEF Approve, Reject, Edit
  <2>5. Next \/ UNCHANGED vars
    OBVIOUS
  <2> QED BY <2>1, <2>2, <2>3, <2>4, <2>5 DEF Next
<1>6. \A s \in answered' : ShownBy(punches', s)
  BY <1>3, <1>4, <1>5
<1> QED BY <1>1, <1>6 DEF ScanInv, Idle

----------------------------------------------------------------------------
(* The theorems.                                                           *)

IInv == TypeOK /\ RowsTell /\ OwnSteps /\ RegInv /\ ScanInv

LEMMA InitInv == Init => IInv
<1> SUFFICES ASSUME Init
             PROVE  IInv
  OBVIOUS
<1>1. TypeOK
  BY InitTypes
<1>2. \A w \in Processes : Idle(w) /\ req[w].row = NoRow /\ req[w].todo = <<>> /\ req[w] = IdleRequest
  BY DEF Init, Idle, IdleRequest, Doing
<1>3. RowsTell
  BY <1>2, NothingIs DEF Init, RowsTell
<1>4. OwnSteps
  <2>1. <<>> \in Seq(Steps \ {"file"})
    OBVIOUS
  <2> QED BY <1>2, <2>1 DEF OwnSteps
<1>5. RegInv
  BY <1>2 DEF Init, RegInv, FilesAreNew, Filing, RunsFollow, RegularizationHolds, NoRecord
<1>6. ScanInv
  BY <1>2 DEF Init, ScanInv
<1> QED BY <1>1, <1>3, <1>4, <1>5, <1>6 DEF IInv

LEMMA NextInv == IInv /\ [Next]_vars => IInv'
BY TypeStep, RowsTellStep, OwnStepsStep, RegStep, ScanStep DEF IInv

LEMMA SpecInv == Spec => []IInv
<1>1. IInv /\ [Next]_vars => IInv'
  BY NextInv
<1> QED BY InitInv, <1>1, PTL DEF Spec

\* Rows, requests and punches keep their columns and values in every execution
THEOREM AttendanceTypes == Spec => []TypeOK
<1>1. IInv => TypeOK
  BY DEF IInv
<1> QED BY SpecInv, <1>1, PTL

\* Every stored row counts for payroll what its status says, whatever mixture of leave,
\* duty, work from home, calendar and punches recalculate_attendance_day found
THEOREM StatusAlwaysTellsPay == Spec => []StatusTellsPay
<1>1. IInv => StatusTellsPay
  BY DEF IInv, RowsTell, StatusTellsPay
<1> QED BY SpecInv, <1>1, PTL

\* An override that comes from regularization is always that of an approved request,
\* however approval, withdrawal, edits and other overrides come between
THEOREM RegularizationAlwaysHolds == Spec => []RegularizationHolds
<1>1. IInv => RegularizationHolds
  BY DEF IInv, RegInv
<1> QED BY SpecInv, <1>1, PTL

LEMMA ScansShow == TypeOK /\ ScanInv => DayShowsItsScans
<1> SUFFICES ASSUME TypeOK, ScanInv, NEW s \in answered, NEW d \in Dates,
                    (s.at - Slack)..(s.at + Slack) \subseteq Window(d), record[d].source = "NONE"
             PROVE  /\ s.act = "CHECK_IN" => InOf(d) # NoTime /\ InOf(d) =< s.at + Slack
                    /\ s.act = "CHECK_OUT" =>
                         InOf(d) # NoTime /\ (InOf(d) =< s.at - Slack => OutOf(d) >= s.at - Slack)
  BY DEF DayShowsItsScans
<1> DEFINE P == PunchesOf(d)
<1>1. PICK p \in punches : p.act = s.act /\ p.at \in (s.at - Slack)..(s.at + Slack)
  BY DEF ScanInv, ShownBy
<1>2. p \in P /\ P \subseteq KeptPunch
  BY <1>1 DEF PunchesOf, TypeOK
<1>3. InOf(d) = CheckIn(P) /\ OutOf(d) = CheckOut(P)
  BY DEF InOf, OutOf
<1> HIDE DEF P
<1>4. s.at \in Int /\ Slack \in Nat /\ p.at \in Int
  BY <1>1, AttendanceAssumption, TimesAre DEF TypeOK, KeptPunch
<1>5. CheckIn(P) \in Times /\ CheckIn(P) # NoTime /\ CheckIn(P) \in Int
  BY <1>2, CheckInIs, TimesAre
<1>6. CASE s.act = "CHECK_IN"
  <2>1. CheckIn(P) =< p.at
    BY <1>1, <1>2, <1>6, CheckInIs
  <2> QED BY <1>1, <1>3, <1>4, <1>5, <1>6, <2>1
<1>7. CASE s.act = "CHECK_OUT"
  <2>1. ASSUME CheckIn(P) =< s.at - Slack
        PROVE  CheckOut(P) >= s.at - Slack
    <3>1. p.at >= CheckIn(P)
      BY <1>1, <1>4, <1>5, <2>1
    <3>2. CheckOut(P) \in Times /\ CheckOut(P) >= p.at
      BY <1>1, <1>2, <1>7, <3>1, CheckOutIs
    <3> QED BY <1>1, <1>4, <3>2, TimesAre
  <2> QED BY <1>3, <1>5, <1>7, <2>1
<1> QED BY <1>6, <1>7

\* No scan that its sender was told is in is ever forgotten by the day it belongs to
THEOREM DayAlwaysShowsItsScans == Spec => []DayShowsItsScans
<1>1. IInv => DayShowsItsScans
  BY ScansShow DEF IInv
<1> QED BY SpecInv, <1>1, PTL
=================================================================================
