------------------------- MODULE LeaveBalanceProofs -------------------------
(***************************************************************************)
(* Proofs about LeaveBalance, for every set of requests and every leave    *)
(* type.  What holds however requests overlap comes first, then what holds *)
(* of requests that are served one at a time, and that those implement     *)
(* LeaveEntitlement.                                                       *)
(***************************************************************************)
EXTENDS LeaveBalance, TLAPS

(***************************************************************************)
(* The inductive invariants.                                               *)
(***************************************************************************)

BeforeTheRun == {"idle", "counting", "checked", "saved"}

\* No run is raised for a request before its row is saved
NoRunYet == \A l \in Leaves : submit[l].pc \in BeforeTheRun => leave[l].approval = "NONE"

\* A withdrawal cancels a run it has found
RunIsFound == \A l \in Leaves : withdraw[l].pc = "cancelling" => leave[l].approval # "NONE"

\* Only a decided encashment was debited
DebitedAfterAll ==
    \A e \in Encashments : debits[e] > 0 => encash[e] \in {"APPROVED", "REJECTED"}

\* What holds however requests overlap
OverlapInv ==
    /\ TypeOK
    /\ NoRunYet
    /\ RunIsFound
    /\ TakenByVerdict
    /\ DebitedOnce
    /\ DebitedAfterAll

InSubmit(l) == submit[l].pc \notin {"idle", "done"}
InWithdraw(l) == withdraw[l].pc \notin {"idle", "done"}

\* One request, page or task is being served at most
OneAtATime ==
    /\ \A l, m \in Leaves : InSubmit(l) /\ InSubmit(m) => l = m
    /\ \A l, m \in Leaves : InWithdraw(l) /\ InWithdraw(m) => l = m
    /\ \A l, m \in Leaves : ~(InSubmit(l) /\ InWithdraw(m))
    /\ view.pc # "idle" => \A l \in Leaves : ~InSubmit(l) /\ ~InWithdraw(l)
    /\ job.pc # "idle" => view.pc = "idle" /\ \A l \in Leaves : ~InSubmit(l) /\ ~InWithdraw(l)

\* A request has no row while its balance is being checked
NoRowYet ==
    \A l \in Leaves :
        submit[l].pc \in {"idle", "counting", "checked"} =>
            leave[l].status = "NONE" /\ withdraw[l].pc = "idle"

\* The request whose run is about to be raised is pending
SavedIsPending == \A l \in Leaves : submit[l].pc = "saved" => leave[l].status = "PENDING"

\* A run that can still be decided is that of a pending leave, or the leave is
\* being withdrawn
UndecidedIsPending ==
    \A l \in Leaves :
        leave[l].approval = "PENDING" =>
            leave[l].status = "PENDING" \/ withdraw[l].pc \in {"marked", "cancelling"}

\* The used days a submission has read are those there are
ReadIsTrue ==
    \A l \in Leaves :
        submit[l].pc = "counting" => submit[l].used = Total[InStatus("APPROVED")]

\* A request that was checked still fits
CheckedFits ==
    \A l \in Leaves :
        submit[l].pc = "checked" => Total[Active] + Units(l) <= Carried + CreditFor(period)

\* The row the task has loaded is the row there is
LoadedIsTrue == job.pc = "loaded" => job.row = bal

\* What holds when requests are served one at a time
SerialInv ==
    /\ OverlapInv
    /\ OneAtATime
    /\ NoRowYet
    /\ SavedIsPending
    /\ UndecidedIsPending
    /\ ReadIsTrue
    /\ CheckedFits
    /\ LoadedIsTrue
    /\ NotOverdrawn
    /\ NeverAboveMax

----------------------------------------------------------------------------
(* Lemmas about the operators.                                             *)

\* A sum of days is a natural number, and grows with the requests it is taken over.
LEMMA SumOfDaysGrows ==
    ASSUME NEW L \in SUBSET Leaves, NEW M \in SUBSET L
    PROVE  /\ Total[L] \in Nat /\ Total[M] \in Nat
           /\ Total[M] <= Total[L]
<1>1. M \in SUBSET Leaves /\ (L \ M) \in SUBSET Leaves
    OBVIOUS
<1>2. M \cap (L \ M) = {} /\ L = M \cup (L \ M)
    OBVIOUS
<1>3. Total[M] \in Nat /\ Total[L \ M] \in Nat /\ Total[L] \in Nat
    BY <1>1, LeaveAssumption
<1>4. Total[L] = Total[M] + Total[L \ M]
    BY <1>1, <1>2, LeaveAssumption
<1>5. QED
    BY <1>3, <1>4

\* The requests of a status are requests.
LEMMA StatusesPartition ==
    ASSUME NEW status
    PROVE  InStatus(status) \in SUBSET Leaves /\ Total[InStatus(status)] \in Nat
<1>1. InStatus(status) \in SUBSET Leaves
    BY DEF InStatus
<1>2. QED
    BY <1>1, LeaveAssumption

\* The credit is a natural number and grows with time.
LEMMA CreditGrows ==
    ASSUME NEW p \in Nat
    PROVE  /\ CreditFor(p) \in Nat
           /\ CreditFor(p + 1) \in Nat
           /\ CreditFor(p) <= CreditFor(p + 1)
<1>1. Rate * p \in Nat /\ Rate * (p + 1) = Rate * p + Rate /\ Rate \in Nat
    BY LeaveAssumption
<1>2. QED
    BY <1>1 DEF CreditFor

\* What get_or_create_leave_balance writes is a row, and the row keeps max_balance
\* and the credit of the period.
LEMMA RecomputedRow ==
    ASSUME period \in Nat, NEW used \in Nat, NEW pending \in Nat
    PROVE  /\ Recomputed(used, pending) \in Balances
           /\ Available(Recomputed(used, pending)) <= MaxBalance
           /\ Available(Recomputed(used, pending))
                <= Carried + CreditFor(period) - used - pending
<1> DEFINE c == AtLeastZero(Lesser(CreditFor(period), MaxBalance - Carried + used + pending))
<1>1. CreditFor(period) \in Nat
    BY CreditGrows
<1>2. Carried \in Nat /\ MaxBalance \in Nat /\ Carried <= MaxBalance
    BY LeaveAssumption
<1>3. c \in Nat /\ c <= CreditFor(period) /\ c <= MaxBalance - Carried + used + pending
    BY <1>1, <1>2 DEF AtLeastZero, Lesser
<1>4. Recomputed(used, pending) = [credited |-> c, used |-> used, pending |-> pending]
    BY DEF Recomputed
<1>5. Available(Recomputed(used, pending)) = Carried + c - used - pending
    BY <1>4 DEF Available
<1> HIDE DEF c
<1>6. QED
    BY <1>1, <1>2, <1>3, <1>4, <1>5 DEF Balances

\* The second half of a recomputation writes a row, whatever the first had read.
LEMMA FoundRow ==
    ASSUME period \in Nat, NEW used \in Nat
    PROVE  /\ Found(used) \in Balances
           /\ Available(Found(used)) <= MaxBalance
           /\ Available(Found(used))
                <= Carried + CreditFor(period) - used - Total[InStatus("PENDING")]
BY RecomputedRow, StatusesPartition DEF Found

\* What is available of a row is an integer.
LEMMA AvailableIsInteger ==
    ASSUME NEW b \in Balances
    PROVE  Available(b) \in Int /\ b.credited \in Nat /\ b.used \in Nat /\ b.pending \in Nat
BY LeaveAssumption DEF Available, Balances

\* Debiting days keeps the types.
LEMMA DebitTypes ==
    ASSUME NEW b \in Balances, NEW n \in Nat
    PROVE  [b EXCEPT !.used = @ + n] \in Balances
BY DEF Balances

\* Expiring days keeps the types.
LEMMA ExpireTypes ==
    ASSUME TypeOK, NEW n \in Nat, Expire(n)
    PROVE  bal' \in Balances /\ expired' \in [count : Nat, total : Nat]
<1>1. job.row.credited \in Nat
    BY DEF TypeOK, Balances
<1>2. AtLeastZero(job.row.credited - n) \in Nat
    BY <1>1 DEF AtLeastZero
<1>3. QED
    BY <1>2 DEF Expire, TypeOK, Balances

----------------------------------------------------------------------------
(* Types.                                                                  *)

LEMMA InitTyped == Init => TypeOK
BY LeaveAssumption DEF Init, TypeOK, LeaveStatus, RunStatus, Balances, NewRow, NoRow

SubmitSteps == {"idle", "counting", "checked", "saved", "raised", "recounting", "done"}
WithdrawSteps == {"idle", "asked", "marked", "cancelling", "left", "recounting", "done"}

\* Moving a call on keeps its type.
LEMMA GoToTypes ==
    ASSUME NEW PC, NEW calls \in [Leaves -> [pc : PC, used : Nat]], NEW l \in Leaves, NEW to \in PC
    PROVE  GoTo(calls, l, to) \in [Leaves -> [pc : PC, used : Nat]]
<1>1. [pc |-> to, used |-> 0] \in [pc : PC, used : Nat]
    OBVIOUS
<1>2. QED
    BY <1>1 DEF GoTo

\* Every step keeps the types.
LEMMA TypesKept == TypeOK /\ [Next]_vars => TypeOK'
<1> SUFFICES ASSUME TypeOK, [Next]_vars
             PROVE  TypeOK'
    OBVIOUS
<1> USE DEF TypeOK, LeaveStatus, RunStatus
<1>0. period \in Nat /\ bal \in Balances
    BY LeaveAssumption
<1>a. submit \in [Leaves -> [pc : SubmitSteps, used : Nat]]
    BY DEF SubmitSteps
<1>b. withdraw \in [Leaves -> [pc : WithdrawSteps, used : Nat]]
    BY DEF WithdrawSteps
<1>1. ASSUME NEW l \in Leaves, BeginSubmit(l) PROVE TypeOK'
    BY <1>1, StatusesPartition DEF BeginSubmit, Count
<1>2. ASSUME NEW l \in Leaves, Check(l) PROVE TypeOK'
    BY <1>0, <1>2, FoundRow DEF Check, GoTo
<1>3. ASSUME NEW l \in Leaves, Insert(l) PROVE TypeOK'
    <2>1. leave' \in [Leaves -> [status : LeaveStatus, approval : RunStatus]]
        BY <1>3 DEF Insert
    <2>2. submit' \in [Leaves -> [pc : SubmitSteps, used : Nat]]
        <3>1. GoTo(submit, l, "saved") \in [Leaves -> [pc : SubmitSteps, used : Nat]]
            BY <1>a, GoToTypes DEF SubmitSteps
        <3>2. QED
            BY <1>3, <3>1 DEF Insert
    <2>3. UNCHANGED <<withdraw, view, bal, encash, debits, period, job, expired, sweeps, next>>
        BY <1>3 DEF Insert
    <2>4. QED
        BY <2>1, <2>2, <2>3 DEF SubmitSteps
<1>4. ASSUME NEW l \in Leaves, Raise(l) PROVE TypeOK'
    <2>1. leave' \in [Leaves -> [status : LeaveStatus, approval : RunStatus]]
        <3>1. leave \in [Leaves -> [status : LeaveStatus, approval : RunStatus]]
            OBVIOUS
        <3>2. [leave EXCEPT ![l].approval = "PENDING"]
                  \in [Leaves -> [status : LeaveStatus, approval : RunStatus]]
            BY <3>1
        <3>3. leave' = [leave EXCEPT ![l].approval = "PENDING"] \/ leave' = leave
            BY <1>4 DEF Raise
        <3>4. QED
            BY <3>1, <3>2, <3>3
    <2>2. submit' = GoTo(submit, l, "raised") \/ submit' = GoTo(submit, l, "done")
        BY <1>4 DEF Raise
    <2>3. submit' \in [Leaves -> [pc : SubmitSteps, used : Nat]]
        <3>1. GoTo(submit, l, "raised") \in [Leaves -> [pc : SubmitSteps, used : Nat]]
            BY <1>a, GoToTypes DEF SubmitSteps
        <3>2. GoTo(submit, l, "done") \in [Leaves -> [pc : SubmitSteps, used : Nat]]
            BY <1>a, GoToTypes DEF SubmitSteps
        <3>3. QED
            BY <2>2, <3>1, <3>2
    <2>4. QED
        BY <1>4, <2>1, <2>3 DEF Raise, SubmitSteps
<1>5. ASSUME NEW l \in Leaves, Recount(l) PROVE TypeOK'
    BY <1>5, StatusesPartition DEF Recount, Count, GoTo
<1>6. ASSUME NEW l \in Leaves, FinishSubmit(l) PROVE TypeOK'
    BY <1>0, <1>6, FoundRow DEF FinishSubmit, GoTo
<1>7. ASSUME NEW l \in Leaves, NEW verdict \in {"APPROVED", "REJECTED"}, Decide(l, verdict)
      PROVE  TypeOK'
    BY <1>7 DEF Decide
<1>8. ASSUME NEW l \in Leaves, AskToWithdraw(l) PROVE TypeOK'
    BY <1>8 DEF AskToWithdraw, GoTo
<1>9. ASSUME NEW l \in Leaves, MarkWithdrawn(l) PROVE TypeOK'
    <2>1. leave' \in [Leaves -> [status : LeaveStatus, approval : RunStatus]]
        BY <1>9 DEF MarkWithdrawn
    <2>2. withdraw' \in [Leaves -> [pc : WithdrawSteps, used : Nat]]
        <3>1. GoTo(withdraw, l, "marked") \in [Leaves -> [pc : WithdrawSteps, used : Nat]]
            BY <1>b, GoToTypes DEF WithdrawSteps
        <3>2. QED
            BY <1>9, <3>1 DEF MarkWithdrawn
    <2>3. QED
        BY <1>9, <2>1, <2>2 DEF MarkWithdrawn, WithdrawSteps
<1>10. ASSUME NEW l \in Leaves, FindRun(l) PROVE TypeOK'
    BY <1>10 DEF FindRun, GoTo
<1>11. ASSUME NEW l \in Leaves, CancelRun(l) PROVE TypeOK'
    BY <1>11 DEF CancelRun, GoTo
<1>12. ASSUME NEW l \in Leaves, RecountWithdrawn(l) PROVE TypeOK'
    BY <1>12, StatusesPartition DEF RecountWithdrawn, Count, GoTo
<1>13. ASSUME NEW l \in Leaves, FinishWithdraw(l) PROVE TypeOK'
    BY <1>0, <1>13, FoundRow DEF FinishWithdraw, GoTo
<1>14. ASSUME BeginView PROVE TypeOK'
    <2>1. Total[InStatus("APPROVED")] \in Nat
        BY StatusesPartition
    <2>2. QED
        BY <1>14, <2>1 DEF BeginView
<1>15. ASSUME FinishView PROVE TypeOK'
    BY <1>0, <1>15, FoundRow DEF FinishView
<1>16. ASSUME NEW e \in Encashments, CheckEncash(e) PROVE TypeOK'
    BY <1>16 DEF CheckEncash
<1>17. ASSUME NEW e \in Encashments, InsertEncash(e) PROVE TypeOK'
    BY <1>17 DEF InsertEncash
<1>18. ASSUME NEW e \in Encashments, ApproveEncash(e) PROVE TypeOK'
    <2>1. Debited[{e}] \in Nat
        BY LeaveAssumption
    <2>2. [bal EXCEPT !.used = @ + Debited[{e}]] \in Balances
        BY <1>0, <2>1, DebitTypes
    <2>3. bal' \in Balances /\ debits' \in [Encashments -> Nat]
        <3>1. debits \in [Encashments -> Nat]
            OBVIOUS
        <3>2. CASE bal' = [bal EXCEPT !.used = @ + Debited[{e}]] /\ debits' = [debits EXCEPT ![e] = 1]
            <4>1. bal' \in Balances
                BY <2>2, <3>2
            <4>2. debits' \in [Encashments -> Nat]
                BY <3>1, <3>2
            <4>3. QED
                BY <4>1, <4>2
        <3>3. CASE bal' = bal /\ debits' = debits
            BY <1>0, <3>1, <3>3
        <3>4. QED
            BY <1>18, <3>2, <3>3 DEF ApproveEncash
    <2>4. QED
        BY <1>18, <2>3 DEF ApproveEncash
<1>19. ASSUME NEW e \in Encashments, RejectEncash(e) PROVE TypeOK'
    BY <1>19 DEF RejectEncash
<1>20. ASSUME LoadEnded PROVE TypeOK'
    BY <1>0, <1>20, LeaveAssumption DEF LoadEnded
<1>21. ASSUME LapseRest PROVE TypeOK'
    <2> DEFINE n == IF expired.count > 0 THEN 0 ELSE AtLeastZero(Available(job.row))
    <2>1. n \in Nat
        BY AvailableIsInteger DEF AtLeastZero
    <2>2. Expire(n)
        BY <1>21 DEF LapseRest
    <2>3. bal' \in Balances /\ expired' \in [count : Nat, total : Nat]
        BY <2>1, <2>2, ExpireTypes
    <2>4. QED
        BY <1>21, <2>3 DEF LapseRest, NoRow, NewRow, Balances
<1>22. ASSUME CapRest PROVE TypeOK'
    <2>1. Excess(job.row) \in Nat
        BY AvailableIsInteger, LeaveAssumption DEF AtLeastZero, Excess
    <2>2. bal' \in Balances /\ expired' \in [count : Nat, total : Nat]
        BY <1>22, <2>1, ExpireTypes DEF CapRest
    <2>3. Available(bal') \in Int
        BY <2>2, AvailableIsInteger
    <2>4. next' \in Nat
        BY <1>22, <2>3, LeaveAssumption DEF CapRest, CarriedOver, Lesser, AtLeastZero
    <2>5. QED
        BY <1>22, <2>2, <2>4 DEF CapRest, NoRow, NewRow, Balances
<1>23. ASSUME NextPeriod PROVE TypeOK'
    BY <1>23, LeaveAssumption DEF NextPeriod
<1>24. ASSUME UNCHANGED vars PROVE TypeOK'
    BY <1>24 DEF vars
<1>25. QED
    BY <1>1, <1>2, <1>3, <1>4, <1>5, <1>6, <1>7, <1>8, <1>9, <1>10, <1>11, <1>12, <1>13,
       <1>14, <1>15, <1>16, <1>17, <1>18, <1>19, <1>20, <1>21, <1>22, <1>23, <1>24 DEF Next

\* Every variable keeps its type.
THEOREM RowsTyped == Spec => []TypeOK
<1>1. QED
    BY InitTyped, TypesKept, PTL DEF Spec

----------------------------------------------------------------------------
(* What holds however requests overlap.                                    *)

\* Every step keeps what the status of a leave has to do with its run.
LEMMA VerdictsKept ==
    TypeOK /\ NoRunYet /\ RunIsFound /\ TakenByVerdict /\ [Next]_vars
    => NoRunYet' /\ RunIsFound' /\ TakenByVerdict'
<1> DEFINE Kept == NoRunYet' /\ RunIsFound' /\ TakenByVerdict'
<1> SUFFICES ASSUME TypeOK, NoRunYet, RunIsFound, TakenByVerdict, [Next]_vars
             PROVE  Kept
    OBVIOUS
<1>0. /\ leave \in [Leaves -> [status : LeaveStatus, approval : RunStatus]]
      /\ submit \in [Leaves -> [pc : {"idle", "counting", "checked", "saved", "raised",
                                      "recounting", "done"}, used : Nat]]
      /\ withdraw \in [Leaves -> [pc : {"idle", "asked", "marked", "cancelling", "left",
                                        "recounting", "done"}, used : Nat]]
    BY DEF TypeOK
<1> USE <1>0 DEF NoRunYet, RunIsFound, TakenByVerdict, BeforeTheRun
<1>1. ASSUME UNCHANGED <<leave, submit, withdraw>> PROVE Kept
    BY <1>1
<1>2. ASSUME NEW l \in Leaves, BeginSubmit(l) PROVE Kept
    BY <1>2 DEF BeginSubmit, Count
<1>3. ASSUME NEW l \in Leaves, Check(l) PROVE Kept
    BY <1>3 DEF Check, GoTo
<1>4. ASSUME NEW l \in Leaves, Insert(l) PROVE Kept
    BY <1>4 DEF Insert, GoTo
<1>5. ASSUME NEW l \in Leaves, Raise(l) PROVE Kept
    <2>1. leave[l].approval = "NONE" /\ leave[l].status \notin {"APPROVED", "REJECTED"}
        BY <1>5 DEF Raise
    <2>2. leave' = [leave EXCEPT ![l].approval = "PENDING"] \/ leave' = leave
        BY <1>5 DEF Raise
    <2>3. \/ leave' = leave
          \/ submit' = GoTo(submit, l, "raised")
        BY <1>5 DEF Raise
    <2>4. submit' = GoTo(submit, l, "raised") \/ submit' = GoTo(submit, l, "done")
        BY <1>5 DEF Raise
    <2>5. NoRunYet'
        BY <2>2, <2>3, <2>4 DEF GoTo
    <2>6. RunIsFound'
        BY <1>5, <2>2 DEF Raise
    <2>7. TakenByVerdict'
        BY <2>1, <2>2
    <2>8. QED
        BY <2>5, <2>6, <2>7
<1>6. ASSUME NEW l \in Leaves, Recount(l) PROVE Kept
    BY <1>6 DEF Recount, Count, GoTo
<1>7. ASSUME NEW l \in Leaves, FinishSubmit(l) PROVE Kept
    BY <1>7 DEF FinishSubmit, GoTo
<1>8. ASSUME NEW l \in Leaves, NEW verdict \in {"APPROVED", "REJECTED"}, Decide(l, verdict)
      PROVE  Kept
    BY <1>8 DEF Decide, MayDecide
<1>9. ASSUME NEW l \in Leaves, MarkWithdrawn(l) PROVE Kept
    BY <1>9 DEF MarkWithdrawn, GoTo
<1>10. ASSUME NEW l \in Leaves, CancelRun(l) PROVE Kept
    BY <1>10 DEF CancelRun, GoTo
<1>11. ASSUME NEW l \in Leaves, AskToWithdraw(l) \/ FindRun(l) PROVE Kept
    <2>1. CASE AskToWithdraw(l)
        BY <2>1 DEF AskToWithdraw, GoTo
    <2>2. CASE FindRun(l)
        BY <2>2 DEF FindRun, GoTo
    <2>3. QED
        BY <1>11, <2>1, <2>2
<1>12. ASSUME NEW l \in Leaves, RecountWithdrawn(l) \/ FinishWithdraw(l) PROVE Kept
    <2>1. CASE RecountWithdrawn(l)
        BY <2>1 DEF RecountWithdrawn, GoTo, Count
    <2>2. CASE FinishWithdraw(l)
        BY <2>2 DEF FinishWithdraw, GoTo
    <2>3. QED
        BY <1>12, <2>1, <2>2
<1>13. ASSUME NEW e \in Encashments,
              CheckEncash(e) \/ InsertEncash(e) \/ ApproveEncash(e) \/ RejectEncash(e)
       PROVE  Kept
    BY <1>1, <1>13 DEF CheckEncash, InsertEncash, ApproveEncash, RejectEncash
<1>14. ASSUME \/ BeginView \/ FinishView \/ LoadEnded \/ LapseRest \/ CapRest \/ NextPeriod
              \/ UNCHANGED vars
       PROVE  Kept
    BY <1>1, <1>14 DEF BeginView, FinishView, LoadEnded, LapseRest, CapRest, NextPeriod, vars
<1>15. QED
    BY <1>2, <1>3, <1>4, <1>5, <1>6, <1>7, <1>8, <1>9, <1>10, <1>11, <1>12, <1>13, <1>14 DEF Next

\* Every step keeps an encashment debited once, and only when decided.
LEMMA DebitsKept ==
    TypeOK /\ DebitedOnce /\ DebitedAfterAll /\ [Next]_vars => DebitedOnce' /\ DebitedAfterAll'
<1> DEFINE Kept == DebitedOnce' /\ DebitedAfterAll'
<1> SUFFICES ASSUME TypeOK, DebitedOnce, DebitedAfterAll, [Next]_vars
             PROVE  Kept
    OBVIOUS
<1>0. /\ encash \in [Encashments -> {"NONE", "CHECKED", "PENDING", "APPROVED", "REJECTED"}]
      /\ debits \in [Encashments -> Nat]
    BY DEF TypeOK
<1> USE <1>0 DEF DebitedOnce, DebitedAfterAll
<1>1. ASSUME UNCHANGED encash, UNCHANGED debits PROVE Kept
    BY <1>1
<1>2. ASSUME NEW e \in Encashments, CheckEncash(e) PROVE Kept
    BY <1>2 DEF CheckEncash
<1>3. ASSUME NEW e \in Encashments, InsertEncash(e) PROVE Kept
    BY <1>3 DEF InsertEncash
<1>4. ASSUME NEW e \in Encashments, ApproveEncash(e) PROVE Kept
    <2>1. encash' = [encash EXCEPT ![e] = "APPROVED"]
        BY <1>4 DEF ApproveEncash
    <2>2. CASE debits[e] = 0 /\ debits' = [debits EXCEPT ![e] = 1]
        BY <2>1, <2>2
    <2>3. CASE debits[e] > 0 /\ debits' = debits
        BY <2>1, <2>3
    <2>4. QED
        BY <1>4, <2>2, <2>3 DEF ApproveEncash
<1>5. ASSUME NEW e \in Encashments, RejectEncash(e) PROVE Kept
    BY <1>5 DEF RejectEncash, MayDecide
<1>6. ASSUME NEW l \in Leaves,
             \/ BeginSubmit(l) \/ Check(l) \/ Insert(l) \/ Raise(l) \/ Recount(l)
             \/ FinishSubmit(l) \/ \E verdict \in {"APPROVED", "REJECTED"} : Decide(l, verdict)
             \/ AskToWithdraw(l) \/ MarkWithdrawn(l) \/ FindRun(l) \/ CancelRun(l)
             \/ RecountWithdrawn(l) \/ FinishWithdraw(l)
      PROVE  Kept
    BY <1>1, <1>6 DEF BeginSubmit, Check, Insert, Raise, Recount, FinishSubmit, Decide,
       AskToWithdraw, MarkWithdrawn, FindRun, CancelRun, RecountWithdrawn, FinishWithdraw
<1>7. ASSUME \/ BeginView \/ FinishView \/ LoadEnded \/ LapseRest \/ CapRest \/ NextPeriod
             \/ UNCHANGED vars
      PROVE  Kept
    BY <1>1, <1>7 DEF BeginView, FinishView, LoadEnded, LapseRest, CapRest, NextPeriod, vars
<1>8. QED
    BY <1>2, <1>3, <1>4, <1>5, <1>6, <1>7 DEF Next

LEMMA OverlapInitially == Init => OverlapInv
BY InitTyped DEF Init, OverlapInv, NoRunYet, RunIsFound, TakenByVerdict,
   DebitedOnce, DebitedAfterAll

LEMMA OverlapKept == OverlapInv /\ [Next]_vars => OverlapInv'
BY TypesKept, VerdictsKept, DebitsKept DEF OverlapInv

\* A leave counts as taken or refused by the verdict of its run alone, however
\* submission, withdrawal and decision interleave.
THEOREM LeavesTakenByVerdict == Spec => []TakenByVerdict
<1>1. OverlapInv => TakenByVerdict
    BY DEF OverlapInv
<1>2. QED
    BY OverlapInitially, OverlapKept, <1>1, PTL DEF Spec

\* However often the hook of an approval is called, an encashment is debited once.
THEOREM EncashmentsDebitedOnce == Spec => []DebitedOnce
<1>1. OverlapInv => DebitedOnce
    BY DEF OverlapInv
<1>2. QED
    BY OverlapInitially, OverlapKept, <1>1, PTL DEF Spec

----------------------------------------------------------------------------
(* Requests that are served one at a time.                                 *)

\* A step that makes nobody busy who was not keeps one request at a time.
LEMMA NobodyStarts ==
    ASSUME OneAtATime,
           \A l \in Leaves : InSubmit(l)' => InSubmit(l),
           \A l \in Leaves : InWithdraw(l)' => InWithdraw(l),
           view'.pc # "idle" => view.pc # "idle",
           job'.pc # "idle" => job.pc # "idle"
    PROVE  OneAtATime'
BY DEF OneAtATime

\* Every step keeps one request at a time.
LEMMA OneAtATimeKept ==
    ASSUME Serial PROVE TypeOK /\ OneAtATime /\ [Next]_vars => OneAtATime'
<1> SUFFICES ASSUME TypeOK, OneAtATime, [Next]_vars
             PROVE  OneAtATime'
    OBVIOUS
<1>0. /\ submit \in [Leaves -> [pc : {"idle", "counting", "checked", "saved", "raised",
                                      "recounting", "done"}, used : Nat]]
      /\ withdraw \in [Leaves -> [pc : {"idle", "asked", "marked", "cancelling", "left",
                                        "recounting", "done"}, used : Nat]]
    BY DEF TypeOK
<1>1. ASSUME UNCHANGED <<submit, withdraw, view, job>> PROVE OneAtATime'
    BY <1>1 DEF OneAtATime, InSubmit, InWithdraw
<1>2. ASSUME NEW l \in Leaves, BeginSubmit(l) PROVE OneAtATime'
    BY <1>0, <1>2 DEF BeginSubmit, Count, MayStart, Quiet, OneAtATime, InSubmit, InWithdraw
<1>3. ASSUME NEW l \in Leaves, submit[l].pc \notin {"idle", "done"}, NEW call,
             submit' = [submit EXCEPT ![l] = call], UNCHANGED <<withdraw, view, job>>
      PROVE  OneAtATime'
    <2>1. \A m \in Leaves : InSubmit(m)' => InSubmit(m)
        BY <1>0, <1>3 DEF InSubmit
    <2>2. \A m \in Leaves : InWithdraw(m)' => InWithdraw(m)
        BY <1>3 DEF InWithdraw
    <2>3. QED
        BY <1>3, <2>1, <2>2, NobodyStarts
<1>4. ASSUME NEW l \in Leaves,
             Check(l) \/ Insert(l) \/ Raise(l) \/ Recount(l) \/ FinishSubmit(l)
      PROVE  OneAtATime'
    <2>1. CASE Check(l)
        BY <1>3, <2>1 DEF Check, GoTo
    <2>2. CASE Insert(l)
        BY <1>3, <2>2 DEF Insert, GoTo
    <2>3. CASE Raise(l)
        <3>1. submit' = GoTo(submit, l, "raised") \/ submit' = GoTo(submit, l, "done")
            BY <2>3 DEF Raise
        <3>2. submit[l].pc = "saved" /\ UNCHANGED <<withdraw, view, job>>
            BY <2>3 DEF Raise
        <3>3. QED
            BY <1>3, <3>1, <3>2 DEF GoTo
    <2>4. CASE Recount(l)
        BY <1>3, <2>4 DEF Recount, GoTo, Count
    <2>5. CASE FinishSubmit(l)
        BY <1>3, <2>5 DEF FinishSubmit, GoTo
    <2>6. QED
        BY <1>4, <2>1, <2>2, <2>3, <2>4, <2>5
<1>5. ASSUME NEW l \in Leaves, AskToWithdraw(l) PROVE OneAtATime'
    BY <1>0, <1>5 DEF AskToWithdraw, GoTo, MayStart, Quiet, OneAtATime, InSubmit, InWithdraw
<1>6. ASSUME NEW l \in Leaves, withdraw[l].pc \notin {"idle", "done"}, NEW call,
             withdraw' = [withdraw EXCEPT ![l] = call], UNCHANGED <<submit, view, job>>
      PROVE  OneAtATime'
    <2>1. \A m \in Leaves : InWithdraw(m)' => InWithdraw(m)
        BY <1>0, <1>6 DEF InWithdraw
    <2>2. \A m \in Leaves : InSubmit(m)' => InSubmit(m)
        BY <1>6 DEF InSubmit
    <2>3. QED
        BY <1>6, <2>1, <2>2, NobodyStarts
<1>7. ASSUME NEW l \in Leaves,
             \/ MarkWithdrawn(l) \/ FindRun(l) \/ CancelRun(l) \/ RecountWithdrawn(l)
             \/ FinishWithdraw(l)
      PROVE  OneAtATime'
    <2>1. CASE MarkWithdrawn(l)
        BY <1>6, <2>1 DEF MarkWithdrawn, GoTo
    <2>2. CASE FindRun(l)
        BY <1>6, <2>2 DEF FindRun, GoTo
    <2>3. CASE CancelRun(l)
        BY <1>6, <2>3 DEF CancelRun, GoTo
    <2>4. CASE RecountWithdrawn(l)
        BY <1>6, <2>4 DEF RecountWithdrawn, GoTo, Count
    <2>5. CASE FinishWithdraw(l)
        BY <1>6, <2>5 DEF FinishWithdraw, GoTo
    <2>6. QED
        BY <1>7, <2>1, <2>2, <2>3, <2>4, <2>5
<1>8. ASSUME BeginView PROVE OneAtATime'
    BY <1>0, <1>8 DEF BeginView, MayStart, Quiet, OneAtATime, InSubmit, InWithdraw
<1>9. ASSUME FinishView PROVE OneAtATime'
    BY <1>9 DEF FinishView, OneAtATime, InSubmit, InWithdraw
<1>10. ASSUME LoadEnded PROVE OneAtATime'
    BY <1>0, <1>10 DEF LoadEnded, MayStart, Quiet, OneAtATime, InSubmit, InWithdraw
<1>11. ASSUME LapseRest \/ CapRest PROVE OneAtATime'
    BY <1>11 DEF LapseRest, CapRest, NoRow, OneAtATime, InSubmit, InWithdraw
<1>12. ASSUME NEW l \in Leaves, NEW verdict \in {"APPROVED", "REJECTED"}, Decide(l, verdict)
       PROVE  OneAtATime'
    BY <1>1, <1>12 DEF Decide
<1>13. ASSUME NEW e \in Encashments,
              CheckEncash(e) \/ InsertEncash(e) \/ ApproveEncash(e) \/ RejectEncash(e)
       PROVE  OneAtATime'
    BY <1>1, <1>13 DEF CheckEncash, InsertEncash, ApproveEncash, RejectEncash
<1>14. ASSUME NextPeriod \/ UNCHANGED vars PROVE OneAtATime'
    BY <1>1, <1>14 DEF NextPeriod, vars
<1>15. QED
    BY <1>2, <1>4, <1>5, <1>7, <1>8, <1>9, <1>10, <1>11, <1>12, <1>13, <1>14 DEF Next

\* What a run, a row and a withdrawal have to do with one another when requests
\* are served one at a time.
StatusInv == NoRunYet /\ NoRowYet /\ SavedIsPending /\ UndecidedIsPending

\* Every step keeps it.
LEMMA StatusKept ==
    ASSUME Serial
    PROVE  TypeOK /\ OneAtATime /\ StatusInv /\ NoRunYet' /\ [Next]_vars => StatusInv'
<1> SUFFICES ASSUME TypeOK, OneAtATime, StatusInv, NoRunYet', [Next]_vars
             PROVE  StatusInv'
    OBVIOUS
<1>0. /\ leave \in [Leaves -> [status : LeaveStatus, approval : RunStatus]]
      /\ submit \in [Leaves -> [pc : {"idle", "counting", "checked", "saved", "raised",
                                      "recounting", "done"}, used : Nat]]
      /\ withdraw \in [Leaves -> [pc : {"idle", "asked", "marked", "cancelling", "left",
                                        "recounting", "done"}, used : Nat]]
    BY DEF TypeOK
<1> DEFINE Kept == NoRowYet' /\ SavedIsPending' /\ UndecidedIsPending'
<1> SUFFICES Kept
    BY DEF StatusInv
<1>a. NoRunYet /\ NoRowYet /\ SavedIsPending /\ UndecidedIsPending
    BY DEF StatusInv
<1> USE <1>0, <1>a DEF NoRunYet, NoRowYet, SavedIsPending, UndecidedIsPending, BeforeTheRun
<1>1. ASSUME UNCHANGED <<leave, submit, withdraw>> PROVE Kept
    BY <1>1
<1>2. ASSUME NEW l \in Leaves, BeginSubmit(l) PROVE Kept
    BY <1>2 DEF BeginSubmit, Count
<1>3. ASSUME NEW l \in Leaves, Check(l) PROVE Kept
    BY <1>3 DEF Check, GoTo
<1>4. ASSUME NEW l \in Leaves, Insert(l) PROVE Kept
    BY <1>4 DEF Insert, GoTo
<1>5. ASSUME NEW l \in Leaves, Raise(l) PROVE Kept
    <2>1. leave' = [leave EXCEPT ![l].approval = "PENDING"] \/ leave' = leave
        BY <1>5 DEF Raise
    <2>2. submit[l].pc = "saved" /\ withdraw' = withdraw
        BY <1>5 DEF Raise
    <2>3. submit' = GoTo(submit, l, "raised") \/ submit' = GoTo(submit, l, "done")
        BY <1>5 DEF Raise
    <2>4. leave[l].status = "PENDING" /\ \A m \in Leaves : leave'[m].status = leave[m].status
        BY <2>1, <2>2
    <2>5. NoRowYet' /\ SavedIsPending'
        <3>1. CASE submit' = GoTo(submit, l, "raised")
            BY <2>2, <2>4, <3>1 DEF GoTo
        <3>2. CASE submit' = GoTo(submit, l, "done")
            BY <2>2, <2>4, <3>2 DEF GoTo
        <3>3. QED
            BY <2>3, <3>1, <3>2
    <2>6. UndecidedIsPending'
        BY <2>1, <2>2, <2>4
    <2>7. QED
        BY <2>5, <2>6
<1>6. ASSUME NEW l \in Leaves, Recount(l) PROVE Kept
    BY <1>6 DEF Recount, Count, GoTo
<1>7. ASSUME NEW l \in Leaves, FinishSubmit(l) PROVE Kept
    BY <1>7 DEF FinishSubmit, GoTo
<1>8. ASSUME NEW l \in Leaves, NEW verdict \in {"APPROVED", "REJECTED"}, Decide(l, verdict)
      PROVE  Kept
    <2>1. submit[l].pc \in {"idle", "done"}
        BY <1>8 DEF Decide, MayStart, Quiet
    <2>2. QED
        BY <1>8, <2>1 DEF Decide, MayDecide
<1>9. ASSUME NEW l \in Leaves, AskToWithdraw(l) PROVE Kept
    BY <1>9 DEF AskToWithdraw, GoTo
<1>10. ASSUME NEW l \in Leaves, MarkWithdrawn(l) PROVE Kept
    <2>1. submit[l].pc \in {"idle", "done"}
        BY <1>10 DEF MarkWithdrawn, OneAtATime, InSubmit, InWithdraw
    <2>2. QED
        BY <1>10, <2>1 DEF MarkWithdrawn, GoTo
<1>11. ASSUME NEW l \in Leaves, FindRun(l) PROVE Kept
    BY <1>11 DEF FindRun, GoTo
<1>12. ASSUME NEW l \in Leaves, CancelRun(l) PROVE Kept
    <2>1. submit[l].pc \in {"idle", "done"}
        BY <1>12 DEF CancelRun, OneAtATime, InSubmit, InWithdraw
    <2>2. QED
        BY <1>12, <2>1 DEF CancelRun, GoTo
<1>13. ASSUME NEW l \in Leaves, RecountWithdrawn(l) \/ FinishWithdraw(l) PROVE Kept
    <2>1. CASE RecountWithdrawn(l)
        BY <2>1 DEF RecountWithdrawn, GoTo, Count
    <2>2. CASE FinishWithdraw(l)
        BY <2>2 DEF FinishWithdraw, GoTo
    <2>3. QED
        BY <1>13, <2>1, <2>2
<1>14. ASSUME NEW e \in Encashments,
              CheckEncash(e) \/ InsertEncash(e) \/ ApproveEncash(e) \/ RejectEncash(e)
       PROVE  Kept
    BY <1>1, <1>14 DEF CheckEncash, InsertEncash, ApproveEncash, RejectEncash
<1>15. ASSUME \/ BeginView \/ FinishView \/ LoadEnded \/ LapseRest \/ CapRest \/ NextPeriod
              \/ UNCHANGED vars
       PROVE  Kept
    BY <1>1, <1>15 DEF BeginView, FinishView, LoadEnded, LapseRest, CapRest, NextPeriod, vars
<1>16. QED
    BY <1>2, <1>3, <1>4, <1>5, <1>6, <1>7, <1>8, <1>9, <1>10, <1>11, <1>12, <1>13, <1>14,
       <1>15 DEF Next

\* The days of the active requests are those approved and those pending.
LEMMA ActiveDays ==
    /\ Active \in SUBSET Leaves
    /\ Total[Active] \in Nat
    /\ Total[Active] = Total[InStatus("APPROVED")] + Total[InStatus("PENDING")]
<1>1. InStatus("APPROVED") \in SUBSET Leaves /\ InStatus("PENDING") \in SUBSET Leaves
    BY StatusesPartition
<1>2. InStatus("PENDING") \cap InStatus("APPROVED") = {}
    BY DEF InStatus
<1>3. Total[InStatus("APPROVED")] \in Nat /\ Total[InStatus("PENDING")] \in Nat
    BY StatusesPartition
<1>4. Total[InStatus("PENDING") \cup InStatus("APPROVED")]
        = Total[InStatus("PENDING")] + Total[InStatus("APPROVED")]
    BY <1>1, <1>2, LeaveAssumption
<1>5. Active = InStatus("PENDING") \cup InStatus("APPROVED")
    BY DEF Active
<1>6. QED
    BY <1>1, <1>3, <1>4, <1>5

\* What the days of leave have to do with the credit.
DaysInv == ReadIsTrue /\ CheckedFits /\ NotOverdrawn

\* A step that changes no status, no date and no check in progress keeps it.
LEMMA DaysUndisturbed ==
    ASSUME DaysInv, \A l \in Leaves : leave'[l].status = leave[l].status, period' = period,
           \A l \in Leaves :
               submit'[l].pc \in {"counting", "checked"} => submit'[l] = submit[l]
    PROVE  DaysInv'
<1>1. \A status : InStatus(status)' = InStatus(status)
    BY DEF InStatus
<1>2. InStatus("APPROVED")' = InStatus("APPROVED") /\ Active' = Active
    BY <1>1 DEF Active
<1>3. CreditFor(period)' = CreditFor(period)
    BY DEF CreditFor
<1>4. QED
    BY <1>2, <1>3 DEF DaysInv, ReadIsTrue, CheckedFits, NotOverdrawn, Units

\* A step that adds no leave keeps it while no check is in progress.
LEMMA DaysGivenBack ==
    ASSUME TypeOK, DaysInv, Active' \in SUBSET Active, period' = period,
           \A l \in Leaves : submit'[l].pc \notin {"counting", "checked"}
    PROVE  DaysInv'
<1>1. Total[Active'] <= Total[Active] /\ Total[Active'] \in Nat /\ Total[Active] \in Nat
    BY ActiveDays, SumOfDaysGrows
<1>2. period \in Nat
    BY LeaveAssumption DEF TypeOK
<1>3. CreditFor(period) \in Nat /\ CreditFor(period)' = CreditFor(period) /\ Carried \in Nat
    BY <1>2, CreditGrows, LeaveAssumption DEF CreditFor
<1>4. NotOverdrawn'
    BY <1>1, <1>3 DEF DaysInv, NotOverdrawn
<1>5. QED
    BY <1>4 DEF DaysInv, ReadIsTrue, CheckedFits

\* Every step keeps the days of leave within the credit.
LEMMA DaysKept ==
    ASSUME Serial
    PROVE  TypeOK /\ OneAtATime /\ StatusInv /\ DaysInv /\ [Next]_vars => DaysInv'
<1> SUFFICES ASSUME TypeOK, OneAtATime, StatusInv, DaysInv, [Next]_vars
             PROVE  DaysInv'
    OBVIOUS
<1>0. /\ leave \in [Leaves -> [status : LeaveStatus, approval : RunStatus]]
      /\ submit \in [Leaves -> [pc : {"idle", "counting", "checked", "saved", "raised",
                                      "recounting", "done"}, used : Nat]]
      /\ period \in Nat
    BY LeaveAssumption DEF TypeOK
<1>1. ASSUME UNCHANGED <<leave, period, submit>> PROVE DaysInv'
    BY <1>1, DaysUndisturbed
<1>2. ASSUME NEW l \in Leaves, BeginSubmit(l) PROVE DaysInv'
    <2>1. UNCHANGED <<leave, period, bal>>
        BY <1>2 DEF BeginSubmit
    <2>2. \A status : InStatus(status)' = InStatus(status)
        BY <2>1 DEF InStatus
    <2>3. Active' = Active /\ CreditFor(period)' = CreditFor(period)
        BY <2>1, <2>2 DEF Active, CreditFor
    <2>4. submit' = [submit EXCEPT ![l] = [pc |-> "counting", used |-> Total[InStatus("APPROVED")]]]
        BY <1>2 DEF BeginSubmit, Count
    <2>5. ReadIsTrue'
        BY <1>0, <2>2, <2>4 DEF DaysInv, ReadIsTrue
    <2>6. CheckedFits'
        BY <1>0, <2>3, <2>4 DEF DaysInv, CheckedFits, Units
    <2>7. NotOverdrawn'
        BY <2>3 DEF DaysInv, NotOverdrawn
    <2>8. QED
        BY <2>5, <2>6, <2>7 DEF DaysInv
<1>3. ASSUME NEW l \in Leaves, Check(l) PROVE DaysInv'
    <2>1. UNCHANGED <<leave, period>> /\ submit[l].pc = "counting" /\ bal' = Found(submit[l].used)
        BY <1>3 DEF Check
    <2>2. \A status : InStatus(status)' = InStatus(status)
        BY <2>1 DEF InStatus
    <2>3. Active' = Active /\ CreditFor(period)' = CreditFor(period)
        BY <2>1, <2>2 DEF Active, CreditFor
    <2>4. submit' = [submit EXCEPT ![l] =
                       [pc |-> IF Units(l) <= Available(bal') THEN "checked" ELSE "done", used |-> 0]]
        BY <1>3 DEF Check, GoTo
    <2>5. submit[l].used = Total[InStatus("APPROVED")]
        BY <2>1 DEF DaysInv, ReadIsTrue
    <2>6. Available(bal') <= Carried + CreditFor(period) - Total[Active]
        <3>1. submit[l].used \in Nat
            BY <1>0
        <3>2. Available(bal') <= Carried + CreditFor(period) - submit[l].used - Total[InStatus("PENDING")]
            BY <1>0, <2>1, <3>1, FoundRow
        <3>3. Total[InStatus("APPROVED")] \in Nat /\ Total[InStatus("PENDING")] \in Nat
            BY StatusesPartition
        <3>4. CreditFor(period) \in Nat /\ Carried \in Nat
            BY <1>0, CreditGrows, LeaveAssumption
        <3>5. QED
            BY <2>5, <3>2, <3>3, <3>4, ActiveDays
    <2>7. Units(l) <= Available(bal') => Total[Active] + Units(l) <= Carried + CreditFor(period)
        <3>1. Units(l) \in Nat
            BY LeaveAssumption DEF Units
        <3>2. bal' \in Balances
            BY <1>0, <2>1, FoundRow
        <3>3. Available(bal') \in Int
            BY <3>2, AvailableIsInteger
        <3>4. CreditFor(period) \in Nat /\ Carried \in Nat
            BY <1>0, CreditGrows, LeaveAssumption
        <3>5. QED
            BY <2>6, <3>1, <3>3, <3>4, ActiveDays
    <2>8. ReadIsTrue'
        BY <1>0, <2>2, <2>4 DEF DaysInv, ReadIsTrue
    <2>9. CheckedFits'
        BY <1>0, <2>3, <2>4, <2>7 DEF DaysInv, CheckedFits, Units
    <2>10. NotOverdrawn'
        BY <2>3 DEF DaysInv, NotOverdrawn
    <2>11. QED
        BY <2>8, <2>9, <2>10 DEF DaysInv
<1>4. ASSUME NEW l \in Leaves, Insert(l) PROVE DaysInv'
    <2>1. submit[l].pc = "checked" /\ period' = period
        BY <1>4 DEF Insert
    <2>2. leave' = [leave EXCEPT ![l].status = "PENDING"]
        BY <1>4 DEF Insert
    <2>3. leave[l].status = "NONE"
        BY <2>1 DEF StatusInv, NoRowYet
    <2>4. Active' = Active \cup {l} /\ Active \cap {l} = {}
        BY <1>0, <2>2, <2>3 DEF Active, InStatus
    <2>5. Total[Active'] = Total[Active] + Units(l)
        BY <2>4, ActiveDays, LeaveAssumption DEF Units
    <2>6. NotOverdrawn'
        BY <2>1, <2>5 DEF DaysInv, CheckedFits, NotOverdrawn, CreditFor
    <2>7. \A m \in Leaves : submit'[m].pc \notin {"counting", "checked"}
        BY <1>0, <1>4, <2>1 DEF Insert, GoTo, OneAtATime, InSubmit
    <2>8. QED
        BY <2>6, <2>7 DEF DaysInv, ReadIsTrue, CheckedFits
<1>5. ASSUME NEW l \in Leaves, Raise(l) PROVE DaysInv'
    <2>1. leave' = [leave EXCEPT ![l].approval = "PENDING"] \/ leave' = leave
        BY <1>5 DEF Raise
    <2>2. \A m \in Leaves : leave'[m].status = leave[m].status
        BY <1>0, <2>1
    <2>3. submit' = GoTo(submit, l, "raised") \/ submit' = GoTo(submit, l, "done")
        BY <1>5 DEF Raise
    <2>4. \A m \in Leaves : submit'[m].pc \in {"counting", "checked"} => submit'[m] = submit[m]
        BY <1>0, <2>3 DEF GoTo
    <2>5. period' = period
        BY <1>5 DEF Raise
    <2>6. QED
        BY <2>2, <2>4, <2>5, DaysUndisturbed
<1>6. ASSUME NEW l \in Leaves, Recount(l) \/ FinishSubmit(l) PROVE DaysInv'
    <2>1. UNCHANGED <<leave, period>>
        BY <1>6 DEF Recount, FinishSubmit
    <2>2. \A m \in Leaves : submit'[m].pc \in {"counting", "checked"} => submit'[m] = submit[m]
        BY <1>0, <1>6 DEF Recount, FinishSubmit, Count, GoTo
    <2>3. QED
        BY <2>1, <2>2, DaysUndisturbed
<1>7. ASSUME NEW l \in Leaves, NEW verdict \in {"APPROVED", "REJECTED"}, Decide(l, verdict)
      PROVE  DaysInv'
    <2>1. Quiet /\ leave[l].approval = "PENDING"
        BY <1>7 DEF Decide, MayDecide, MayStart
    <2>2. leave[l].status = "PENDING"
        BY <2>1 DEF StatusInv, UndecidedIsPending, Quiet
    <2>3. Active' \in SUBSET Active
        BY <1>0, <1>7, <2>2 DEF Decide, Active, InStatus
    <2>4. \A m \in Leaves : submit'[m].pc \notin {"counting", "checked"}
        BY <1>7, <2>1 DEF Decide, Quiet
    <2>5. QED
        BY <1>7, <2>3, <2>4, DaysGivenBack DEF Decide, MayDecide
<1>8. ASSUME NEW l \in Leaves, MarkWithdrawn(l) \/ CancelRun(l) PROVE DaysInv'
    <2>1. UNCHANGED <<submit, period>> /\ InWithdraw(l)
        BY <1>8 DEF MarkWithdrawn, CancelRun, InWithdraw
    <2>2. \A m \in Leaves : submit'[m].pc \notin {"counting", "checked"}
        BY <2>1 DEF OneAtATime, InSubmit
    <2>3. \/ leave' = [leave EXCEPT ![l].status = "WITHDRAWN"]
          \/ leave' = [leave EXCEPT ![l] = [status |-> "WITHDRAWN", approval |-> "CANCELLED"]]
        BY <1>8 DEF MarkWithdrawn, CancelRun
    <2>4. \A m \in Leaves : leave'[m].status \in {leave[m].status, "WITHDRAWN"}
        BY <1>0, <2>3
    <2>5. Active' \in SUBSET Active
        BY <2>4 DEF Active, InStatus
    <2>6. QED
        BY <2>1, <2>2, <2>5, DaysGivenBack
<1>9. ASSUME NEW l \in Leaves,
             AskToWithdraw(l) \/ FindRun(l) \/ RecountWithdrawn(l) \/ FinishWithdraw(l)
      PROVE  DaysInv'
    BY <1>1, <1>9 DEF AskToWithdraw, FindRun, RecountWithdrawn, FinishWithdraw
<1>10. ASSUME NEW e \in Encashments,
              CheckEncash(e) \/ InsertEncash(e) \/ ApproveEncash(e) \/ RejectEncash(e)
       PROVE  DaysInv'
    BY <1>1, <1>10 DEF CheckEncash, InsertEncash, ApproveEncash, RejectEncash
<1>11. ASSUME \/ BeginView \/ FinishView \/ LoadEnded \/ LapseRest \/ CapRest \/ UNCHANGED vars
       PROVE  DaysInv'
    BY <1>1, <1>11 DEF BeginView, FinishView, LoadEnded, LapseRest, CapRest, vars
<1>12. ASSUME NextPeriod PROVE DaysInv'
    <2>1. Quiet /\ UNCHANGED <<leave, submit>> /\ period' = period + 1
        BY <1>12 DEF NextPeriod, MayStart
    <2>2. CreditFor(period) \in Nat /\ CreditFor(period') \in Nat
          /\ CreditFor(period) <= CreditFor(period')
        BY <1>0, <2>1, CreditGrows
    <2>3. Active' = Active
        BY <2>1 DEF Active, InStatus
    <2>4. NotOverdrawn'
        BY <2>2, <2>3, ActiveDays, LeaveAssumption DEF DaysInv, NotOverdrawn
    <2>5. QED
        BY <2>1, <2>4 DEF DaysInv, ReadIsTrue, CheckedFits, Quiet
<1>13. QED
    BY <1>2, <1>3, <1>4, <1>5, <1>6, <1>7, <1>8, <1>9, <1>10, <1>11, <1>12 DEF Next

\* What the row has to do with max_balance and with the task that has loaded it.
RowInv == LoadedIsTrue /\ NeverAboveMax

\* Expiring days from the row there is leaves no more than there was.
LEMMA ExpireLowers ==
    ASSUME TypeOK, NEW n \in Nat, Expire(n), job.row = bal, NeverAboveMax
    PROVE  NeverAboveMax'
<1>0. bal \in Balances /\ Carried \in Nat /\ MaxBalance \in Nat
    BY LeaveAssumption DEF TypeOK
<1>1. CASE bal' = bal
    BY <1>1 DEF NeverAboveMax, Available
<1>2. CASE bal' = [bal EXCEPT !.credited = AtLeastZero(bal.credited - n)]
    <2>1. bal.credited \in Nat /\ bal.used \in Nat /\ bal.pending \in Nat
        BY <1>0 DEF Balances
    <2>2. AtLeastZero(bal.credited - n) \in Nat /\ AtLeastZero(bal.credited - n) <= bal.credited
        BY <2>1 DEF AtLeastZero
    <2>3. /\ bal'.credited = AtLeastZero(bal.credited - n)
          /\ bal'.used = bal.used /\ bal'.pending = bal.pending
        BY <1>0, <1>2 DEF Balances
    <2>4. QED
        BY <1>0, <2>1, <2>2, <2>3 DEF NeverAboveMax, Available
<1>3. QED
    BY <1>1, <1>2 DEF Expire

\* Every step keeps it.
LEMMA RowKept ==
    ASSUME Serial
    PROVE  TypeOK /\ OneAtATime /\ RowInv /\ [Next]_vars => RowInv'
<1> SUFFICES ASSUME TypeOK, OneAtATime, RowInv, [Next]_vars
             PROVE  RowInv'
    OBVIOUS
<1>0. period \in Nat /\ bal \in Balances /\ job.pc \in {"idle", "loaded"} /\ job.row \in Balances
    BY LeaveAssumption DEF TypeOK
<1>1. ASSUME UNCHANGED <<bal, job>> PROVE RowInv'
    BY <1>1 DEF RowInv, LoadedIsTrue, NeverAboveMax, Available
<1>2. ASSUME NEW used \in Nat, bal' = Found(used), job.pc = "idle", job' = job PROVE RowInv'
    <2>1. Available(bal') <= MaxBalance
        BY <1>0, <1>2, FoundRow
    <2>2. NeverAboveMax'
        BY <2>1 DEF NeverAboveMax, Available
    <2>3. QED
        BY <1>2, <2>2 DEF RowInv, LoadedIsTrue
<1>3. ASSUME NEW l \in Leaves, Check(l) \/ FinishSubmit(l) PROVE RowInv'
    <2>1. bal' = Found(submit[l].used) /\ job' = job /\ submit[l].pc \in {"counting", "recounting"}
        BY <1>3 DEF Check, FinishSubmit
    <2>2. submit[l].used \in Nat
        BY DEF TypeOK
    <2>3. job.pc = "idle"
        BY <2>1 DEF OneAtATime, InSubmit
    <2>4. QED
        BY <1>2, <2>1, <2>2, <2>3
<1>4. ASSUME NEW l \in Leaves, FinishWithdraw(l) PROVE RowInv'
    <2>1. bal' = Found(withdraw[l].used) /\ job' = job /\ withdraw[l].pc = "recounting"
        BY <1>4 DEF FinishWithdraw
    <2>2. withdraw[l].used \in Nat
        BY DEF TypeOK
    <2>3. job.pc = "idle"
        BY <2>1 DEF OneAtATime, InWithdraw
    <2>4. QED
        BY <1>2, <2>1, <2>2, <2>3
<1>5. ASSUME FinishView PROVE RowInv'
    <2>1. view.used \in Nat
        BY DEF TypeOK
    <2>2. job.pc = "idle"
        BY <1>5 DEF FinishView, OneAtATime
    <2>3. QED
        BY <1>2, <1>5, <2>1, <2>2 DEF FinishView
<1>6. ASSUME NEW e \in Encashments, ApproveEncash(e) PROVE RowInv'
    <2>1. job.pc = "idle" /\ job' = job
        BY <1>6 DEF ApproveEncash, MayStart, Quiet
    <2>2. Debited[{e}] \in Nat /\ Carried \in Nat /\ MaxBalance \in Nat
        BY LeaveAssumption
    <2>3. bal.credited \in Nat /\ bal.used \in Nat /\ bal.pending \in Nat
        BY <1>0 DEF Balances
    <2>4. CASE bal' = bal
        BY <1>1, <2>1, <2>4
    <2>5. CASE bal' = [bal EXCEPT !.used = @ + Debited[{e}]]
        <3>1. /\ bal'.credited = bal.credited /\ bal'.pending = bal.pending
              /\ bal'.used = bal.used + Debited[{e}]
            BY <1>0, <2>5 DEF Balances
        <3>2. NeverAboveMax'
            BY <2>2, <2>3, <3>1 DEF RowInv, NeverAboveMax, Available
        <3>3. QED
            BY <2>1, <3>2 DEF RowInv, LoadedIsTrue
    <2>6. QED
        BY <1>6, <2>4, <2>5 DEF ApproveEncash
<1>7. ASSUME LoadEnded PROVE RowInv'
    BY <1>7 DEF LoadEnded, RowInv, LoadedIsTrue, NeverAboveMax, Available
<1>8. ASSUME LapseRest PROVE RowInv'
    <2> DEFINE n == IF expired.count > 0 THEN 0 ELSE AtLeastZero(Available(job.row))
    <2>1. n \in Nat /\ Expire(n) /\ job' = NoRow /\ job.pc = "loaded"
        BY <1>0, <1>8, AvailableIsInteger DEF LapseRest, AtLeastZero
    <2>2. NeverAboveMax'
        BY <2>1, ExpireLowers DEF RowInv, LoadedIsTrue
    <2>3. QED
        BY <2>1, <2>2 DEF RowInv, LoadedIsTrue, NoRow
<1>9. ASSUME CapRest PROVE RowInv'
    <2>1. Excess(job.row) \in Nat
        BY <1>0, AvailableIsInteger, LeaveAssumption DEF AtLeastZero, Excess
    <2>2. Expire(Excess(job.row)) /\ job' = NoRow /\ job.pc = "loaded"
        BY <1>9 DEF CapRest
    <2>3. NeverAboveMax'
        BY <2>1, <2>2, ExpireLowers DEF RowInv, LoadedIsTrue
    <2>4. QED
        BY <2>2, <2>3 DEF RowInv, LoadedIsTrue, NoRow
<1>10. ASSUME NEW l \in Leaves,
              \/ BeginSubmit(l) \/ Insert(l) \/ Raise(l) \/ Recount(l)
              \/ \E verdict \in {"APPROVED", "REJECTED"} : Decide(l, verdict)
              \/ AskToWithdraw(l) \/ MarkWithdrawn(l) \/ FindRun(l) \/ CancelRun(l)
              \/ RecountWithdrawn(l)
       PROVE  RowInv'
    BY <1>1, <1>10 DEF BeginSubmit, Insert, Raise, Recount, Decide, AskToWithdraw,
       MarkWithdrawn, FindRun, CancelRun, RecountWithdrawn
<1>11. ASSUME NEW e \in Encashments, CheckEncash(e) \/ InsertEncash(e) \/ RejectEncash(e)
       PROVE  RowInv'
    BY <1>1, <1>11 DEF CheckEncash, InsertEncash, RejectEncash
<1>12. ASSUME BeginView \/ NextPeriod \/ UNCHANGED vars PROVE RowInv'
    BY <1>1, <1>12 DEF BeginView, NextPeriod, vars
<1>13. QED
    BY <1>3, <1>4, <1>5, <1>6, <1>7, <1>8, <1>9, <1>10, <1>11, <1>12 DEF Next

\* The measure of no leave is nothing
LEMMA NothingIsZero == Total[{}] = 0
<1>1. \A x \in Nat : x = x + x => x = 0
    OBVIOUS
<1>2. Total[{}] \in Nat
    BY LeaveAssumption
<1>3. Total[{} \cup {}] = Total[{}] + Total[{}]
    <2>1. {} \in SUBSET Leaves /\ {} \cap {} = {}
        OBVIOUS
    <2>2. QED
        BY <2>1, LeaveAssumption
<1>4. {} \cup {} = {}
    OBVIOUS
<1>5. Total[{}] = Total[{}] + Total[{}]
    BY <1>3, <1>4
<1>6. QED
    BY <1>1, <1>2, <1>5

LEMMA SerialInitially == Init => SerialInv
<1> SUFFICES ASSUME Init PROVE SerialInv
    OBVIOUS
<1>1. OverlapInv
    BY OverlapInitially
<1>2. OneAtATime
    BY DEF Init, OneAtATime, InSubmit, InWithdraw, NoRow
<1>3. NoRowYet /\ SavedIsPending /\ UndecidedIsPending
    BY DEF Init, NoRowYet, SavedIsPending, UndecidedIsPending
<1>4. ReadIsTrue /\ CheckedFits /\ LoadedIsTrue
    BY DEF Init, ReadIsTrue, CheckedFits, LoadedIsTrue, NoRow
<1>5. NotOverdrawn
    <2>1. Active = {} /\ period = 1
        BY DEF Init, Active, InStatus
    <2>2. Total[{}] = 0
        BY NothingIsZero
    <2>3. CreditFor(1) \in Nat /\ Carried \in Nat
        BY CreditGrows, LeaveAssumption
    <2>4. QED
        BY <2>1, <2>2, <2>3 DEF NotOverdrawn
<1>6. NeverAboveMax
    BY LeaveAssumption DEF Init, NeverAboveMax, Available, NewRow
<1>7. QED
    BY <1>1, <1>2, <1>3, <1>4, <1>5, <1>6 DEF SerialInv

LEMMA SerialKept == ASSUME Serial PROVE SerialInv /\ [Next]_vars => SerialInv'
<1> SUFFICES ASSUME SerialInv, [Next]_vars PROVE SerialInv'
    OBVIOUS
<1>1. TypeOK /\ NoRunYet /\ OverlapInv /\ OverlapInv'
    BY OverlapKept DEF SerialInv, OverlapInv
<1>2. NoRunYet'
    BY <1>1 DEF OverlapInv
<1>3. OneAtATime /\ OneAtATime'
    BY <1>1, OneAtATimeKept DEF SerialInv
<1>4. StatusInv /\ StatusInv'
    BY <1>1, <1>2, <1>3, StatusKept DEF SerialInv, StatusInv
<1>5. DaysInv /\ DaysInv'
    BY <1>1, <1>3, <1>4, DaysKept DEF SerialInv, DaysInv
<1>6. RowInv /\ RowInv'
    BY <1>1, <1>3, RowKept DEF SerialInv, RowInv
<1>7. QED
    BY <1>1, <1>3, <1>4, <1>5, <1>6 DEF SerialInv, StatusInv, DaysInv, RowInv

\* Served one at a time, an employee's requests never exceed what the cycle has
\* credited and what was carried into it, for every set of requests.
THEOREM NeverOverdrawn == ASSUME Serial PROVE Spec => []NotOverdrawn
<1>1. SerialInv => NotOverdrawn
    BY DEF SerialInv
<1>2. SerialInv /\ [Next]_vars => SerialInv'
    BY SerialKept
<1>3. QED
    BY SerialInitially, <1>1, <1>2, PTL DEF Spec

\* Served one at a time, the row never shows more days than max_balance, the
\* nightly task and encashments included.
THEOREM MaxBalanceKept == ASSUME Serial PROVE Spec => []NeverAboveMax
<1>1. SerialInv => NeverAboveMax
    BY DEF SerialInv
<1>2. SerialInv /\ [Next]_vars => SerialInv'
    BY SerialKept
<1>3. QED
    BY SerialInitially, <1>1, <1>2, PTL DEF Spec

\* Served one at a time, a capped row keeps no more than the cap, and what is carried
\* is what is left, provided that what was carried into the cycle obeyed the cap.
THEOREM CarriedExactly ==
    ASSUME Serial, Carried <= CarryCap
    PROVE  Spec => CarriedIsWhatIsLeft
<1> DEFINE Exact == /\ Available(bal') <= CarryCap
                    /\ next' = AtLeastZero(Available(bal'))
<1>1. ASSUME SerialInv, CapRest PROVE Exact
    <2>1. job.row = bal /\ bal \in Balances
        BY <1>1 DEF CapRest, SerialInv, LoadedIsTrue, OverlapInv, TypeOK
    <2>2. /\ bal.credited \in Nat /\ bal.used \in Nat /\ bal.pending \in Nat
          /\ Carried \in Nat /\ CarryCap \in Nat
        BY <2>1, LeaveAssumption DEF Balances
    <2>3. Available(bal) = Carried + bal.credited - bal.used - bal.pending
        BY DEF Available
    <2>4. Excess(bal) = IF Available(bal) > CarryCap THEN Available(bal) - CarryCap ELSE 0
        BY <2>2, <2>3 DEF Excess, AtLeastZero
    <2>5. CASE Available(bal) > CarryCap
        <3>1. bal' = [bal EXCEPT !.credited = AtLeastZero(bal.credited - Excess(bal))]
            BY <1>1, <2>1, <2>2, <2>3, <2>4, <2>5 DEF CapRest, Expire
        <3>2. AtLeastZero(bal.credited - Excess(bal)) = bal.credited - Excess(bal)
            BY <2>2, <2>3, <2>4, <2>5 DEF AtLeastZero
        <3>3. /\ bal'.credited = bal.credited - Excess(bal)
              /\ bal'.used = bal.used /\ bal'.pending = bal.pending
            BY <2>1, <3>1, <3>2 DEF Balances
        <3>4. Available(bal') = CarryCap
            BY <2>2, <2>3, <2>4, <2>5, <3>3 DEF Available
        <3>5. QED
            BY <1>1, <2>2, <3>4 DEF CapRest, CarriedOver, Lesser, AtLeastZero
    <2>6. CASE Available(bal) <= CarryCap
        <3>1. bal' = bal
            BY <1>1, <2>1, <2>2, <2>3, <2>4, <2>6 DEF CapRest, Expire
        <3>2. QED
            BY <1>1, <2>2, <2>3, <2>6, <3>1 DEF CapRest, CarriedOver, Lesser, AtLeastZero
    <2>7. QED
        BY <2>2, <2>3, <2>5, <2>6
<1>2. SerialInv /\ [Next]_vars => SerialInv'
    BY SerialKept
<1>3. SerialInv /\ [Next]_vars => [CapRest => Exact]_vars
    BY <1>1
<1>4. QED
    BY SerialInitially, <1>2, <1>3, PTL DEF Spec, CarriedIsWhatIsLeft
----------------------------------------------------------------------------
(* Withdrawals and refusals, of requests that are served one at a time.     *)

\* A withdrawal that has marked its leave finds it withdrawn until it is done
MarkedIsWithdrawn ==
    \A l \in Leaves :
        withdraw[l].pc \in {"marked", "cancelling", "left", "recounting", "done"} =>
            leave[l].status = "WITHDRAWN"

\* Every step keeps it: a leave that was withdrawn has no run to decide.
LEMMA MarkedKept ==
    ASSUME Serial
    PROVE  SerialInv /\ MarkedIsWithdrawn /\ [Next]_vars => MarkedIsWithdrawn'
<1> SUFFICES ASSUME SerialInv, MarkedIsWithdrawn, [Next]_vars
             PROVE  MarkedIsWithdrawn'
    OBVIOUS
<1>0. /\ leave \in [Leaves -> [status : LeaveStatus, approval : RunStatus]]
      /\ withdraw \in [Leaves -> [pc : {"idle", "asked", "marked", "cancelling", "left",
                                        "recounting", "done"}, used : Nat]]
      /\ NoRowYet /\ UndecidedIsPending
    BY DEF SerialInv, OverlapInv, TypeOK
<1> USE <1>0 DEF MarkedIsWithdrawn
<1>1. ASSUME UNCHANGED <<leave, withdraw>> PROVE MarkedIsWithdrawn'
    BY <1>1
<1>2. ASSUME NEW l \in Leaves, Insert(l) PROVE MarkedIsWithdrawn'
    BY <1>2 DEF Insert, NoRowYet
<1>3. ASSUME NEW l \in Leaves, Raise(l) PROVE MarkedIsWithdrawn'
    <2>1. withdraw' = withdraw /\ \A m \in Leaves : leave'[m].status = leave[m].status
        BY <1>3 DEF Raise
    <2>2. QED
        BY <2>1
<1>4. ASSUME NEW l \in Leaves, NEW verdict \in {"APPROVED", "REJECTED"}, Decide(l, verdict)
      PROVE  MarkedIsWithdrawn'
    <2>1. withdraw[l].pc \in {"idle", "done"} /\ leave[l].approval = "PENDING"
        BY <1>4 DEF Decide, MayStart, MayDecide, Quiet
    <2>2. leave[l].status = "PENDING"
        BY <2>1 DEF UndecidedIsPending
    <2>3. QED
        BY <1>4, <2>1, <2>2 DEF Decide
<1>5. ASSUME NEW l \in Leaves, AskToWithdraw(l) \/ MarkWithdrawn(l) PROVE MarkedIsWithdrawn'
    <2>1. CASE AskToWithdraw(l)
        BY <2>1 DEF AskToWithdraw, GoTo
    <2>2. CASE MarkWithdrawn(l)
        BY <2>2 DEF MarkWithdrawn, GoTo
    <2>3. QED
        BY <1>5, <2>1, <2>2
<1>6. ASSUME NEW l \in Leaves, FindRun(l) PROVE MarkedIsWithdrawn'
    BY <1>6 DEF FindRun, GoTo
<1>7. ASSUME NEW l \in Leaves, CancelRun(l) PROVE MarkedIsWithdrawn'
    BY <1>7 DEF CancelRun, GoTo
<1>8. ASSUME NEW l \in Leaves, RecountWithdrawn(l) \/ FinishWithdraw(l) PROVE MarkedIsWithdrawn'
    <2>1. CASE RecountWithdrawn(l)
        BY <2>1 DEF RecountWithdrawn, GoTo, Count
    <2>2. CASE FinishWithdraw(l)
        BY <2>2 DEF FinishWithdraw, GoTo
    <2>3. QED
        BY <1>8, <2>1, <2>2
<1>9. ASSUME NEW l \in Leaves, BeginSubmit(l) \/ Check(l) \/ Recount(l) \/ FinishSubmit(l)
      PROVE  MarkedIsWithdrawn'
    BY <1>1, <1>9 DEF BeginSubmit, Check, Recount, FinishSubmit
<1>10. ASSUME NEW e \in Encashments,
              CheckEncash(e) \/ InsertEncash(e) \/ ApproveEncash(e) \/ RejectEncash(e)
       PROVE  MarkedIsWithdrawn'
    BY <1>1, <1>10 DEF CheckEncash, InsertEncash, ApproveEncash, RejectEncash
<1>11. ASSUME \/ BeginView \/ FinishView \/ LoadEnded \/ LapseRest \/ CapRest \/ NextPeriod
              \/ UNCHANGED vars
       PROVE  MarkedIsWithdrawn'
    BY <1>1, <1>11 DEF BeginView, FinishView, LoadEnded, LapseRest, CapRest, NextPeriod, vars
<1>12. QED
    BY <1>2, <1>3, <1>4, <1>5, <1>6, <1>7, <1>8, <1>9, <1>10, <1>11 DEF Next

\* Served one at a time, a leave stays withdrawn once withdraw_leave_request has
\* returned, whether or not its run was decided before.
THEOREM WithdrawalsStay == ASSUME Serial PROVE Spec => []WithdrawnStays
<1>1. Init => MarkedIsWithdrawn
    BY DEF Init, MarkedIsWithdrawn
<1>2. MarkedIsWithdrawn => WithdrawnStays
    BY DEF MarkedIsWithdrawn, WithdrawnStays
<1>3. SerialInv /\ [Next]_vars => SerialInv'
    BY SerialKept
<1>4. SerialInv /\ MarkedIsWithdrawn /\ [Next]_vars => MarkedIsWithdrawn'
    BY MarkedKept
<1>5. QED
    BY SerialInitially, <1>1, <1>2, <1>3, <1>4, PTL DEF Spec

\* Every step keeps refused encashments free of debits: a request is decided once.
LEMMA RefusedKept ==
    ASSUME Serial
    PROVE  TypeOK /\ RefusedIsNotDebited /\ [Next]_vars => RefusedIsNotDebited'
<1> SUFFICES ASSUME TypeOK, RefusedIsNotDebited, [Next]_vars
             PROVE  RefusedIsNotDebited'
    OBVIOUS
<1>0. /\ encash \in [Encashments -> {"NONE", "CHECKED", "PENDING", "APPROVED", "REJECTED"}]
      /\ debits \in [Encashments -> Nat]
    BY DEF TypeOK
<1> USE <1>0 DEF RefusedIsNotDebited
<1>1. ASSUME UNCHANGED <<encash, debits>> PROVE RefusedIsNotDebited'
    BY <1>1
<1>2. ASSUME NEW e \in Encashments, CheckEncash(e) PROVE RefusedIsNotDebited'
    BY <1>2 DEF CheckEncash
<1>3. ASSUME NEW e \in Encashments, InsertEncash(e) PROVE RefusedIsNotDebited'
    BY <1>3 DEF InsertEncash
<1>4. ASSUME NEW e \in Encashments, ApproveEncash(e) PROVE RefusedIsNotDebited'
    <2>1. encash' = [encash EXCEPT ![e] = "APPROVED"]
        BY <1>4 DEF ApproveEncash
    <2>2. debits' = [debits EXCEPT ![e] = 1] \/ debits' = debits
        BY <1>4 DEF ApproveEncash
    <2>3. \A f \in Encashments : f # e => encash'[f] = encash[f] /\ debits'[f] = debits[f]
        BY <2>1, <2>2
    <2>4. encash'[e] = "APPROVED"
        BY <2>1
    <2>5. QED
        BY <2>3, <2>4
<1>5. ASSUME NEW e \in Encashments, RejectEncash(e) PROVE RefusedIsNotDebited'
    <2>1. encash[e] = "PENDING"
        BY <1>5 DEF RejectEncash, MayDecide
    <2>2. QED
        BY <1>5, <2>1 DEF RejectEncash
<1>6. ASSUME NEW l \in Leaves,
             \/ BeginSubmit(l) \/ Check(l) \/ Insert(l) \/ Raise(l) \/ Recount(l)
             \/ FinishSubmit(l)
             \/ \E verdict \in {"APPROVED", "REJECTED"} : Decide(l, verdict)
             \/ AskToWithdraw(l) \/ MarkWithdrawn(l) \/ FindRun(l) \/ CancelRun(l)
             \/ RecountWithdrawn(l) \/ FinishWithdraw(l)
      PROVE  RefusedIsNotDebited'
    BY <1>1, <1>6 DEF BeginSubmit, Check, Insert, Raise, Recount, FinishSubmit, Decide,
       AskToWithdraw, MarkWithdrawn, FindRun, CancelRun, RecountWithdrawn, FinishWithdraw
<1>7. ASSUME \/ BeginView \/ FinishView \/ LoadEnded \/ LapseRest \/ CapRest \/ NextPeriod
             \/ UNCHANGED vars
      PROVE  RefusedIsNotDebited'
    BY <1>1, <1>7 DEF BeginView, FinishView, LoadEnded, LapseRest, CapRest, NextPeriod, vars
<1>8. QED
    BY <1>2, <1>3, <1>4, <1>5, <1>6, <1>7 DEF Next

\* Served one at a time, no day is debited for an encashment that was refused.
THEOREM RefusalsDebitNothing == ASSUME Serial PROVE Spec => []RefusedIsNotDebited
<1>1. Init => RefusedIsNotDebited
    BY DEF Init, RefusedIsNotDebited
<1>2. TypeOK /\ RefusedIsNotDebited /\ [Next]_vars => RefusedIsNotDebited'
    BY RefusedKept
<1>3. QED
    BY InitTyped, TypesKept, <1>1, <1>2, PTL DEF Spec

----------------------------------------------------------------------------
(* What the nightly task expires, however requests overlap.                 *)

\* No row shows more than the credit, the task lapses nothing but credit, and once
LapseInv ==
    /\ bal.credited <= CreditFor(period)
    /\ job.row.credited <= CreditFor(period)
    /\ expired.count = 0 => expired.total = 0
    /\ NoDayLapsesTwice

\* Days are only lapsed from a row that was credited.
LEMMA LapseBounded ==
    ASSUME NEW b \in Balances, NEW c \in Nat, b.credited <= c
    PROVE  AtLeastZero(Available(b)) \in Nat /\ AtLeastZero(Available(b)) <= Carried + c
<1>1. b.credited \in Nat /\ b.used \in Nat /\ b.pending \in Nat /\ Carried \in Nat
    BY LeaveAssumption DEF Balances
<1>2. Available(b) = Carried + b.credited - b.used - b.pending
    BY DEF Available
<1>3. Available(b) \in Int /\ Available(b) <= Carried + c
    BY <1>1, <1>2
<1>4. QED
    BY <1>1, <1>3 DEF AtLeastZero

\* A recomputed row is credited no more than the period gives.
LEMMA FoundCredited ==
    ASSUME period \in Nat, NEW used \in Nat
    PROVE  Found(used).credited <= CreditFor(period)
<1> DEFINE pending == Total[InStatus("PENDING")]
<1>1. CreditFor(period) \in Nat /\ MaxBalance \in Nat /\ Carried \in Nat /\ pending \in Nat
    BY CreditGrows, StatusesPartition, LeaveAssumption
<1>2. Found(used).credited
        = AtLeastZero(Lesser(CreditFor(period), MaxBalance - Carried + used + pending))
    BY DEF Found, Recomputed
<1>3. QED
    BY <1>1, <1>2 DEF AtLeastZero, Lesser

\* Every step keeps it: a row from which days have expired lapses no more.
LEMMA LapseKept == TypeOK /\ LapseInv /\ [Next]_vars => LapseInv'
<1> SUFFICES ASSUME TypeOK, LapseInv, [Next]_vars
             PROVE  LapseInv'
    OBVIOUS
<1>0. /\ period \in Nat /\ bal \in Balances /\ job.row \in Balances
      /\ expired \in [count : Nat, total : Nat]
      /\ CreditFor(period) \in Nat /\ Carried \in Nat
    BY CreditGrows, LeaveAssumption DEF TypeOK
<1>1. ASSUME bal'.credited <= CreditFor(period), UNCHANGED <<period, job, expired>>
      PROVE  LapseInv'
    BY <1>1 DEF LapseInv, NoDayLapsesTwice, CreditFor
<1>2. ASSUME UNCHANGED <<bal, period, job, expired>> PROVE LapseInv'
    BY <1>1, <1>2 DEF LapseInv
<1>3. ASSUME NEW l \in Leaves, Check(l) \/ FinishSubmit(l) \/ FinishWithdraw(l) PROVE LapseInv'
    <2>1. submit[l].used \in Nat /\ withdraw[l].used \in Nat
        BY DEF TypeOK
    <2>2. bal' = Found(submit[l].used) \/ bal' = Found(withdraw[l].used)
        BY <1>3 DEF Check, FinishSubmit, FinishWithdraw
    <2>3. bal'.credited <= CreditFor(period)
        BY <1>0, <2>1, <2>2, FoundCredited
    <2>4. UNCHANGED <<period, job, expired>>
        BY <1>3 DEF Check, FinishSubmit, FinishWithdraw
    <2>5. QED
        BY <1>1, <2>3, <2>4
<1>4. ASSUME FinishView PROVE LapseInv'
    <2>1. view.used \in Nat
        BY DEF TypeOK
    <2>2. bal'.credited <= CreditFor(period)
        BY <1>0, <1>4, <2>1, FoundCredited DEF FinishView
    <2>3. QED
        BY <1>1, <1>4, <2>2 DEF FinishView
<1>5. ASSUME NEW e \in Encashments, ApproveEncash(e) PROVE LapseInv'
    <2>1. bal' = [bal EXCEPT !.used = @ + Debited[{e}]] \/ bal' = bal
        BY <1>5 DEF ApproveEncash
    <2>2. bal'.credited = bal.credited
        BY <1>0, <2>1 DEF Balances
    <2>3. QED
        BY <1>1, <1>5, <2>2 DEF ApproveEncash, LapseInv
<1>6. ASSUME LoadEnded PROVE LapseInv'
    <2>1. job'.row = bal /\ UNCHANGED <<bal, period, expired>>
        BY <1>6 DEF LoadEnded
    <2>2. QED
        BY <2>1 DEF LapseInv, NoDayLapsesTwice, CreditFor
<1>7. ASSUME NEW n \in Nat, Expire(n), job' = NoRow, period' = period PROVE
             /\ bal'.credited <= CreditFor(period') /\ job'.row.credited <= CreditFor(period')
             /\ (expired'.count = 0 => expired'.total = 0)
             /\ expired'.total = expired.total + n
    <2>1. CreditFor(period') = CreditFor(period) /\ job'.row.credited = 0
        BY <1>7 DEF CreditFor, NoRow, NewRow
    <2>2. bal.credited <= CreditFor(period) /\ job.row.credited <= CreditFor(period)
        BY DEF LapseInv
    <2>3. job.row.credited \in Nat /\ bal.credited \in Nat
        BY <1>0 DEF Balances
    <2>4. AtLeastZero(job.row.credited - n) <= CreditFor(period)
        BY <1>0, <1>7, <2>2, <2>3 DEF AtLeastZero
    <2>5. CASE n = 0
        BY <1>0, <1>7, <2>1, <2>2, <2>5 DEF Expire, LapseInv
    <2>6. CASE n > 0
        <3>1. /\ expired' = [count |-> expired.count + 1, total |-> expired.total + n]
              /\ bal' = [bal EXCEPT !.credited = AtLeastZero(job.row.credited - n)]
            BY <1>7, <2>6 DEF Expire
        <3>2. bal'.credited = AtLeastZero(job.row.credited - n)
            BY <1>0, <3>1 DEF Balances
        <3>3. expired'.count > 0 /\ expired'.total = expired.total + n
            BY <1>0, <3>1
        <3>4. QED
            BY <1>0, <2>1, <2>4, <3>2, <3>3
    <2>7. QED
        BY <1>7, <2>5, <2>6
<1>8. ASSUME LapseRest PROVE LapseInv'
    <2> DEFINE n == IF expired.count > 0 THEN 0 ELSE AtLeastZero(Available(job.row))
    <2>1. n \in Nat /\ n <= Carried + CreditFor(period)
        BY <1>0, LapseBounded DEF LapseInv
    <2>2. Expire(n) /\ job' = NoRow /\ period' = period
        BY <1>8 DEF LapseRest
    <2>3. expired.count > 0 \/ expired.total = 0
        BY <1>0 DEF LapseInv
    <2>4. expired.total \in Nat /\ (expired.count > 0 => n = 0)
        BY <1>0
    <2> HIDE DEF n
    <2>5. expired'.total = expired.total + n
        BY <1>7, <2>1, <2>2
    <2>6. CarryMode = "NONE" => expired.total <= Carried + CreditFor(period)
        BY DEF LapseInv, NoDayLapsesTwice
    <2>7. NoDayLapsesTwice'
        <3>1. CreditFor(period') = CreditFor(period)
            BY <2>2 DEF CreditFor
        <3>2. CASE expired.count > 0
            BY <2>4, <2>5, <2>6, <3>1, <3>2 DEF NoDayLapsesTwice, CreditFor
        <3>3. CASE expired.total = 0
            BY <2>1, <2>5, <3>1, <3>3 DEF NoDayLapsesTwice, CreditFor
        <3>4. QED
            BY <2>3, <3>2, <3>3
    <2>8. QED
        BY <1>7, <2>1, <2>2, <2>7 DEF LapseInv, CreditFor
<1>9. ASSUME CapRest PROVE LapseInv'
    <2>1. Excess(job.row) \in Nat
        BY <1>0, AvailableIsInteger, LeaveAssumption DEF AtLeastZero, Excess
    <2>2. Expire(Excess(job.row)) /\ job' = NoRow /\ period' = period
        BY <1>9 DEF CapRest
    <2>3. NoDayLapsesTwice'
        BY <1>9 DEF CapRest, NoDayLapsesTwice
    <2>4. QED
        BY <1>7, <2>1, <2>2, <2>3 DEF LapseInv, CreditFor
<1>10. ASSUME NextPeriod PROVE LapseInv'
    <2>1. period' = period + 1 /\ UNCHANGED <<bal, job, expired>>
        BY <1>10 DEF NextPeriod
    <2>2. CreditFor(period + 1) \in Nat /\ CreditFor(period) <= CreditFor(period + 1)
        BY <1>0, CreditGrows
    <2>3. bal.credited \in Nat /\ job.row.credited \in Nat /\ expired.total \in Nat
        BY <1>0 DEF Balances
    <2>4. CreditFor(period)' = CreditFor(period + 1)
        BY <2>1 DEF CreditFor
    <2>5. QED
        BY <1>0, <2>1, <2>2, <2>3, <2>4 DEF LapseInv, NoDayLapsesTwice
<1>11. ASSUME NEW l \in Leaves,
              \/ BeginSubmit(l) \/ Insert(l) \/ Raise(l) \/ Recount(l)
              \/ \E verdict \in {"APPROVED", "REJECTED"} : Decide(l, verdict)
              \/ AskToWithdraw(l) \/ MarkWithdrawn(l) \/ FindRun(l) \/ CancelRun(l)
              \/ RecountWithdrawn(l)
       PROVE  LapseInv'
    BY <1>2, <1>11 DEF BeginSubmit, Insert, Raise, Recount, Decide, AskToWithdraw,
       MarkWithdrawn, FindRun, CancelRun, RecountWithdrawn
<1>12. ASSUME NEW e \in Encashments, CheckEncash(e) \/ InsertEncash(e) \/ RejectEncash(e)
       PROVE  LapseInv'
    BY <1>2, <1>12 DEF CheckEncash, InsertEncash, RejectEncash
<1>13. ASSUME BeginView \/ UNCHANGED vars PROVE LapseInv'
    BY <1>2, <1>13 DEF BeginView, vars
<1>14. QED
    BY <1>3, <1>4, <1>5, <1>6, <1>8, <1>9, <1>10, <1>11, <1>12, <1>13 DEF Next

\* Where nothing is carried forward, the nightly task never expires more days than
\* the cycle ever had, however requests overlap it and however often it runs.
THEOREM DaysLapseOnce == Spec => []NoDayLapsesTwice
<1>1. Init => LapseInv
    <2> SUFFICES ASSUME Init PROVE LapseInv
        OBVIOUS
    <2>1. CreditFor(1) \in Nat /\ Carried \in Nat
        BY CreditGrows, LeaveAssumption
    <2>2. period = 1 /\ bal.credited = 0 /\ job.row.credited = 0 /\ expired.total = 0
        BY DEF Init, NoRow, NewRow
    <2>3. QED
        BY <2>1, <2>2 DEF LapseInv, NoDayLapsesTwice
<1>2. LapseInv => NoDayLapsesTwice
    BY DEF LapseInv
<1>3. QED
    BY InitTyped, TypesKept, LapseKept, <1>1, <1>2, PTL DEF Spec

----------------------------------------------------------------------------
(* Requests served one at a time implement LeaveEntitlement.               *)

\* Only a request with a row is withdrawn
AskedHasRow == \A l \in Leaves : withdraw[l].pc # "idle" => leave[l].status # "NONE"

\* Every step keeps it: no row is ever taken back.
LEMMA RowsStay ==
    SerialInv /\ AskedHasRow /\ [Next]_vars => AskedHasRow'
<1> SUFFICES ASSUME SerialInv, AskedHasRow, [Next]_vars
             PROVE  AskedHasRow'
    OBVIOUS
<1>0. /\ leave \in [Leaves -> [status : LeaveStatus, approval : RunStatus]]
      /\ withdraw \in [Leaves -> [pc : {"idle", "asked", "marked", "cancelling", "left",
                                        "recounting", "done"}, used : Nat]]
    BY DEF SerialInv, OverlapInv, TypeOK
<1> USE <1>0 DEF AskedHasRow
<1>1. ASSUME \A l \in Leaves : leave'[l].status = "NONE" => leave[l].status = "NONE",
             \A l \in Leaves : withdraw'[l].pc # "idle" =>
                 withdraw[l].pc # "idle" \/ leave[l].status # "NONE"
      PROVE  AskedHasRow'
    BY <1>1
<1>2. ASSUME NEW l \in Leaves, Insert(l) PROVE AskedHasRow'
    BY <1>1, <1>2 DEF Insert
<1>3. ASSUME NEW l \in Leaves, Raise(l) PROVE AskedHasRow'
    <2>1. withdraw' = withdraw /\ \A m \in Leaves : leave'[m].status = leave[m].status
        BY <1>3 DEF Raise
    <2>2. QED
        BY <1>1, <2>1
<1>4. ASSUME NEW l \in Leaves, NEW verdict \in {"APPROVED", "REJECTED"}, Decide(l, verdict)
      PROVE  AskedHasRow'
    BY <1>1, <1>4 DEF Decide
<1>5. ASSUME NEW l \in Leaves, AskToWithdraw(l) PROVE AskedHasRow'
    BY <1>1, <1>5 DEF AskToWithdraw, GoTo
<1>6. ASSUME NEW l \in Leaves, MarkWithdrawn(l) PROVE AskedHasRow'
    BY <1>1, <1>6 DEF MarkWithdrawn, GoTo
<1>7. ASSUME NEW l \in Leaves, FindRun(l) PROVE AskedHasRow'
    BY <1>1, <1>7 DEF FindRun, GoTo
<1>8. ASSUME NEW l \in Leaves, CancelRun(l) PROVE AskedHasRow'
    BY <1>1, <1>8 DEF CancelRun, GoTo
<1>9. ASSUME NEW l \in Leaves, RecountWithdrawn(l) \/ FinishWithdraw(l) PROVE AskedHasRow'
    <2>1. CASE RecountWithdrawn(l)
        BY <1>1, <2>1 DEF RecountWithdrawn, GoTo, Count
    <2>2. CASE FinishWithdraw(l)
        BY <1>1, <2>2 DEF FinishWithdraw, GoTo
    <2>3. QED
        BY <1>9, <2>1, <2>2
<1>10. CASE UNCHANGED <<leave, withdraw>>
    BY <1>1, <1>10
<1>11. QED
    BY <1>2, <1>3, <1>4, <1>5, <1>6, <1>7, <1>8, <1>9, <1>10
       DEF Next, BeginSubmit, Check, Recount, FinishSubmit, CheckEncash, InsertEncash,
           ApproveEncash, RejectEncash, BeginView, FinishView, LoadEnded, LapseRest, CapRest,
           NextPeriod, vars

\* A step after which every request has the status it had leaves the entitlement alone.
LEMMA NothingMoves ==
    ASSUME \A l \in Leaves : leave'[l].status = leave[l].status, period' = period
    PROVE  UNCHANGED Entitlement!evars
<1>1. ASSUME NEW s PROVE InStatus(s)' = InStatus(s)
    BY DEF InStatus
<1>2. (Carried + CreditFor(period))' = Carried + CreditFor(period)
    BY DEF CreditFor
<1>3. QED
    BY <1>1, <1>2 DEF Entitlement!evars

\* A request that takes another status moves between the requests of the two.
LEMMA OneMoves ==
    ASSUME NEW l \in Leaves, NEW t, leave'[l].status = t,
           \A m \in Leaves : m # l => leave'[m].status = leave[m].status,
           period' = period
    PROVE  /\ \A s : InStatus(s)' = IF s = t THEN InStatus(s) \cup {l} ELSE InStatus(s) \ {l}
           /\ (Carried + CreditFor(period))' = Carried + CreditFor(period)
<1>1. ASSUME NEW s, s = t PROVE InStatus(s)' = InStatus(s) \cup {l}
    BY <1>1 DEF InStatus
<1>2. ASSUME NEW s, s # t PROVE InStatus(s)' = InStatus(s) \ {l}
    BY <1>2 DEF InStatus
<1>3. QED
    BY <1>1, <1>2 DEF CreditFor

\* A checked request is inserted within the entitlement.
LEMMA InsertAsks ==
    ASSUME SerialInv, NEW l \in Leaves, Insert(l)
    PROVE  Entitlement!Ask(l)
<1>1. submit[l].pc = "checked" /\ leave[l].status = "NONE"
    BY DEF Insert, SerialInv, NoRowYet
<1>2. /\ leave'[l].status = "PENDING" /\ period' = period
      /\ \A m \in Leaves : m # l => leave'[m].status = leave[m].status
    BY DEF Insert, SerialInv, OverlapInv, TypeOK
<1>3. \A s : s # "NONE" => l \notin InStatus(s)
    BY <1>1 DEF InStatus
<1>4. Total[InStatus("PENDING") \cup InStatus("APPROVED") \cup {l}]
        <= Carried + CreditFor(period)
    <2>1. Active \in SUBSET Leaves /\ {l} \in SUBSET Leaves /\ Active \cap {l} = {}
        BY <1>3, ActiveDays DEF Active
    <2>2. Total[Active \cup {l}] = Total[Active] + Units(l)
        BY <2>1, LeaveAssumption DEF Units
    <2>3. Total[Active] + Units(l) <= Carried + CreditFor(period)
        BY <1>1 DEF SerialInv, CheckedFits
    <2>4. QED
        BY <2>2, <2>3 DEF Active
<1>5. /\ InStatus("PENDING")' = InStatus("PENDING") \cup {l}
      /\ InStatus("APPROVED")' = InStatus("APPROVED") \ {l}
      /\ InStatus("REJECTED")' = InStatus("REJECTED") \ {l}
      /\ InStatus("WITHDRAWN")' = InStatus("WITHDRAWN") \ {l}
      /\ (Carried + CreditFor(period))' = Carried + CreditFor(period)
    BY <1>2, OneMoves
<1>6. QED
    BY <1>3, <1>4, <1>5 DEF Entitlement!Ask

\* A verdict grants or closes a request that was asked for.
LEMMA VerdictAnswers ==
    ASSUME Serial, SerialInv, NEW l \in Leaves, NEW verdict \in {"APPROVED", "REJECTED"},
           Decide(l, verdict)
    PROVE  Entitlement!Grant(l) \/ Entitlement!Close(l)
<1>1. leave[l].status = "PENDING"
    <2>1. withdraw[l].pc \in {"idle", "done"} /\ leave[l].approval = "PENDING"
        BY DEF Decide, MayStart, MayDecide, Quiet
    <2>2. QED
        BY <2>1 DEF SerialInv, UndecidedIsPending
<1>2. /\ leave'[l].status = verdict /\ period' = period
      /\ \A m \in Leaves : m # l => leave'[m].status = leave[m].status
    BY DEF Decide, SerialInv, OverlapInv, TypeOK
<1>3. l \in InStatus("PENDING") /\ \A s : s # "PENDING" => l \notin InStatus(s)
    BY <1>1 DEF InStatus
<1>4. CASE verdict = "APPROVED"
    <2>1. /\ InStatus("PENDING")' = InStatus("PENDING") \ {l}
          /\ InStatus("APPROVED")' = InStatus("APPROVED") \cup {l}
          /\ InStatus("REJECTED")' = InStatus("REJECTED") \ {l}
          /\ InStatus("WITHDRAWN")' = InStatus("WITHDRAWN") \ {l}
          /\ (Carried + CreditFor(period))' = Carried + CreditFor(period)
        BY <1>2, <1>4, OneMoves
    <2>2. QED
        BY <1>3, <2>1 DEF Entitlement!Grant
<1>5. CASE verdict = "REJECTED"
    <2>1. /\ InStatus("PENDING")' = InStatus("PENDING") \ {l}
          /\ InStatus("APPROVED")' = InStatus("APPROVED") \ {l}
          /\ InStatus("REJECTED")' = InStatus("REJECTED") \cup {l}
          /\ InStatus("WITHDRAWN")' = InStatus("WITHDRAWN") \ {l}
          /\ (Carried + CreditFor(period))' = Carried + CreditFor(period)
        BY <1>2, <1>5, OneMoves
    <2>2. QED
        BY <1>3, <2>1 DEF Entitlement!Close
<1>6. QED
    BY <1>4, <1>5

\* A withdrawal closes the request, unless a verdict has closed it before.
LEMMA WithdrawalCloses ==
    ASSUME SerialInv, AskedHasRow, NEW l \in Leaves, MarkWithdrawn(l)
    PROVE  Entitlement!Close(l) \/ UNCHANGED Entitlement!evars
<1>1. /\ leave[l].status \in LeaveStatus \ {"NONE"}
      /\ leave'[l].status = "WITHDRAWN" /\ period' = period
      /\ \A m \in Leaves : m # l => leave'[m].status = leave[m].status
    BY DEF MarkWithdrawn, AskedHasRow, SerialInv, OverlapInv, TypeOK
<1>2. /\ InStatus("PENDING")' = InStatus("PENDING") \ {l}
      /\ InStatus("APPROVED")' = InStatus("APPROVED") \ {l}
      /\ InStatus("REJECTED")' = InStatus("REJECTED") \ {l}
      /\ InStatus("WITHDRAWN")' = InStatus("WITHDRAWN") \cup {l}
      /\ (Carried + CreditFor(period))' = Carried + CreditFor(period)
    BY <1>1, OneMoves
<1>3. l \in InStatus(leave[l].status)
    BY DEF InStatus
<1>4. CASE leave[l].status \in {"PENDING", "APPROVED"}
    BY <1>2, <1>3, <1>4 DEF Entitlement!Close
<1>5. CASE leave[l].status \in {"REJECTED", "WITHDRAWN"}
    <2>1. l \notin InStatus("PENDING") /\ l \notin InStatus("APPROVED")
        BY <1>5 DEF InStatus
    <2>2. l \in InStatus("REJECTED") \cup InStatus("WITHDRAWN")
        BY <1>3, <1>5
    <2>3. QED
        BY <1>2, <2>1, <2>2 DEF Entitlement!evars
<1>6. QED
    BY <1>1, <1>4, <1>5 DEF LeaveStatus

\* Every step is one of LeaveEntitlement, or changes nothing of it.
LEMMA StepEntitles ==
    ASSUME Serial, SerialInv, MarkedIsWithdrawn, AskedHasRow, [Next]_vars
    PROVE  [Entitlement!ENext]_(Entitlement!evars)
<1>0. leave \in [Leaves -> [status : LeaveStatus, approval : RunStatus]] /\ period \in Nat
    BY LeaveAssumption DEF SerialInv, OverlapInv, TypeOK
<1>1. ASSUME NEW l \in Leaves, Insert(l) PROVE Entitlement!ENext
    BY <1>1, InsertAsks DEF Entitlement!ENext
<1>2. ASSUME NEW l \in Leaves, NEW verdict \in {"APPROVED", "REJECTED"}, Decide(l, verdict)
      PROVE  Entitlement!ENext
    BY <1>2, VerdictAnswers DEF Entitlement!ENext
<1>3. ASSUME NEW l \in Leaves, MarkWithdrawn(l)
      PROVE  [Entitlement!ENext]_(Entitlement!evars)
    BY <1>3, WithdrawalCloses DEF Entitlement!ENext
<1>4. ASSUME NEW l \in Leaves, Raise(l) PROVE UNCHANGED Entitlement!evars
    <2>1. period' = period /\ \A m \in Leaves : leave'[m].status = leave[m].status
        BY <1>0, <1>4 DEF Raise
    <2>2. QED
        BY <2>1, NothingMoves
<1>5. ASSUME NEW l \in Leaves, CancelRun(l) PROVE UNCHANGED Entitlement!evars
    <2>1. leave[l].status = "WITHDRAWN"
        BY <1>5 DEF CancelRun, MarkedIsWithdrawn
    <2>2. period' = period /\ \A m \in Leaves : leave'[m].status = leave[m].status
        BY <1>0, <1>5, <2>1 DEF CancelRun
    <2>3. QED
        BY <2>2, NothingMoves
<1>6. ASSUME NextPeriod PROVE Entitlement!ENext
    <2>1. UNCHANGED leave /\ period' = period + 1
        BY <1>6 DEF NextPeriod
    <2>2. ASSUME NEW s PROVE InStatus(s)' = InStatus(s)
        BY <2>1 DEF InStatus
    <2>3. PICK now \in Nat, then \in Nat : /\ now = CreditFor(period)
                                           /\ then = CreditFor(period + 1) /\ now <= then
        BY <1>0, CreditGrows
    <2>4. CreditFor(period)' = then
        BY <2>1, <2>3 DEF CreditFor
    <2>5. Entitlement!Accrue
        BY <2>2, <2>3, <2>4, LeaveAssumption DEF Entitlement!Accrue
    <2>6. QED
        BY <2>5 DEF Entitlement!ENext
<1>7. CASE UNCHANGED <<leave, period>>
    BY <1>7, NothingMoves
<1>8. QED
    BY <1>1, <1>2, <1>3, <1>4, <1>5, <1>6, <1>7
       DEF Next, BeginSubmit, Check, Recount, FinishSubmit, AskToWithdraw, FindRun,
           RecountWithdrawn, FinishWithdraw, CheckEncash, InsertEncash, ApproveEncash,
           RejectEncash, BeginView, FinishView, LoadEnded, LapseRest, CapRest, vars

\* Served one at a time, the transactions of create_leave_request, withdraw_leave_request,
\* the engine and the tasks implement LeaveEntitlement: days are asked for within what is
\* credited, and a request that was refused or withdrawn never counts again.
THEOREM LeaveIsEntitled == ASSUME Serial PROVE Spec => ImplementsEntitlement
<1>1. Init => Entitlement!EInit /\ MarkedIsWithdrawn /\ AskedHasRow
    <2> SUFFICES ASSUME Init
                 PROVE  Entitlement!EInit /\ MarkedIsWithdrawn /\ AskedHasRow
        OBVIOUS
    <2>1. \A l \in Leaves : leave[l].status = "NONE" /\ withdraw[l].pc = "idle"
        BY DEF Init
    <2>2. Carried + CreditFor(period) \in Nat
        BY CreditGrows, LeaveAssumption DEF Init
    <2>3. QED
        BY <2>1, <2>2 DEF Entitlement!EInit, MarkedIsWithdrawn, AskedHasRow, InStatus
<1>2. SerialInv /\ [Next]_vars => SerialInv'
    BY SerialKept
<1>3. SerialInv /\ MarkedIsWithdrawn /\ [Next]_vars => MarkedIsWithdrawn'
    BY MarkedKept
<1>4. SerialInv /\ AskedHasRow /\ [Next]_vars => AskedHasRow'
    BY RowsStay
<1>5. SerialInv /\ MarkedIsWithdrawn /\ AskedHasRow /\ [Next]_vars
        => [Entitlement!ENext]_(Entitlement!evars)
    BY StepEntitles
<1>6. QED
    BY SerialInitially, <1>1, <1>2, <1>3, <1>4, <1>5, PTL
       DEF Spec, ImplementsEntitlement, Entitlement!ESpec
=============================================================================
