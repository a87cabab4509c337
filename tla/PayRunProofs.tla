---------------------------- MODULE PayRunProofs ----------------------------
(***************************************************************************)
(* Proofs about PayRun, for every set of runs, claims and approval runs.   *)
(* The types and IncludedIsOwed hold however requests overlap; the rest    *)
(* follows for requests that are served one at a time, and do not die half *)
(* way where that is said.                                                 *)
(***************************************************************************)
EXTENDS PayRun, TLAPS

(***************************************************************************)
(* The inductive invariants.                                               *)
(***************************************************************************)

\* What the types leave open: an approval run that was raised is that of a pay run,
\* a process holds the approval run it works on, and a calculation is counted
HandlesTyped ==
    /\ \A a \in Approvals : approval[a].status # "NONE" => approval[a].run \in Runs
    /\ \A r \in Runs :
          calc[r].pc = "cancelling" =>
              calc[r].approval \in Approvals /\ approval[calc[r].approval].status # "NONE"
    /\ \A r \in Runs : submit[r].pc = "raised" => submit[r].approval \in Approvals
    /\ \A r \in Runs : calc[r].pc # "idle" => run[r].version < MaxCalcs

\* What holds however requests overlap
OverlapInv == TypeOK /\ HandlesTyped /\ IncludedIsOwed

\* One request or task is being served at most
OneAtATime ==
    /\ \A c, d \in Claims : posts[c] > 0 /\ posts[d] > 0 => c = d
    /\ \A r, q \in Runs : calc[r].pc # "idle" /\ calc[q].pc # "idle" => r = q
    /\ \A r, q \in Runs : submit[r].pc # "idle" /\ submit[q].pc # "idle" => r = q
    /\ \A r, q \in Runs : finalize[r] # "idle" /\ finalize[q] # "idle" => r = q
    /\ \A c \in Claims, r \in Runs :
          posts[c] > 0 => calc[r].pc = "idle" /\ submit[r].pc = "idle" /\ finalize[r] = "idle"
    /\ \A r, q \in Runs : calc[r].pc # "idle" => submit[q].pc = "idle" /\ finalize[q] = "idle"
    /\ \A r, q \in Runs : submit[r].pc # "idle" => finalize[q] = "idle"

\* What a request has checked is still so when it writes
CheckedClaimFits ==
    \A c \in Claims : posts[c] > 0 => posts[c] = 1 /\ claim[c].status \in {"DRAFT", "REJECTED"}

PendingOn(r) == {a \in Approvals : approval[a].status = "PENDING" /\ approval[a].run = r}

CalcFits ==
    \A r \in Runs :
        /\ calc[r].pc # "idle" => run[r].status \notin {"APPROVED", "FINALIZED"}
        /\ calc[r].pc = "cancelling" =>
              /\ PendingOn(r) \subseteq {calc[r].approval}
              /\ approval[calc[r].approval].status = "PENDING"
        /\ calc[r].pc \in {"ready", "open"} => PendingOn(r) = {}

\* The queue a calculation has read is the queue there is
QueueFits ==
    \A r \in Runs : calc[r].pc = "open" => calc[r].seen \subseteq Waiting \cup Included(r)

SubmitFits == \A r \in Runs : submit[r].pc # "idle" => run[r].status = "CALCULATED"

FinalizeFits == \A r \in Runs : finalize[r] # "idle" => run[r].status = "APPROVED"

\* A run has payslips when it is finalized
IssuedWhenFinalized == \A r \in Runs : run[r].issued <=> run[r].status = "FINALIZED"

\* An approval run that is pending shows the run as it is, and is the one the run
\* waits for, or is about to
PendingIsCurrent ==
    \A r \in Runs : \A a \in PendingOn(r) :
        /\ approval[a].shown = run[r].version
        /\ \/ run[r].status = "APPROVAL_PENDING" /\ run[r].approval = a
           \/ submit[r].pc = "raised" /\ submit[r].approval = a

\* The request that raised an approval run finds it pending
RaisedIsPending ==
    \A r \in Runs : submit[r].pc = "raised" => submit[r].approval \in PendingOn(r)

\* Approvers are shown what has been calculated
ShownBefore ==
    \A a \in Approvals : approval[a].status # "NONE" =>
        approval[a].shown <= run[approval[a].run].version

\* The approval a run has was given to the run as it is
ApprovedByOne ==
    \A r \in Runs : run[r].status \in {"APPROVED", "FINALIZED"} =>
        \E a \in Approvals : /\ approval[a].run = r /\ approval[a].status = "APPROVED"
                             /\ approval[a].shown = run[r].version

\* How a pay run, its approval runs and the requests at work on it are in step
RunInv ==
    /\ CalcFits
    /\ SubmitFits
    /\ FinalizeFits
    /\ IssuedWhenFinalized
    /\ PendingIsCurrent
    /\ RaisedIsPending
    /\ ShownBefore
    /\ ApprovedByOne
    /\ AnswerCounts

\* A claim whose approval run is pending has been submitted
PendingIsSubmitted ==
    \A c \in Claims : claim[c].approval = "PENDING" => claim[c].status = "SUBMITTED"

\* The items of a run without payslips hold the claims that are included in it
ItemsAreIncluded == \A r \in Runs : ~run[r].issued => run[r].items = Included(r)

\* The claims on payslips are paid, and each says by which run
IssuedIsPaid ==
    \A r \in Runs : run[r].issued =>
        \A c \in run[r].items : claim[c].pay = "PAID" /\ claim[c].run = r

\* A claim that says it is paid is on a payslip
PaidIsIssued ==
    \A c \in Claims : claim[c].pay = "PAID" => \E r \in Runs : run[r].issued /\ c \in run[r].items

\* How claims, items and payslips are in step
MoneyInv ==
    /\ QueueFits
    /\ ItemsAreIncluded
    /\ IssuedIsPaid

\* What holds when requests are served one at a time
SerialInv ==
    /\ OverlapInv
    /\ OneAtATime
    /\ CheckedClaimFits
    /\ PendingIsSubmitted
    /\ PayFollowsApproval
    /\ MoneyInv

\* What holds if, besides, no request dies half way
WholeInv ==
    /\ SerialInv
    /\ RunInv
    /\ PaidIsIssued

----------------------------------------------------------------------------
(* What holds however requests overlap.                                    *)

\* The initial rows have their types, and nothing is being served.
LEMMA OverlapInitially == Init => OverlapInv
BY PayAssumption
   DEF Init, OverlapInv, TypeOK, HandlesTyped, IncludedIsOwed, Included, NoCalc, NoSubmit,
       PayRuns, PayrollRunStatus, RunStatus, ClaimStatus, ReimbursementStatus, ApprovalRows,
       ExpenseClaims, Calcs, Submits

\* Writing columns of a pay run keeps the type of the row.
LEMMA RunWritten ==
    ASSUME NEW row \in PayRuns, NEW status \in PayrollRunStatus
    PROVE  /\ \A a \in Approvals : [row EXCEPT !.status = status, !.approval = a] \in PayRuns
           /\ [row EXCEPT !.status = status, !.issued = TRUE] \in PayRuns
           /\ [row EXCEPT !.status = status] \in PayRuns
BY DEF PayRuns

\* What a calculation that commits does to each claim.
LEMMA TakeUpWrites ==
    ASSUME TypeOK, NEW r \in Runs, NEW taken \in SUBSET Claims, NEW c \in Claims
    PROVE  LET new == TakeUp(r, taken)[c]
           IN  /\ new \in ExpenseClaims
               /\ new.status = claim[c].status /\ new.approval = claim[c].approval
               /\ c \in taken => new.pay = "INCLUDED_IN_PAYROLL" /\ new.run = r
               /\ c \notin taken /\ c \in Included(r) =>
                    new.pay = "PENDING_PAYROLL" /\ new.run = NoRun
               /\ c \notin taken /\ c \notin Included(r) => new = claim[c]
<1>1. claim[c] \in ExpenseClaims
    BY DEF TypeOK
<1>2. "INCLUDED_IN_PAYROLL" \in ReimbursementStatus /\ "PENDING_PAYROLL" \in ReimbursementStatus
    BY DEF ReimbursementStatus
<1>3. CASE c \in taken
    <2>1. TakeUp(r, taken)[c] = [claim[c] EXCEPT !.pay = "INCLUDED_IN_PAYROLL", !.run = r]
        BY <1>3 DEF TakeUp
    <2>2. QED
        BY <1>1, <1>2, <1>3, <2>1 DEF ExpenseClaims
<1>4. CASE c \notin taken /\ c \in Included(r)
    <2>1. TakeUp(r, taken)[c] = [claim[c] EXCEPT !.pay = "PENDING_PAYROLL", !.run = NoRun]
        BY <1>4 DEF TakeUp
    <2>2. QED
        BY <1>1, <1>2, <1>4, <2>1 DEF ExpenseClaims
<1>5. CASE c \notin taken /\ c \notin Included(r)
    <2>1. TakeUp(r, taken)[c] = claim[c]
        BY <1>5 DEF TakeUp
    <2>2. QED
        BY <1>1, <1>5, <2>1
<1>6. QED
    BY <1>3, <1>4, <1>5

\* Every step keeps the types, and what approval runs and processes refer to.
LEMMA TypesKept == TypeOK /\ HandlesTyped /\ [Next]_vars => TypeOK' /\ HandlesTyped'
<1> SUFFICES ASSUME TypeOK, HandlesTyped, [Next]_vars
             PROVE  TypeOK' /\ HandlesTyped'
    OBVIOUS
<1>0. MaxCalcs \in Nat /\ MaxPosts \in Nat /\ Waiting \in SUBSET Claims
    BY PayAssumption DEF Waiting
<1> USE <1>0 DEF TypeOK, HandlesTyped, NoCalc, NoSubmit, Verdict
<1>1. ASSUME NEW c \in Claims, CheckClaim(c) PROVE TypeOK' /\ HandlesTyped'
    BY <1>1 DEF CheckClaim
<1>2. ASSUME NEW c \in Claims, SubmitClaim(c) PROVE TypeOK' /\ HandlesTyped'
    <2>1. [claim[c] EXCEPT !.status = "SUBMITTED", !.approval = "PENDING",
                           !.pay = "NOT_READY"] \in ExpenseClaims
        <3>1. claim[c] \in ExpenseClaims
            OBVIOUS
        <3>2. QED
            BY <3>1 DEF ExpenseClaims, ClaimStatus, RunStatus, ReimbursementStatus
    <2>2. claim' \in [Claims -> ExpenseClaims]
        BY <1>2, <2>1 DEF SubmitClaim
    <2>3. posts' \in [Claims -> 0..MaxPosts]
        BY <1>2 DEF SubmitClaim
    <2>4. QED
        BY <1>2, <2>2, <2>3 DEF SubmitClaim
<1>3. ASSUME NEW c \in Claims, CancelClaim(c) PROVE TypeOK' /\ HandlesTyped'
    <2>1. [claim[c] EXCEPT !.status = "CANCELLED"] \in ExpenseClaims
        <3>1. claim[c] \in ExpenseClaims
            OBVIOUS
        <3>2. QED
            BY <3>1 DEF ExpenseClaims, ClaimStatus
    <2>2. claim' \in [Claims -> ExpenseClaims]
        BY <1>3, <2>1 DEF CancelClaim
    <2>3. QED
        BY <1>3, <2>2 DEF CancelClaim
<1>4. ASSUME NEW c \in Claims, NEW verdict \in Verdict, DecideClaim(c, verdict)
      PROVE  TypeOK' /\ HandlesTyped'
    <2> DEFINE pay == IF verdict = "APPROVED" THEN "PENDING_PAYROLL" ELSE "NOT_READY"
    <2>1. [claim[c] EXCEPT !.status = verdict, !.approval = verdict, !.pay = pay]
             \in ExpenseClaims
        <3>1. claim[c] \in ExpenseClaims
            OBVIOUS
        <3>2. QED
            BY <3>1 DEF ExpenseClaims, ClaimStatus, RunStatus, ReimbursementStatus
    <2>2. claim' \in [Claims -> ExpenseClaims]
        BY <1>4, <2>1 DEF DecideClaim
    <2>3. QED
        BY <1>4, <2>2 DEF DecideClaim
<1>5. ASSUME NEW r \in Runs, BeginCalc(r) PROVE TypeOK' /\ HandlesTyped'
    <2> DEFINE a == run[r].approval
               pc == IF a # NoApproval /\ approval[a].status = "PENDING"
                     THEN "cancelling" ELSE "ready"
    <2>1. a \in Approvals \cup {NoApproval}
        BY DEF PayRuns
    <2>2. [pc |-> pc, approval |-> a, seen |-> {}] \in Calcs
        BY <2>1 DEF Calcs
    <2>3. calc' = [calc EXCEPT ![r] = [pc |-> pc, approval |-> a, seen |-> {}]]
        BY <1>5 DEF BeginCalc
    <2>4. calc' \in [Runs -> Calcs]
        BY <2>2, <2>3
    <2>5. pc = "cancelling" => a \in Approvals
        BY <2>1
    <2>6. run[r].version < MaxCalcs /\ UNCHANGED <<run, approval, claim, posts, submit, finalize>>
        BY <1>5 DEF BeginCalc
    <2>7. \A q \in Runs : calc'[q] = IF q = r THEN [pc |-> pc, approval |-> a, seen |-> {}]
                                     ELSE calc[q]
        BY <2>3
    <2> HIDE DEF a, pc
    <2>8. \A q \in Runs : calc'[q].pc # "idle" => run[q].version < MaxCalcs
        BY <2>6, <2>7
    <2>9. pc = "cancelling" => approval[a].status # "NONE"
        BY DEF a, pc
    <2>10. \A q \in Runs : calc'[q].pc = "cancelling" =>
              calc'[q].approval \in Approvals /\ approval[calc'[q].approval].status # "NONE"
        BY <2>5, <2>7, <2>9
    <2>11. QED
        BY <2>4, <2>6, <2>8, <2>10
<1>6. ASSUME NEW r \in Runs, CancelApproval(r) PROVE TypeOK' /\ HandlesTyped'
    <2>1. [approval[calc[r].approval] EXCEPT !.status = "CANCELLED"] \in ApprovalRows
        BY <1>6 DEF CancelApproval, ApprovalRows, RunStatus
    <2>2. [calc[r] EXCEPT !.pc = "ready", !.approval = NoApproval] \in Calcs
        BY DEF Calcs
    <2>3. approval' \in [Approvals -> ApprovalRows] /\ calc' \in [Runs -> Calcs]
        BY <1>6, <2>1, <2>2 DEF CancelApproval
    <2>4. \A a \in Approvals : approval'[a].status # "NONE" => approval'[a].run \in Runs
        <3>1. approval[calc[r].approval].status # "NONE"
                => approval[calc[r].approval].run \in Runs
            BY <1>6 DEF CancelApproval
        <3>2. QED
            BY <1>6, <3>1 DEF CancelApproval
    <2>5. QED
        BY <1>6, <2>3, <2>4 DEF CancelApproval, Calcs
<1>7. ASSUME NEW r \in Runs, OpenCalc(r) PROVE TypeOK' /\ HandlesTyped'
    <2>1. Waiting \cup Included(r) \in SUBSET Claims
        BY DEF Included
    <2>2. [calc[r] EXCEPT !.pc = "open", !.seen = Waiting \cup Included(r)] \in Calcs
        BY <2>1 DEF Calcs
    <2>3. calc' \in [Runs -> Calcs]
        BY <1>7, <2>2 DEF OpenCalc
    <2>4. QED
        BY <1>7, <2>3 DEF OpenCalc, Calcs
<1>8. ASSUME NEW r \in Runs, CommitCalc(r) PROVE TypeOK' /\ HandlesTyped'
    <2>1. PICK taken \in SUBSET calc[r].seen, clean \in BOOLEAN :
             /\ claim' = TakeUp(r, taken)
             /\ run' = [run EXCEPT ![r] =
                          [status |-> "CALCULATED", approval |-> calc[r].approval,
                           items |-> taken, clean |-> clean,
                           version |-> @.version + 1, issued |-> FALSE]]
        BY <1>8 DEF CommitCalc
    <2>2. taken \in SUBSET Claims
        BY DEF Calcs
    <2>3. claim' \in [Claims -> ExpenseClaims]
        <3>1. \A c \in Claims : TakeUp(r, taken)[c] \in ExpenseClaims
            BY <2>2, TakeUpWrites
        <3>2. QED
            BY <2>1, <3>1 DEF TakeUp
    <2>4. run[r].version + 1 \in 0..MaxCalcs /\ calc[r].approval \in Approvals \cup {NoApproval}
        BY <1>8 DEF CommitCalc, PayRuns, Calcs
    <2>5. [status |-> "CALCULATED", approval |-> calc[r].approval, items |-> taken,
           clean |-> clean, version |-> run[r].version + 1, issued |-> FALSE] \in PayRuns
        BY <2>2, <2>4 DEF PayRuns, PayrollRunStatus
    <2>6. /\ run' \in [Runs -> PayRuns]
          /\ calc' = [calc EXCEPT ![r] = NoCalc] /\ NoCalc \in Calcs
          /\ UNCHANGED <<approval, posts, submit, finalize>>
        BY <1>8, <2>1, <2>5 DEF CommitCalc, Calcs
    <2>7. TypeOK'
        BY <2>3, <2>5, <2>6
    <2>8. \A q \in Runs : q # r => run'[q] = run[q]
        BY <2>1
    <2>9. HandlesTyped'
        BY <2>6, <2>8
    <2>10. QED
        BY <2>7, <2>9
<1>9. ASSUME NEW r \in Runs, FailCalc(r) PROVE TypeOK' /\ HandlesTyped'
    <2>1. NoCalc \in Calcs
        BY DEF Calcs
    <2>2. calc' \in [Runs -> Calcs]
        BY <1>9, <2>1 DEF FailCalc
    <2>3. QED
        BY <1>9, <2>2 DEF FailCalc
<1>10. ASSUME NEW r \in Runs, CheckSubmit(r) PROVE TypeOK' /\ HandlesTyped'
    <2>1. [pc |-> "checked", approval |-> NoApproval] \in Submits
        BY DEF Submits
    <2>2. submit' \in [Runs -> Submits]
        BY <1>10, <2>1 DEF CheckSubmit
    <2>3. QED
        BY <1>10, <2>2 DEF CheckSubmit
<1>11. ASSUME NEW r \in Runs, RaiseApproval(r) PROVE TypeOK' /\ HandlesTyped'
    <2>1. CASE submit' = [submit EXCEPT ![r] = NoSubmit] /\ UNCHANGED approval
        <3>1. submit' \in [Runs -> Submits]
            BY <2>1 DEF Submits
        <3>2. QED
            BY <1>11, <2>1, <3>1 DEF RaiseApproval
    <2>2. ASSUME NEW a \in Approvals,
                 approval[a].status = "NONE",
                 approval' = [approval EXCEPT ![a] = [status |-> "PENDING", run |-> r,
                                                      shown |-> run[r].version]],
                 submit' = [submit EXCEPT ![r] = [pc |-> "raised", approval |-> a]]
          PROVE  TypeOK' /\ HandlesTyped'
        <3>1. [pc |-> "raised", approval |-> a] \in Submits
            BY DEF Submits
        <3>2. run[r].version \in 0..MaxCalcs
            BY DEF PayRuns
        <3>3. [status |-> "PENDING", run |-> r, shown |-> run[r].version] \in ApprovalRows
            BY <3>2 DEF ApprovalRows, RunStatus
        <3>4. submit' \in [Runs -> Submits] /\ approval' \in [Approvals -> ApprovalRows]
            BY <2>2, <3>1, <3>3
        <3>5. UNCHANGED <<run, claim, posts, calc, finalize>>
            BY <1>11 DEF RaiseApproval
        <3>6. QED
            BY <2>2, <3>4, <3>5
    <2>3. QED
        BY <1>11, <2>1, <2>2 DEF RaiseApproval
<1>12. ASSUME NEW r \in Runs, SaveSubmit(r) PROVE TypeOK' /\ HandlesTyped'
    <2>1. submit[r].approval \in Approvals /\ NoSubmit \in Submits
        BY <1>12 DEF SaveSubmit, Submits
    <2>2. [run[r] EXCEPT !.status = "APPROVAL_PENDING", !.approval = submit[r].approval]
             \in PayRuns
        BY <2>1, RunWritten DEF PayrollRunStatus
    <2>3. run' \in [Runs -> PayRuns] /\ submit' \in [Runs -> Submits]
        BY <1>12, <2>1, <2>2 DEF SaveSubmit
    <2>4. \A q \in Runs : run'[q].version = run[q].version
        BY <1>12 DEF SaveSubmit, PayRuns
    <2>5. QED
        BY <1>12, <2>3, <2>4 DEF SaveSubmit
<1>13. ASSUME NEW r \in Runs, CrashSubmit(r) PROVE TypeOK' /\ HandlesTyped'
    <2>1. NoSubmit \in Submits
        BY DEF Submits
    <2>2. submit' \in [Runs -> Submits]
        BY <1>13, <2>1 DEF CrashSubmit
    <2>3. QED
        BY <1>13, <2>2 DEF CrashSubmit
<1>14. ASSUME NEW a \in Approvals, NEW verdict \in Verdict, Decide(a, verdict)
      PROVE  TypeOK' /\ HandlesTyped'
    <2>1. approval[a].status # "NONE"
        BY <1>14 DEF Decide, MayDecide
    <2>2. approval[a].run \in Runs
        BY <2>1
    <2>3. [approval[a] EXCEPT !.status = verdict] \in ApprovalRows
        BY DEF ApprovalRows, RunStatus
    <2>4. [run[approval[a].run] EXCEPT !.status = verdict] \in PayRuns
        BY <2>2, RunWritten DEF PayrollRunStatus
    <2>5. run' \in [Runs -> PayRuns] /\ approval' \in [Approvals -> ApprovalRows]
        BY <1>14, <2>2, <2>3, <2>4 DEF Decide
    <2>6. \A q \in Runs : run'[q].version = run[q].version
        BY <1>14 DEF Decide, PayRuns
    <2>7. \A b \in Approvals : approval'[b].run = approval[b].run
        BY <1>14 DEF Decide, ApprovalRows
    <2>8. \A b \in Approvals : approval'[b].status = "NONE" <=> approval[b].status = "NONE"
        BY <1>14, <2>1 DEF Decide, ApprovalRows
    <2>9. QED
        BY <1>14, <2>5, <2>6, <2>7, <2>8 DEF Decide
<1>15. ASSUME NEW r \in Runs, CheckFinalize(r) PROVE TypeOK' /\ HandlesTyped'
    BY <1>15 DEF CheckFinalize
<1>16. ASSUME NEW r \in Runs, CommitFinalize(r) PROVE TypeOK' /\ HandlesTyped'
    <2>1. ASSUME NEW c \in Claims PROVE [claim[c] EXCEPT !.pay = "PAID"] \in ExpenseClaims
        <3>1. claim[c] \in ExpenseClaims
            OBVIOUS
        <3>2. QED
            BY <3>1 DEF ExpenseClaims, ReimbursementStatus
    <2>2. [run[r] EXCEPT !.status = "FINALIZED", !.issued = TRUE] \in PayRuns
        BY RunWritten DEF PayrollRunStatus
    <2>3. claim' \in [Claims -> ExpenseClaims] /\ run' \in [Runs -> PayRuns]
        BY <1>16, <2>1, <2>2 DEF CommitFinalize
    <2>4. \A q \in Runs : run'[q].version = run[q].version
        BY <1>16 DEF CommitFinalize, PayRuns
    <2>5. QED
        BY <1>16, <2>3, <2>4 DEF CommitFinalize
<1>17. ASSUME NEW r \in Runs, FailFinalize(r) PROVE TypeOK' /\ HandlesTyped'
    BY <1>17 DEF FailFinalize
<1>18. ASSUME UNCHANGED vars PROVE TypeOK' /\ HandlesTyped'
    BY <1>18 DEF vars
<1>19. QED
    BY <1>1, <1>2, <1>3, <1>4, <1>5, <1>6, <1>7, <1>8, <1>9, <1>10,
       <1>11, <1>12, <1>13, <1>14, <1>15, <1>16, <1>17, <1>18 DEF Next

\* Every step keeps IncludedIsOwed: a claim is given up by the run whose items leave
\* it out, and paid with all the others.
LEMMA IncludedKept == OverlapInv /\ [Next]_vars => IncludedIsOwed'
<1> SUFFICES ASSUME OverlapInv, [Next]_vars
             PROVE  IncludedIsOwed'
    OBVIOUS
<1>0. TypeOK /\ IncludedIsOwed
    BY DEF OverlapInv
<1>1. /\ run \in [Runs -> PayRuns] /\ claim \in [Claims -> ExpenseClaims]
      /\ approval \in [Approvals -> ApprovalRows]
    BY <1>0 DEF TypeOK
<1> USE <1>0, <1>1 DEF IncludedIsOwed, Included, PayRuns, ExpenseClaims
<1>2. ASSUME NEW c \in Claims, CheckClaim(c) PROVE IncludedIsOwed'
    BY <1>2 DEF CheckClaim
<1>3. ASSUME NEW c \in Claims, SubmitClaim(c) PROVE IncludedIsOwed'
    <2>1. \A d \in Claims : claim'[d].pay = "INCLUDED_IN_PAYROLL" => claim'[d] = claim[d]
        <3>1. [claim[c] EXCEPT !.status = "SUBMITTED", !.approval = "PENDING",
                               !.pay = "NOT_READY"].pay = "NOT_READY"
            OBVIOUS
        <3>2. QED
            BY <1>3, <3>1 DEF SubmitClaim
    <2>2. UNCHANGED run
        BY <1>3 DEF SubmitClaim
    <2>3. QED
        BY <2>1, <2>2
<1>4. ASSUME NEW c \in Claims, CancelClaim(c) PROVE IncludedIsOwed'
    BY <1>4 DEF CancelClaim
<1>5. ASSUME NEW c \in Claims, NEW verdict \in Verdict, DecideClaim(c, verdict)
      PROVE  IncludedIsOwed'
    BY <1>5 DEF DecideClaim
<1>6. ASSUME NEW r \in Runs, BeginCalc(r) PROVE IncludedIsOwed'
    BY <1>6 DEF BeginCalc
<1>7. ASSUME NEW r \in Runs, CancelApproval(r) PROVE IncludedIsOwed'
    BY <1>7 DEF CancelApproval
<1>8. ASSUME NEW r \in Runs, OpenCalc(r) PROVE IncludedIsOwed'
    BY <1>8 DEF OpenCalc
<1>9. ASSUME NEW r \in Runs, CommitCalc(r) PROVE IncludedIsOwed'
    <2>1. PICK taken \in SUBSET calc[r].seen, clean \in BOOLEAN :
             /\ claim' = TakeUp(r, taken)
             /\ run' = [run EXCEPT ![r] =
                          [status |-> "CALCULATED", approval |-> calc[r].approval,
                           items |-> taken, clean |-> clean,
                           version |-> @.version + 1, issued |-> FALSE]]
        BY <1>9 DEF CommitCalc
    <2>2. ASSUME NEW c \in Claims, claim'[c].pay = "INCLUDED_IN_PAYROLL", claim'[c].run = r
          PROVE  c \in run'[r].items /\ ~run'[r].issued
        <3>1. c \in taken
            <4>1. taken \in SUBSET Claims
                BY <1>0 DEF TypeOK, Calcs
            <4>2. c \notin taken => c \notin Included(r) /\ claim'[c] = claim[c]
                BY <1>0, <2>1, <2>2, <4>1, TakeUpWrites
            <4>3. QED
                BY <2>2, <4>2
        <3>2. run'[r].items = taken /\ ~run'[r].issued
            BY <2>1
        <3>3. QED
            BY <3>1, <3>2
    <2>3. ASSUME NEW c \in Claims, NEW q \in Runs, q # r,
                 claim'[c].pay = "INCLUDED_IN_PAYROLL", claim'[c].run = q
          PROVE  c \in run'[q].items /\ ~run'[q].issued
        <3>1. claim'[c] = claim[c] /\ run'[q] = run[q]
            <4>1. taken \in SUBSET Claims
                BY <1>0 DEF TypeOK, Calcs
            <4>2. c \notin taken /\ c \notin Included(r)
                BY <1>0, <2>1, <2>3, <4>1, TakeUpWrites, PayAssumption
            <4>3. QED
                BY <1>0, <2>1, <2>3, <4>1, <4>2, TakeUpWrites
        <3>2. QED
            BY <2>3, <3>1
    <2>4. QED
        BY <2>2, <2>3
<1>10. ASSUME NEW r \in Runs, FailCalc(r) PROVE IncludedIsOwed'
    BY <1>10 DEF FailCalc
<1>11. ASSUME NEW r \in Runs, CheckSubmit(r) PROVE IncludedIsOwed'
    BY <1>11 DEF CheckSubmit
<1>12. ASSUME NEW r \in Runs, RaiseApproval(r) PROVE IncludedIsOwed'
    BY <1>12 DEF RaiseApproval
<1>13. ASSUME NEW r \in Runs, SaveSubmit(r) PROVE IncludedIsOwed'
    BY <1>13 DEF SaveSubmit
<1>14. ASSUME NEW r \in Runs, CrashSubmit(r) PROVE IncludedIsOwed'
    BY <1>14 DEF CrashSubmit
<1>15. ASSUME NEW a \in Approvals, NEW verdict \in Verdict, Decide(a, verdict)
      PROVE  IncludedIsOwed'
    BY <1>15 DEF Decide
<1>16. ASSUME NEW r \in Runs, CheckFinalize(r) PROVE IncludedIsOwed'
    BY <1>16 DEF CheckFinalize
<1>17. ASSUME NEW r \in Runs, CommitFinalize(r) PROVE IncludedIsOwed'
    BY <1>17 DEF CommitFinalize
<1>18. ASSUME NEW r \in Runs, FailFinalize(r) PROVE IncludedIsOwed'
    BY <1>18 DEF FailFinalize
<1>19. ASSUME UNCHANGED vars PROVE IncludedIsOwed'
    BY <1>19 DEF vars
<1>20. QED
    BY <1>2, <1>3, <1>4, <1>5, <1>6, <1>7, <1>8, <1>9, <1>10, <1>11,
       <1>12, <1>13, <1>14, <1>15, <1>16, <1>17, <1>18, <1>19 DEF Next

\* However requests overlap, what was checked of types holds of every next state.
LEMMA OverlapKept == OverlapInv /\ [Next]_vars => OverlapInv'
BY TypesKept, IncludedKept DEF OverlapInv

\* Every variable keeps its type, however requests overlap.
THEOREM PayRowsTyped == Spec => []TypeOK
<1>1. OverlapInv => TypeOK
    BY DEF OverlapInv
<1>2. QED
    BY OverlapInitially, OverlapKept, <1>1, PTL DEF Spec

\* However requests overlap and wherever they die, a claim that counts as included is
\* on an item that has yet to be paid: no finalization misses a claim of its items.
THEOREM IncludedStaysOwed == Spec => []IncludedIsOwed
<1>1. OverlapInv => IncludedIsOwed
    BY DEF OverlapInv
<1>2. QED
    BY OverlapInitially, OverlapKept, <1>1, PTL DEF Spec

----------------------------------------------------------------------------
(* What holds when requests are served one at a time.                      *)

\* Served one at a time, requests do not overlap.
LEMMA OneAtATimeKept ==
    ASSUME Serial, TypeOK, OneAtATime, [Next]_vars
    PROVE  OneAtATime'
<1>0. /\ calc \in [Runs -> Calcs] /\ submit \in [Runs -> Submits]
      /\ finalize \in [Runs -> {"idle", "checked"}]
      /\ posts \in [Claims -> 0..MaxPosts] /\ MaxPosts \in Nat
    BY PayAssumption DEF TypeOK
<1> USE <1>0 DEF OneAtATime, MayStart, Quiet, Calcs, Submits, NoCalc, NoSubmit
<1>1. ASSUME UNCHANGED <<posts, calc, submit, finalize>> PROVE OneAtATime'
    BY <1>1
<1>2. ASSUME NEW c \in Claims, CheckClaim(c) PROVE OneAtATime'
    BY <1>2 DEF CheckClaim
<1>3. ASSUME NEW c \in Claims, SubmitClaim(c) PROVE OneAtATime'
    BY <1>3 DEF SubmitClaim
<1>4. ASSUME NEW c \in Claims, CancelClaim(c) PROVE OneAtATime'
    BY <1>4 DEF CancelClaim
<1>5. ASSUME NEW c \in Claims, NEW verdict \in Verdict, DecideClaim(c, verdict)
      PROVE  OneAtATime'
    BY <1>1, <1>5 DEF DecideClaim
<1>6. ASSUME NEW r \in Runs, BeginCalc(r) PROVE OneAtATime'
    BY <1>6 DEF BeginCalc
<1>7. ASSUME NEW r \in Runs, CancelApproval(r) PROVE OneAtATime'
    BY <1>7 DEF CancelApproval
<1>8. ASSUME NEW r \in Runs, OpenCalc(r) PROVE OneAtATime'
    BY <1>8 DEF OpenCalc
<1>9. ASSUME NEW r \in Runs, CommitCalc(r) PROVE OneAtATime'
    BY <1>9 DEF CommitCalc
<1>10. ASSUME NEW r \in Runs, FailCalc(r) PROVE OneAtATime'
    BY <1>10 DEF FailCalc
<1>11. ASSUME NEW r \in Runs, CheckSubmit(r) PROVE OneAtATime'
    BY <1>11 DEF CheckSubmit
<1>12. ASSUME NEW r \in Runs, RaiseApproval(r) PROVE OneAtATime'
    <2>1. submit[r].pc = "checked" /\ \A q \in Runs : q # r => submit'[q] = submit[q]
        BY <1>12 DEF RaiseApproval
    <2>2. UNCHANGED <<posts, calc, finalize>>
        BY <1>12 DEF RaiseApproval
    <2>3. QED
        BY <2>1, <2>2
<1>13. ASSUME NEW r \in Runs, SaveSubmit(r) PROVE OneAtATime'
    BY <1>13 DEF SaveSubmit
<1>14. ASSUME NEW r \in Runs, CrashSubmit(r) PROVE OneAtATime'
    BY <1>14 DEF CrashSubmit
<1>15. ASSUME NEW a \in Approvals, NEW verdict \in Verdict, Decide(a, verdict)
      PROVE  OneAtATime'
    BY <1>1, <1>15 DEF Decide
<1>16. ASSUME NEW r \in Runs, CheckFinalize(r) PROVE OneAtATime'
    BY <1>16 DEF CheckFinalize
<1>17. ASSUME NEW r \in Runs, CommitFinalize(r) PROVE OneAtATime'
    BY <1>17 DEF CommitFinalize
<1>18. ASSUME NEW r \in Runs, FailFinalize(r) PROVE OneAtATime'
    BY <1>18 DEF FailFinalize
<1>19. ASSUME UNCHANGED vars PROVE OneAtATime'
    BY <1>1, <1>19 DEF vars
<1>20. QED
    BY <1>1, <1>2, <1>3, <1>4, <1>5, <1>6, <1>7, <1>8, <1>9, <1>10,
       <1>11, <1>12, <1>13, <1>14, <1>15, <1>16, <1>17, <1>18, <1>19 DEF Next

\* Served one at a time, a claim is decided, submitted and cancelled only as the
\* page it was asked for shows it.
LEMMA ClaimsKept ==
    ASSUME Serial, TypeOK, QueueFits, CheckedClaimFits, PendingIsSubmitted,
           PayFollowsApproval, [Next]_vars
    PROVE  CheckedClaimFits' /\ PendingIsSubmitted' /\ PayFollowsApproval'
<1> DEFINE Kept == CheckedClaimFits' /\ PendingIsSubmitted' /\ PayFollowsApproval'
<1>0. /\ claim \in [Claims -> ExpenseClaims]
      /\ posts \in [Claims -> 0..MaxPosts] /\ MaxPosts \in Nat
    BY PayAssumption DEF TypeOK
<1> USE <1>0 DEF CheckedClaimFits, PendingIsSubmitted, PayFollowsApproval, ExpenseClaims
<1>1. ASSUME UNCHANGED <<claim, posts>> PROVE Kept
    BY <1>1
<1>2. ASSUME NEW c \in Claims, CheckClaim(c) PROVE Kept
    <2>1. claim[c].status \in {"DRAFT", "REJECTED"} /\ posts[c] = 0
        BY <1>2 DEF CheckClaim, MayStart, Quiet
    <2>2. UNCHANGED claim /\ posts' = [posts EXCEPT ![c] = @ + 1]
        BY <1>2 DEF CheckClaim
    <2>3. posts'[c] = 1 /\ \A d \in Claims : d # c => posts'[d] = posts[d]
        BY <2>1, <2>2
    <2>4. QED
        BY <2>1, <2>2, <2>3
<1>3. ASSUME NEW c \in Claims, SubmitClaim(c) PROVE Kept
    <2>1. posts[c] = 1 /\ posts' = [posts EXCEPT ![c] = @ - 1]
        BY <1>3 DEF SubmitClaim
    <2>2. posts'[c] = 0 /\ \A d \in Claims : d # c => posts'[d] = posts[d]
        BY <2>1
    <2>3. CASE UNCHANGED claim
        BY <2>2, <2>3
    <2>4. CASE claim' = [claim EXCEPT ![c] =
                            [@ EXCEPT !.status = "SUBMITTED", !.approval = "PENDING",
                                      !.pay = "NOT_READY"]]
        <3> DEFINE new == [claim[c] EXCEPT !.status = "SUBMITTED", !.approval = "PENDING",
                                           !.pay = "NOT_READY"]
        <3>1. claim[c] \in ExpenseClaims
            BY <1>0
        <3>2. new.status = "SUBMITTED" /\ new.pay = "NOT_READY"
            BY <3>1
        <3>3. claim'[c] = new /\ \A d \in Claims : d # c => claim'[d] = claim[d]
            BY <2>4
        <3> HIDE DEF new
        <3>4. QED
            BY <2>2, <3>2, <3>3
    <2>5. QED
        BY <1>3, <2>3, <2>4 DEF SubmitClaim
<1>4. ASSUME NEW c \in Claims, CancelClaim(c) PROVE Kept
    <2>1. posts[c] = 1 /\ posts' = [posts EXCEPT ![c] = @ - 1]
        BY <1>4 DEF CancelClaim
    <2>2. posts'[c] = 0 /\ \A d \in Claims : d # c => posts'[d] = posts[d]
        BY <2>1
    <2>3. claim[c].status \in {"DRAFT", "REJECTED"}
        BY <2>1
    <2>4. claim[c].pay = "NOT_READY" /\ claim[c].approval # "PENDING"
        BY <2>3
    <2>5. /\ claim'[c].pay = claim[c].pay /\ claim'[c].approval = claim[c].approval
          /\ \A d \in Claims : d # c => claim'[d] = claim[d]
        BY <1>4 DEF CancelClaim
    <2>6. QED
        BY <2>2, <2>4, <2>5
<1>5. ASSUME NEW c \in Claims, NEW verdict \in Verdict, DecideClaim(c, verdict)
      PROVE  Kept
    <2> DEFINE pay == IF verdict = "APPROVED" THEN "PENDING_PAYROLL" ELSE "NOT_READY"
               new == [claim[c] EXCEPT !.status = verdict, !.approval = verdict, !.pay = pay]
    <2>1. \A d \in Claims : posts'[d] = 0
        BY <1>5 DEF DecideClaim, MayStart, Quiet
    <2>2. claim'[c] = new /\ \A d \in Claims : d # c => claim'[d] = claim[d]
        BY <1>5 DEF DecideClaim
    <2>3. claim[c] \in ExpenseClaims
        BY <1>0
    <2>4. new.status = verdict /\ new.approval = verdict /\ new.pay = pay
        BY <2>3
    <2>5. verdict # "PENDING" /\ (pay # "NOT_READY" => verdict = "APPROVED")
        BY DEF Verdict
    <2> HIDE DEF new, pay
    <2>6. QED
        BY <2>1, <2>2, <2>4, <2>5
<1>6. ASSUME NEW r \in Runs, BeginCalc(r) PROVE Kept
    BY <1>1, <1>6 DEF BeginCalc
<1>7. ASSUME NEW r \in Runs, CancelApproval(r) PROVE Kept
    BY <1>1, <1>7 DEF CancelApproval
<1>8. ASSUME NEW r \in Runs, OpenCalc(r) PROVE Kept
    BY <1>1, <1>8 DEF OpenCalc
<1>9. ASSUME NEW r \in Runs, CommitCalc(r) PROVE Kept
    <2>1. PICK taken \in SUBSET calc[r].seen : claim' = TakeUp(r, taken)
        BY <1>9 DEF CommitCalc
    <2>2. taken \in SUBSET Claims /\ \A d \in taken : d \in Waiting \/ d \in Included(r)
        BY <1>9 DEF CommitCalc, TypeOK, Calcs, QueueFits
    <2>3. \A d \in Claims :
             /\ claim'[d].status = claim[d].status
             /\ claim'[d].approval = claim[d].approval
             /\ d \notin taken /\ d \notin Included(r) => claim'[d] = claim[d]
        BY <2>1, <2>2, TakeUpWrites
    <2>4. \A d \in Claims : d \in taken \/ d \in Included(r) => claim[d].status = "APPROVED"
        BY <2>2 DEF Waiting, Included
    <2>5. UNCHANGED posts
        BY <1>9 DEF CommitCalc
    <2>6. QED
        BY <2>3, <2>4, <2>5
<1>10. ASSUME NEW r \in Runs, FailCalc(r) PROVE Kept
    BY <1>1, <1>10 DEF FailCalc
<1>11. ASSUME NEW r \in Runs, CheckSubmit(r) PROVE Kept
    BY <1>1, <1>11 DEF CheckSubmit
<1>12. ASSUME NEW r \in Runs, RaiseApproval(r) PROVE Kept
    BY <1>1, <1>12 DEF RaiseApproval
<1>13. ASSUME NEW r \in Runs, SaveSubmit(r) PROVE Kept
    BY <1>1, <1>13 DEF SaveSubmit
<1>14. ASSUME NEW r \in Runs, CrashSubmit(r) PROVE Kept
    BY <1>1, <1>14 DEF CrashSubmit
<1>15. ASSUME NEW a \in Approvals, NEW verdict \in Verdict, Decide(a, verdict)
      PROVE  Kept
    BY <1>1, <1>15 DEF Decide
<1>16. ASSUME NEW r \in Runs, CheckFinalize(r) PROVE Kept
    BY <1>1, <1>16 DEF CheckFinalize
<1>17. ASSUME NEW r \in Runs, CommitFinalize(r) PROVE Kept
    <2>1. claim' = [c \in Claims |-> IF c \in Included(r) THEN [claim[c] EXCEPT !.pay = "PAID"]
                                     ELSE claim[c]]
        BY <1>17 DEF CommitFinalize
    <2>2. ASSUME NEW c \in Claims
          PROVE  /\ claim'[c].status = claim[c].status
                 /\ claim'[c].approval = claim[c].approval
                 /\ c \notin Included(r) => claim'[c] = claim[c]
        <3>1. claim[c] \in ExpenseClaims
            BY <1>0
        <3>2. QED
            BY <2>1, <3>1
    <2>3. \A c \in Included(r) : claim[c].status = "APPROVED"
        BY DEF Included
    <2>4. UNCHANGED posts
        BY <1>17 DEF CommitFinalize
    <2>5. QED
        BY <2>2, <2>3, <2>4
<1>18. ASSUME NEW r \in Runs, FailFinalize(r) PROVE Kept
    BY <1>1, <1>18 DEF FailFinalize
<1>19. ASSUME UNCHANGED vars PROVE Kept
    BY <1>1, <1>19 DEF vars
<1>20. QED
    BY <1>1, <1>2, <1>3, <1>4, <1>5, <1>6, <1>7, <1>8, <1>9, <1>10,
       <1>11, <1>12, <1>13, <1>14, <1>15, <1>16, <1>17, <1>18, <1>19 DEF Next

\* A step that writes one run keeps IssuedWhenFinalized if that run obeys it.
LEMMA IssuedKept ==
    ASSUME IssuedWhenFinalized, NEW r \in Runs,
           \A q \in Runs : q # r => run'[q] = run[q],
           run'[r].issued <=> run'[r].status = "FINALIZED"
    PROVE  IssuedWhenFinalized'
BY DEF IssuedWhenFinalized

\* A step after which nothing is being calculated establishes CalcFits.
LEMMA NoCalcFits ==
    ASSUME \A q \in Runs : calc'[q].pc = "idle"
    PROVE  CalcFits'
BY DEF CalcFits

\* Served one at a time, a run, its approval runs and the requests at work on it stay
\* in step: nothing that was checked has changed when it is used.
LEMMA RunsKept ==
    ASSUME Serial, ~Crashes, TypeOK, HandlesTyped, OneAtATime, RunInv, [Next]_vars
    PROVE  RunInv'
<1>0. /\ run \in [Runs -> PayRuns] /\ approval \in [Approvals -> ApprovalRows]
      /\ calc \in [Runs -> Calcs] /\ submit \in [Runs -> Submits]
      /\ finalize \in [Runs -> {"idle", "checked"}]
    BY DEF TypeOK
<1> USE <1>0 DEF RunInv, PayRuns, ApprovalRows, Calcs, Submits, NoCalc, NoSubmit
<1>1. ASSUME UNCHANGED <<run, approval, calc, submit, finalize>> PROVE RunInv'
    BY <1>1 DEF PendingOn, CalcFits, SubmitFits, FinalizeFits, IssuedWhenFinalized,
       PendingIsCurrent, RaisedIsPending, ShownBefore, ApprovedByOne, AnswerCounts
<1>2. ASSUME NEW c \in Claims, CheckClaim(c) PROVE RunInv'
    BY <1>1, <1>2 DEF CheckClaim
<1>3. ASSUME NEW c \in Claims, SubmitClaim(c) PROVE RunInv'
    BY <1>1, <1>3 DEF SubmitClaim
<1>4. ASSUME NEW c \in Claims, CancelClaim(c) PROVE RunInv'
    BY <1>1, <1>4 DEF CancelClaim
<1>5. ASSUME NEW c \in Claims, NEW verdict \in Verdict, DecideClaim(c, verdict)
      PROVE  RunInv'
    BY <1>1, <1>5 DEF DecideClaim
<1>6. ASSUME NEW r \in Runs, BeginCalc(r) PROVE RunInv'
    <2>1. \A q \in Runs : calc[q].pc = "idle" /\ submit[q].pc = "idle" /\ finalize[q] = "idle"
        BY <1>6 DEF BeginCalc, MayStart, Quiet
    <2>2. run[r].status \notin {"APPROVED", "FINALIZED"}
        BY <1>6 DEF BeginCalc
    <2>3. \A b \in PendingOn(r) : run[r].approval = b
        BY <2>1 DEF PendingIsCurrent
    <2>4. /\ \A q \in Runs : q # r => calc'[q] = calc[q]
          /\ calc'[r].pc \in {"cancelling", "ready"}
          /\ calc'[r].pc = "cancelling" =>
                calc'[r].approval = run[r].approval /\ approval[run[r].approval].status = "PENDING"
          /\ calc'[r].pc = "ready" =>
                run[r].approval = NoApproval \/ approval[run[r].approval].status # "PENDING"
        BY <1>6 DEF BeginCalc
    <2>5. calc'[r].pc = "ready" => PendingOn(r) = {}
        BY <2>3, <2>4, PayAssumption DEF PendingOn
    <2>6. UNCHANGED <<run, approval, submit, finalize>>
        BY <1>6 DEF BeginCalc
    <2>7. CalcFits'
        BY <2>1, <2>2, <2>3, <2>4, <2>5, <2>6 DEF PendingOn, CalcFits
    <2>8. QED
        BY <2>6, <2>7
       DEF PendingOn, SubmitFits, FinalizeFits, IssuedWhenFinalized,
           PendingIsCurrent, RaisedIsPending, ShownBefore, ApprovedByOne, AnswerCounts
<1>7. ASSUME NEW r \in Runs, CancelApproval(r) PROVE RunInv'
    <2> DEFINE b == calc[r].approval
    <2>1. /\ calc[r].pc = "cancelling" /\ b \in Approvals /\ PendingOn(r) \subseteq {b}
          /\ approval[b].status = "PENDING"
        BY <1>7 DEF CancelApproval, HandlesTyped, CalcFits
    <2>2. \A q \in Runs : submit[q].pc = "idle" /\ (calc[q].pc # "idle" => q = r)
        BY <2>1 DEF OneAtATime
    <2>3. /\ approval'[b].status = "CANCELLED"
          /\ approval'[b].run = approval[b].run /\ approval'[b].shown = approval[b].shown
          /\ \A a \in Approvals : a # b => approval'[a] = approval[a]
        BY <1>7, <2>1 DEF CancelApproval
    <2>4. /\ calc'[r].pc = "ready"
          /\ \A q \in Runs : q # r => calc'[q] = calc[q]
          /\ UNCHANGED <<run, submit, finalize>>
        BY <1>7 DEF CancelApproval
    <2> HIDE DEF b
    <2>5. \A q \in Runs : PendingOn(q)' \subseteq PendingOn(q)
        BY <2>3 DEF PendingOn
    <2>6. PendingOn(r)' = {}
        BY <2>1, <2>3 DEF PendingOn
    <2>7. CalcFits'
        <3>1. \A q \in Runs : q # r => calc'[q].pc = "idle"
            BY <2>2, <2>4
        <3>2. run'[r].status \notin {"APPROVED", "FINALIZED"}
            BY <2>1, <2>4 DEF CalcFits
        <3>3. QED
            BY <2>4, <2>6, <3>1, <3>2 DEF CalcFits
    <2>8. PendingIsCurrent'
        BY <2>3, <2>4, <2>5 DEF PendingOn, PendingIsCurrent, HandlesTyped
    <2>9. RaisedIsPending' /\ SubmitFits' /\ FinalizeFits' /\ IssuedWhenFinalized'
        BY <2>2, <2>4 DEF SubmitFits, FinalizeFits, IssuedWhenFinalized, RaisedIsPending
    <2>10. \A a \in Approvals :
              /\ approval'[a].run = approval[a].run /\ approval'[a].shown = approval[a].shown
              /\ approval'[a].status # "NONE" => approval[a].status # "NONE"
              /\ approval'[a].status \in Verdict => approval[a].status = approval'[a].status
              /\ approval[a].status = "APPROVED" => approval'[a] = approval[a]
        BY <2>1, <2>3 DEF Verdict
    <2>11. ShownBefore'
        BY <2>4, <2>10 DEF ShownBefore
    <2>12. AnswerCounts'
        BY <2>4, <2>10 DEF AnswerCounts
    <2>13. ApprovedByOne'
        BY <2>4, <2>10 DEF ApprovedByOne
    <2>14. QED
        BY <2>7, <2>8, <2>9, <2>11, <2>12, <2>13
<1>8. ASSUME NEW r \in Runs, OpenCalc(r) PROVE RunInv'
    <2>1. /\ calc[r].pc \in {"ready", "open"} /\ calc'[r].pc \in {"idle", "open"}
          /\ \A q \in Runs : q # r => calc'[q] = calc[q]
        BY <1>8 DEF OpenCalc
    <2>2. UNCHANGED <<run, approval, submit, finalize>>
        BY <1>8 DEF OpenCalc
    <2>3. CalcFits'
        <3>1. \A q \in Runs : PendingOn(q)' = PendingOn(q)
            BY <2>2 DEF PendingOn
        <3>2. run[r].status \notin {"APPROVED", "FINALIZED"} /\ PendingOn(r) = {}
            BY <2>1 DEF CalcFits
        <3>3. QED
            BY <2>1, <2>2, <3>1, <3>2 DEF CalcFits
    <2>4. SubmitFits' /\ FinalizeFits' /\ IssuedWhenFinalized' /\ ShownBefore' /\ AnswerCounts'
        BY <2>2 DEF SubmitFits, FinalizeFits, IssuedWhenFinalized, ShownBefore, AnswerCounts
    <2>5. PendingIsCurrent' /\ RaisedIsPending' /\ ApprovedByOne'
        BY <2>2 DEF PendingOn, PendingIsCurrent, RaisedIsPending, ApprovedByOne
    <2>6. QED
        BY <2>3, <2>4, <2>5
<1>9. ASSUME NEW r \in Runs, CommitCalc(r) PROVE RunInv'
    <2>1. /\ run'[r].status = "CALCULATED" /\ run'[r].version = run[r].version + 1
          /\ run'[r].issued = FALSE
          /\ \A q \in Runs : q # r => run'[q] = run[q]
        BY <1>9 DEF CommitCalc
    <2>2. calc'[r].pc = "idle" /\ \A q \in Runs : q # r => calc'[q] = calc[q]
        BY <1>9 DEF CommitCalc
    <2>3. UNCHANGED <<approval, submit, finalize>>
        BY <1>9 DEF CommitCalc
    <2>4. calc[r].pc = "open" /\ PendingOn(r) = {}
        BY <1>9 DEF CommitCalc, CalcFits
    <2>5. \A q \in Runs : /\ submit[q].pc = "idle" /\ finalize[q] = "idle"
                          /\ calc'[q].pc = "idle"
        BY <2>2, <2>4 DEF OneAtATime
    <2>6. CalcFits' /\ SubmitFits' /\ FinalizeFits'
        BY <2>3, <2>5 DEF CalcFits, SubmitFits, FinalizeFits
    <2>7. IssuedWhenFinalized'
        BY <2>1, IssuedKept
    <2>8. PendingIsCurrent' /\ RaisedIsPending'
        BY <2>1, <2>3, <2>4, <2>5 DEF PendingOn, PendingIsCurrent, RaisedIsPending
    <2>9. ShownBefore' /\ AnswerCounts'
        <3>0. run[r].version \in Nat /\ \A a \in Approvals : approval[a].shown \in Nat
            BY PayAssumption
        <3>1. ASSUME NEW a \in Approvals, approval[a].status # "NONE", approval[a].run = r
              PROVE  approval[a].shown < run'[r].version
            BY <2>1, <3>0, <3>1 DEF ShownBefore
        <3>2. \A a \in Approvals : approval[a].status # "NONE" /\ approval[a].run # r =>
                 run'[approval[a].run] = run[approval[a].run]
            BY <2>1 DEF HandlesTyped
        <3>3. ShownBefore'
            BY <2>1, <2>3, <3>0, <3>1, <3>2 DEF ShownBefore
        <3>4. ASSUME NEW a \in Approvals, approval[a].status \in Verdict,
                     approval[a].shown = run'[approval[a].run].version
              PROVE  run'[approval[a].run].status \in {approval[a].status, "FINALIZED"}
            <4>1. approval[a].status # "NONE"
                BY <3>4 DEF Verdict
            <4>2. approval[a].run # r
                BY <2>1, <3>0, <3>1, <3>4, <4>1
            <4>3. QED
                BY <3>2, <3>4, <4>1, <4>2 DEF AnswerCounts
        <3>5. QED
            BY <2>3, <3>3, <3>4 DEF ShownBefore, AnswerCounts
    <2>10. ApprovedByOne'
        BY <2>1, <2>3 DEF ApprovedByOne
    <2>11. QED
        BY <2>6, <2>7, <2>8, <2>9, <2>10
<1>10. ASSUME NEW r \in Runs, FailCalc(r) PROVE RunInv'
    <2>1. /\ calc[r].pc \in {"ready", "open"} /\ calc'[r].pc \in {"idle", "open"}
          /\ \A q \in Runs : q # r => calc'[q] = calc[q]
        BY <1>10 DEF FailCalc
    <2>2. UNCHANGED <<run, approval, submit, finalize>>
        BY <1>10 DEF FailCalc
    <2>3. CalcFits'
        <3>1. \A q \in Runs : PendingOn(q)' = PendingOn(q)
            BY <2>2 DEF PendingOn
        <3>2. run[r].status \notin {"APPROVED", "FINALIZED"} /\ PendingOn(r) = {}
            BY <2>1 DEF CalcFits
        <3>3. QED
            BY <2>1, <2>2, <3>1, <3>2 DEF CalcFits
    <2>4. SubmitFits' /\ FinalizeFits' /\ IssuedWhenFinalized' /\ ShownBefore' /\ AnswerCounts'
        BY <2>2 DEF SubmitFits, FinalizeFits, IssuedWhenFinalized, ShownBefore, AnswerCounts
    <2>5. PendingIsCurrent' /\ RaisedIsPending' /\ ApprovedByOne'
        BY <2>2 DEF PendingOn, PendingIsCurrent, RaisedIsPending, ApprovedByOne
    <2>6. QED
        BY <2>3, <2>4, <2>5
<1>11. ASSUME NEW r \in Runs, CheckSubmit(r) PROVE RunInv'
    <2>1. /\ submit[r].pc = "idle" /\ run[r].status = "CALCULATED"
          /\ submit'[r].pc = "checked" /\ \A q \in Runs : q # r => submit'[q] = submit[q]
        BY <1>11 DEF CheckSubmit
    <2>2. UNCHANGED <<run, approval, calc, finalize>>
        BY <1>11 DEF CheckSubmit
    <2>3. \A q \in Runs : PendingOn(q)' = PendingOn(q)
        BY <2>2 DEF PendingOn
    <2>4. CalcFits'
        BY <2>2, <2>3 DEF CalcFits
    <2>5. SubmitFits'
        BY <2>1, <2>2 DEF SubmitFits
    <2>6. FinalizeFits' /\ IssuedWhenFinalized' /\ ShownBefore' /\ AnswerCounts'
        BY <2>2 DEF FinalizeFits, IssuedWhenFinalized, ShownBefore, AnswerCounts
    <2>7. ApprovedByOne'
        BY <2>2 DEF ApprovedByOne
    <2>8. RaisedIsPending'
        BY <2>1, <2>3 DEF RaisedIsPending
    <2>9. PendingIsCurrent'
        BY <2>1, <2>2, <2>3 DEF PendingIsCurrent
    <2>10. QED
        BY <2>4, <2>5, <2>6, <2>7, <2>8, <2>9
<1>12. ASSUME NEW r \in Runs, RaiseApproval(r) PROVE RunInv'
    <2>1. submit[r].pc = "checked" /\ run[r].status = "CALCULATED"
        BY <1>12 DEF RaiseApproval, SubmitFits
    <2>2. \A q \in Runs : (q # r => submit[q].pc = "idle") /\ calc[q].pc = "idle"
        BY <2>1 DEF OneAtATime
    <2>3. UNCHANGED <<run, calc, finalize>>
        BY <1>12 DEF RaiseApproval
    <2>4. CASE submit' = [submit EXCEPT ![r] = NoSubmit] /\ UNCHANGED approval
        <3>1. submit'[r].pc = "idle" /\ \A q \in Runs : q # r => submit'[q] = submit[q]
            BY <2>4
        <3>2. QED
            BY <2>1, <2>2, <2>3, <2>4, <3>1
               DEF PendingOn, CalcFits, SubmitFits, FinalizeFits, IssuedWhenFinalized,
                   PendingIsCurrent, RaisedIsPending, ShownBefore, ApprovedByOne, AnswerCounts
    <2>5. ASSUME NEW a \in Approvals,
                 approval[a].status = "NONE",
                 approval' = [approval EXCEPT ![a] = [status |-> "PENDING", run |-> r,
                                                      shown |-> run[r].version]],
                 submit' = [submit EXCEPT ![r] = [pc |-> "raised", approval |-> a]]
          PROVE  RunInv'
        <3>1. /\ submit'[r].pc = "raised" /\ submit'[r].approval = a
              /\ \A q \in Runs : q # r => submit'[q] = submit[q]
            BY <2>5
        <3>2. /\ approval'[a].status = "PENDING" /\ approval'[a].run = r
              /\ approval'[a].shown = run[r].version
              /\ \A b \in Approvals : b # a => approval'[b] = approval[b]
            BY <2>5
        <3>3. \A q \in Runs : PendingOn(q)' \subseteq PendingOn(q) \cup {a}
            BY <3>2 DEF PendingOn
        <3>4. PendingOn(r) = {}
            BY <2>1 DEF PendingIsCurrent
        <3>5. PendingOn(r)' = {a} /\ \A q \in Runs : q # r => PendingOn(q)' = PendingOn(q)
            BY <2>5, <3>2, <3>4 DEF PendingOn
        <3>6. CalcFits'
            BY <2>2, <2>3 DEF CalcFits
        <3>7. SubmitFits'
            BY <2>1, <2>3, <3>1 DEF SubmitFits
        <3>8. FinalizeFits' /\ IssuedWhenFinalized'
            BY <2>3 DEF FinalizeFits, IssuedWhenFinalized
        <3>9. PendingIsCurrent'
            <4>1. ASSUME NEW q \in Runs, q # r, NEW b \in PendingOn(q)'
                  PROVE  /\ approval'[b].shown = run[q].version
                         /\ run[q].status = "APPROVAL_PENDING" /\ run[q].approval = b
                <5>1. b \in PendingOn(q) /\ b # a
                    BY <2>5, <3>5, <4>1 DEF PendingOn
                <5>2. QED
                    BY <2>2, <3>2, <4>1, <5>1 DEF PendingOn, PendingIsCurrent
            <4>2. QED
                BY <2>3, <3>1, <3>2, <3>5, <4>1 DEF PendingIsCurrent
        <3>10. RaisedIsPending'
            BY <2>2, <3>1, <3>5 DEF RaisedIsPending
        <3>11. ShownBefore'
            BY <2>3, <3>2 DEF PayRuns, ShownBefore
        <3>12. AnswerCounts'
            BY <2>3, <3>2 DEF Verdict, AnswerCounts
        <3>13. ApprovedByOne'
            BY <2>3, <2>5, <3>2 DEF ApprovedByOne
        <3>14. QED
            BY <3>6, <3>7, <3>8, <3>9, <3>10, <3>11, <3>12, <3>13
    <2>6. QED
        BY <1>12, <2>4, <2>5 DEF RaiseApproval
<1>13. ASSUME NEW r \in Runs, SaveSubmit(r) PROVE RunInv'
    <2> DEFINE a == submit[r].approval
    <2>1. submit[r].pc = "raised" /\ run[r].status = "CALCULATED" /\ a \in PendingOn(r)
        BY <1>13 DEF SaveSubmit, SubmitFits, RaisedIsPending
    <2>2. \A q \in Runs : /\ q # r => submit[q].pc = "idle"
                          /\ calc[q].pc = "idle" /\ finalize[q] = "idle"
        BY <2>1 DEF OneAtATime
    <2>3. /\ run'[r].status = "APPROVAL_PENDING" /\ run'[r].approval = a
          /\ run'[r].version = run[r].version /\ run'[r].issued = run[r].issued
          /\ \A q \in Runs : q # r => run'[q] = run[q]
        BY <1>13 DEF SaveSubmit
    <2>4. submit'[r].pc = "idle" /\ \A q \in Runs : q # r => submit'[q] = submit[q]
        BY <1>13 DEF SaveSubmit
    <2>5. UNCHANGED <<approval, calc, finalize>>
        BY <1>13 DEF SaveSubmit
    <2>6. PendingOn(r) = {a}
        BY <2>1 DEF PendingIsCurrent
    <2> HIDE DEF a
    <2>7. \A q \in Runs : PendingOn(q)' = PendingOn(q)
        BY <2>5 DEF PendingOn
    <2>8. CalcFits'
        BY <2>2, <2>5 DEF CalcFits
    <2>9. SubmitFits' /\ FinalizeFits'
        BY <2>2, <2>4, <2>5 DEF SubmitFits, FinalizeFits
    <2>10. IssuedWhenFinalized'
        <3>1. run'[r].issued <=> run'[r].status = "FINALIZED"
            BY <2>1, <2>3 DEF IssuedWhenFinalized
        <3>2. QED
            BY <2>3, <3>1, IssuedKept
    <2>11. RaisedIsPending'
        BY <2>2, <2>4 DEF RaisedIsPending
    <2>12. PendingIsCurrent'
        <3>1. ASSUME NEW b \in PendingOn(r)'
              PROVE  /\ approval'[b].shown = run'[r].version
                     /\ run'[r].status = "APPROVAL_PENDING" /\ run'[r].approval = b
            BY <2>1, <2>3, <2>5, <2>6, <2>7, <3>1 DEF PendingIsCurrent
        <3>2. ASSUME NEW q \in Runs, q # r, NEW b \in PendingOn(q)'
              PROVE  /\ approval'[b].shown = run'[q].version
                     /\ run'[q].status = "APPROVAL_PENDING" /\ run'[q].approval = b
            BY <2>2, <2>3, <2>5, <2>7, <3>2 DEF PendingIsCurrent
        <3>3. QED
            BY <3>1, <3>2 DEF PendingIsCurrent
    <2>13. \A q \in Runs : run'[q].version = run[q].version
        BY <2>3
    <2>14. ShownBefore'
        BY <2>5, <2>13 DEF HandlesTyped, ShownBefore
    <2>15. AnswerCounts'
        <3>1. ASSUME NEW b \in Approvals, approval[b].status \in Verdict, approval[b].run = r
              PROVE  approval[b].shown # run[r].version
            BY <2>1, <3>1 DEF Verdict, AnswerCounts
        <3>2. QED
            BY <2>3, <2>5, <2>13, <3>1 DEF HandlesTyped, Verdict, AnswerCounts
    <2>16. ApprovedByOne'
        BY <2>3, <2>5, <2>13 DEF ApprovedByOne
    <2>17. QED
        BY <2>8, <2>9, <2>10, <2>11, <2>12, <2>14, <2>15, <2>16
<1>14. ASSUME NEW r \in Runs, CrashSubmit(r) PROVE RunInv'
    BY <1>14 DEF CrashSubmit
<1>15. ASSUME NEW a \in Approvals, NEW verdict \in Verdict, Decide(a, verdict)
      PROVE  RunInv'
    <2>0. PICK r \in Runs : r = approval[a].run
        BY <1>15 DEF Decide, MayDecide, HandlesTyped
    <2>1. approval[a].status = "PENDING"
        BY <1>15 DEF Decide, MayDecide
    <2>2. \A q \in Runs : calc[q].pc = "idle" /\ submit[q].pc = "idle" /\ finalize[q] = "idle"
        BY <1>15 DEF Decide, MayStart, Quiet
    <2>3. a \in PendingOn(r) /\ \A q \in Runs : q # r => a \notin PendingOn(q)
        BY <2>0, <2>1 DEF PendingOn
    <2>4. /\ run[r].status = "APPROVAL_PENDING" /\ approval[a].shown = run[r].version
          /\ PendingOn(r) = {a}
        BY <2>1, <2>2, <2>3 DEF PendingIsCurrent
    <2>5. /\ approval'[a].status = verdict
          /\ approval'[a].run = r /\ approval'[a].shown = approval[a].shown
          /\ \A b \in Approvals : b # a => approval'[b] = approval[b]
        BY <1>15, <2>0 DEF Decide
    <2>6. /\ run'[r].status = verdict
          /\ run'[r].version = run[r].version /\ run'[r].issued = run[r].issued
          /\ \A q \in Runs : q # r => run'[q] = run[q]
        BY <1>15, <2>0 DEF Decide
    <2>7. UNCHANGED <<calc, submit, finalize>>
        BY <1>15 DEF Decide
    <2>8. PendingOn(r)' = {} /\ \A q \in Runs : q # r => PendingOn(q)' = PendingOn(q)
        <3>1. \A b \in Approvals : ~(approval'[b].status = "PENDING" /\ approval'[b].run = r)
            <4>1. approval'[a].status # "PENDING"
                BY <2>5 DEF Verdict
            <4>2. \A b \in Approvals :
                     approval[b].status = "PENDING" /\ approval[b].run = r => b = a
                BY <2>4 DEF PendingOn
            <4>3. QED
                BY <2>5, <4>1, <4>2
        <3>2. ASSUME NEW q \in Runs, q # r
              PROVE  \A b \in Approvals :
                        approval'[b].status = "PENDING" /\ approval'[b].run = q
                          <=> approval[b].status = "PENDING" /\ approval[b].run = q
            BY <2>0, <2>5, <3>2
        <3>3. PendingOn(r)' = {}
            BY <3>1 DEF PendingOn
        <3>4. ASSUME NEW q \in Runs, q # r PROVE PendingOn(q)' = PendingOn(q)
            BY <3>2, <3>4 DEF PendingOn
        <3>5. QED
            BY <3>3, <3>4
    <2>9. CalcFits'
        BY <2>2, <2>7 DEF CalcFits
    <2>10. SubmitFits' /\ FinalizeFits' /\ RaisedIsPending'
        BY <2>2, <2>7 DEF SubmitFits, FinalizeFits, RaisedIsPending
    <2>11. IssuedWhenFinalized'
        BY <2>4, <2>6 DEF Verdict, IssuedWhenFinalized
    <2>12. PendingIsCurrent'
        <3>1. ASSUME NEW q \in Runs, q # r, NEW b \in PendingOn(q)
              PROVE  approval'[b] = approval[b] /\ run'[q] = run[q]
            <4>1. b # a /\ b \in Approvals
                BY <2>3, <3>1 DEF PendingOn
            <4>2. QED
                BY <2>5, <2>6, <3>1, <4>1
        <3>2. ASSUME NEW q \in Runs, q # r, NEW b \in PendingOn(q)'
              PROVE  /\ approval'[b].shown = run'[q].version
                     /\ run'[q].status = "APPROVAL_PENDING" /\ run'[q].approval = b
            <4>1. b \in PendingOn(q) /\ approval'[b] = approval[b] /\ run'[q] = run[q]
                BY <2>8, <3>1, <3>2
            <4>2. /\ approval[b].shown = run[q].version
                  /\ run[q].status = "APPROVAL_PENDING" /\ run[q].approval = b
                BY <2>2, <4>1 DEF PendingIsCurrent
            <4>3. QED
                BY <4>1, <4>2
        <3>3. QED
            BY <2>8, <3>2 DEF PendingIsCurrent
    <2>13. ShownBefore'
        <3>1. \A q \in Runs : run'[q].version = run[q].version
            BY <2>6
        <3>2. ASSUME NEW b \in Approvals, approval'[b].status # "NONE"
              PROVE  /\ approval[b].status # "NONE"
                     /\ approval'[b].run = approval[b].run /\ approval'[b].shown = approval[b].shown
            BY <2>0, <2>1, <2>5, <3>2
        <3>3. QED
            BY <3>1, <3>2 DEF HandlesTyped, ShownBefore
    <2>14. AnswerCounts'
        <3>1. ASSUME NEW b \in Approvals, b # a, approval[b].status \in Verdict, approval[b].run = r
              PROVE  approval[b].shown # run[r].version
            BY <2>4, <3>1 DEF Verdict, AnswerCounts
        <3>2. ASSUME NEW b \in Approvals, b # a, approval[b].status \in Verdict,
                     approval[b].shown = run'[approval[b].run].version
              PROVE  run'[approval[b].run].status \in {approval[b].status, "FINALIZED"}
            <4>1. approval[b].run \in Runs /\ approval[b].run # r
                BY <2>6, <3>1, <3>2 DEF HandlesTyped, Verdict
            <4>2. QED
                BY <2>6, <3>2, <4>1 DEF AnswerCounts
        <3>3. QED
            BY <2>5, <2>6, <3>2 DEF AnswerCounts
    <2>15. ApprovedByOne'
        <3>1. run'[r].status \in {"APPROVED", "FINALIZED"} =>
                 /\ approval'[a].run = r /\ approval'[a].status = "APPROVED"
                 /\ approval'[a].shown = run'[r].version
            BY <2>4, <2>5, <2>6 DEF Verdict
        <3>2. ASSUME NEW q \in Runs, q # r, run'[q].status \in {"APPROVED", "FINALIZED"}
              PROVE  \E b \in Approvals :
                         /\ approval'[b].run = q /\ approval'[b].status = "APPROVED"
                         /\ approval'[b].shown = run'[q].version
            <4>1. PICK b \in Approvals : /\ approval[b].run = q /\ approval[b].status = "APPROVED"
                                         /\ approval[b].shown = run[q].version
                BY <2>6, <3>2 DEF ApprovedByOne
            <4>2. b # a
                BY <2>1, <4>1
            <4>3. QED
                BY <2>5, <2>6, <3>2, <4>1, <4>2
        <3>3. QED
            BY <3>1, <3>2 DEF ApprovedByOne
    <2>16. QED
        BY <2>9, <2>10, <2>11, <2>12, <2>13, <2>14, <2>15
<1>16. ASSUME NEW r \in Runs, CheckFinalize(r) PROVE RunInv'
    <2>1. run[r].status = "APPROVED" /\ \A q \in Runs : q # r => finalize'[q] = finalize[q]
        BY <1>16 DEF CheckFinalize
    <2>2. UNCHANGED <<run, approval, calc, submit>>
        BY <1>16 DEF CheckFinalize
    <2>3. QED
        BY <1>16, <2>1, <2>2
        DEF CheckFinalize, PendingOn, CalcFits, SubmitFits, FinalizeFits, IssuedWhenFinalized,
            PendingIsCurrent, RaisedIsPending, ShownBefore, ApprovedByOne, AnswerCounts
<1>17. ASSUME NEW r \in Runs, CommitFinalize(r) PROVE RunInv'
    <2>1. finalize[r] = "checked" /\ run[r].status = "APPROVED"
        BY <1>17 DEF CommitFinalize, FinalizeFits
    <2>2. \A q \in Runs : calc[q].pc = "idle" /\ submit[q].pc = "idle"
        BY <2>1 DEF OneAtATime
    <2>3. /\ run'[r].status = "FINALIZED" /\ run'[r].issued = TRUE
          /\ run'[r].version = run[r].version /\ run'[r].approval = run[r].approval
          /\ \A q \in Runs : q # r => run'[q] = run[q]
        BY <1>17 DEF CommitFinalize
    <2>4. finalize'[r] = "idle" /\ \A q \in Runs : q # r => finalize'[q] = finalize[q]
        BY <1>17 DEF CommitFinalize
    <2>5. UNCHANGED <<approval, calc, submit>>
        BY <1>17 DEF CommitFinalize
    <2>6. \A q \in Runs : PendingOn(q)' = PendingOn(q)
        BY <2>5 DEF PendingOn
    <2>7. CalcFits'
        BY <2>2, <2>5 DEF CalcFits
    <2>8. SubmitFits' /\ RaisedIsPending'
        BY <2>2, <2>5 DEF SubmitFits, RaisedIsPending
    <2>9. FinalizeFits'
        BY <2>1, <2>3, <2>4 DEF FinalizeFits
    <2>10. IssuedWhenFinalized'
        BY <2>3, IssuedKept
    <2>11. PendingIsCurrent'
        BY <2>1, <2>2, <2>3, <2>5, <2>6 DEF PendingIsCurrent
    <2>12. \A q \in Runs : run'[q].version = run[q].version
        BY <2>3
    <2>13. ShownBefore'
        BY <2>5, <2>12 DEF HandlesTyped, ShownBefore
    <2>14. AnswerCounts'
        BY <2>3, <2>5, <2>12 DEF HandlesTyped, Verdict, AnswerCounts
    <2>15. ApprovedByOne'
        BY <2>1, <2>3, <2>5, <2>12 DEF ApprovedByOne
    <2>16. QED
        BY <2>7, <2>8, <2>9, <2>10, <2>11, <2>13, <2>14, <2>15
<1>18. ASSUME NEW r \in Runs, FailFinalize(r) PROVE RunInv'
    <2>1. finalize[r] = "checked" /\ \A q \in Runs : q # r => finalize'[q] = finalize[q]
        BY <1>18 DEF FailFinalize
    <2>2. UNCHANGED <<run, approval, calc, submit>>
        BY <1>18 DEF FailFinalize
    <2>3. QED
        BY <1>18, <2>1, <2>2
        DEF FailFinalize, PendingOn, CalcFits, SubmitFits, FinalizeFits, IssuedWhenFinalized,
            PendingIsCurrent, RaisedIsPending, ShownBefore, ApprovedByOne, AnswerCounts
<1>19. ASSUME UNCHANGED vars PROVE RunInv'
    BY <1>1, <1>19 DEF vars
<1>20. QED
    BY <1>1, <1>2, <1>3, <1>4, <1>5, <1>6, <1>7, <1>8, <1>9, <1>10,
       <1>11, <1>12, <1>13, <1>14, <1>15, <1>16, <1>17, <1>18, <1>19 DEF Next

\* A step that leaves claims, items and payslips alone, and opens no calculation,
\* keeps what they have to do with each other.
LEMMA MoneyUntouched ==
    ASSUME MoneyInv, UNCHANGED claim,
           \A q \in Runs : run'[q].items = run[q].items /\ run'[q].issued = run[q].issued,
           \A q \in Runs : calc'[q].pc = "open" => calc'[q] = calc[q]
    PROVE  MoneyInv'
<1>1. UNCHANGED Waiting /\ \A q \in Runs : Included(q)' = Included(q)
    BY DEF Waiting, Included
<1>2. QueueFits'
    BY <1>1 DEF MoneyInv, QueueFits
<1>3. ItemsAreIncluded'
    BY <1>1 DEF MoneyInv, ItemsAreIncluded
<1>4. IssuedIsPaid'
    BY DEF MoneyInv, IssuedIsPaid
<1>5. QED
    BY <1>2, <1>3, <1>4 DEF MoneyInv

\* So does a step that writes one claim which no run has taken up.
LEMMA OneClaimWritten ==
    ASSUME TypeOK, MoneyInv, NEW c \in Claims,
           claim[c].pay = "NOT_READY", claim'[c].pay \in {"NOT_READY", "PENDING_PAYROLL"},
           \A d \in Claims : d # c => claim'[d] = claim[d],
           UNCHANGED <<run, calc>>, \A q \in Runs : calc[q].pc = "idle"
    PROVE  MoneyInv'
<1>1. \A q \in Runs : Included(q)' = Included(q)
    BY DEF Included
<1>2. QueueFits'
    BY DEF QueueFits
<1>3. ItemsAreIncluded'
    BY <1>1 DEF MoneyInv, ItemsAreIncluded
<1>4. IssuedIsPaid'
    <2>1. \A q \in Runs : run[q].items \subseteq Claims
        BY DEF TypeOK, PayRuns
    <2>2. QED
        BY <2>1 DEF MoneyInv, IssuedIsPaid
<1>5. QED
    BY <1>2, <1>3, <1>4 DEF MoneyInv

\* Served one at a time, claims, items and payslips stay in step.
LEMMA MoneyKept ==
    ASSUME Serial, TypeOK, HandlesTyped, OneAtATime, CheckedClaimFits, PendingIsSubmitted,
           PayFollowsApproval, MoneyInv, [Next]_vars
    PROVE  MoneyInv'
<1>0. /\ run \in [Runs -> PayRuns] /\ claim \in [Claims -> ExpenseClaims]
      /\ approval \in [Approvals -> ApprovalRows] /\ calc \in [Runs -> Calcs]
    BY DEF TypeOK
<1> USE <1>0 DEF MoneyInv, PayRuns, ExpenseClaims, Calcs
<1>1. ASSUME UNCHANGED <<run, claim, calc>> PROVE MoneyInv'
    BY <1>1, MoneyUntouched
<1>2. ASSUME NEW c \in Claims, CheckClaim(c) PROVE MoneyInv'
    BY <1>1, <1>2 DEF CheckClaim
<1>3. ASSUME NEW c \in Claims, SubmitClaim(c) PROVE MoneyInv'
    <2>1. posts[c] > 0
        BY <1>3 DEF SubmitClaim
    <2>2. /\ \A q \in Runs : calc[q].pc = "idle"
          /\ claim[c].pay = "NOT_READY"
        BY <2>1 DEF OneAtATime, CheckedClaimFits, PayFollowsApproval
    <2>3. UNCHANGED <<run, calc>>
        BY <1>3 DEF SubmitClaim
    <2>4. CASE UNCHANGED claim
        BY <2>3, <2>4, MoneyUntouched
    <2>5. CASE claim' = [claim EXCEPT ![c] =
                            [@ EXCEPT !.status = "SUBMITTED", !.approval = "PENDING",
                                      !.pay = "NOT_READY"]]
        <3> DEFINE new == [claim[c] EXCEPT !.status = "SUBMITTED", !.approval = "PENDING",
                                           !.pay = "NOT_READY"]
        <3>1. claim[c] \in ExpenseClaims
            BY <1>0
        <3>2. new.pay = "NOT_READY"
            BY <3>1
        <3>3. claim'[c] = new /\ \A d \in Claims : d # c => claim'[d] = claim[d]
            BY <2>5
        <3> HIDE DEF new
        <3>4. QED
            BY <2>2, <2>3, <3>2, <3>3, OneClaimWritten
    <2>6. QED
        BY <1>3, <2>4, <2>5 DEF SubmitClaim
<1>4. ASSUME NEW c \in Claims, CancelClaim(c) PROVE MoneyInv'
    <2>1. posts[c] > 0
        BY <1>4 DEF CancelClaim
    <2>2. /\ \A q \in Runs : calc[q].pc = "idle"
          /\ claim[c].pay = "NOT_READY"
        BY <2>1 DEF OneAtATime, CheckedClaimFits, PayFollowsApproval
    <2>3. UNCHANGED <<run, calc>>
        BY <1>4 DEF CancelClaim
    <2>4. /\ claim'[c].pay = claim[c].pay
          /\ \A d \in Claims : d # c => claim'[d] = claim[d]
        BY <1>4 DEF CancelClaim
    <2>5. QED
        BY <2>2, <2>3, <2>4, OneClaimWritten
<1>5. ASSUME NEW c \in Claims, NEW verdict \in Verdict, DecideClaim(c, verdict)
      PROVE  MoneyInv'
    <2> DEFINE pay == IF verdict = "APPROVED" THEN "PENDING_PAYROLL" ELSE "NOT_READY"
               new == [claim[c] EXCEPT !.status = verdict, !.approval = verdict, !.pay = pay]
    <2>1. \A q \in Runs : calc[q].pc = "idle"
        BY <1>5 DEF DecideClaim, MayStart, Quiet
    <2>2. claim[c].approval = "PENDING"
        BY <1>5 DEF DecideClaim, MayDecide
    <2>3. claim[c].pay = "NOT_READY"
        BY <2>2 DEF PendingIsSubmitted, PayFollowsApproval
    <2>4. claim'[c] = new /\ \A d \in Claims : d # c => claim'[d] = claim[d]
        BY <1>5 DEF DecideClaim
    <2>5. claim[c] \in ExpenseClaims
        BY <1>0
    <2>6. new.pay = pay
        BY <2>5
    <2>7. pay \in {"NOT_READY", "PENDING_PAYROLL"}
        OBVIOUS
    <2>8. UNCHANGED <<run, calc>>
        BY <1>5 DEF DecideClaim
    <2> HIDE DEF new, pay
    <2>9. QED
        BY <2>1, <2>3, <2>4, <2>6, <2>7, <2>8, OneClaimWritten
<1>6. ASSUME NEW r \in Runs, BeginCalc(r) PROVE MoneyInv'
    <2>1. \A q \in Runs : calc'[q].pc = "open" => calc'[q] = calc[q]
        BY <1>6 DEF BeginCalc, NoCalc
    <2>2. UNCHANGED <<run, claim>>
        BY <1>6 DEF BeginCalc
    <2>3. QED
        BY <2>1, <2>2, MoneyUntouched
<1>7. ASSUME NEW r \in Runs, CancelApproval(r) PROVE MoneyInv'
    <2>1. \A q \in Runs : calc'[q].pc = "open" => calc'[q] = calc[q]
        BY <1>7 DEF CancelApproval, NoCalc
    <2>2. UNCHANGED <<run, claim>>
        BY <1>7 DEF CancelApproval
    <2>3. QED
        BY <2>1, <2>2, MoneyUntouched
<1>8. ASSUME NEW r \in Runs, OpenCalc(r) PROVE MoneyInv'
    <2>1. \A q \in Runs : q # r => calc[q].pc = "idle"
        BY <1>8 DEF OpenCalc, OneAtATime
    <2>2. calc'[r].seen = Waiting \cup Included(r) /\ \A q \in Runs : q # r => calc'[q] = calc[q]
        BY <1>8 DEF OpenCalc
    <2>3. UNCHANGED <<run, claim>>
        BY <1>8 DEF OpenCalc
    <2>4. QueueFits'
        <3>1. UNCHANGED Waiting /\ \A q \in Runs : Included(q)' = Included(q)
            BY <2>3 DEF Waiting, Included
        <3>2. QED
            BY <2>1, <2>2, <3>1 DEF QueueFits
    <2>5. ItemsAreIncluded' /\ IssuedIsPaid'
        BY <2>3 DEF ItemsAreIncluded, IssuedIsPaid, Included
    <2>6. QED
        BY <2>4, <2>5
<1>9. ASSUME NEW r \in Runs, CommitCalc(r) PROVE MoneyInv'
    <2>1. PICK taken \in SUBSET calc[r].seen, clean \in BOOLEAN :
             /\ claim' = TakeUp(r, taken)
             /\ run' = [run EXCEPT ![r] =
                          [status |-> "CALCULATED", approval |-> calc[r].approval,
                           items |-> taken, clean |-> clean,
                           version |-> @.version + 1, issued |-> FALSE]]
        BY <1>9 DEF CommitCalc
    <2>2. calc[r].pc = "open" /\ calc'[r].pc = "idle"
        BY <1>9 DEF CommitCalc, NoCalc
    <2>3. \A q \in Runs : calc'[q].pc = "idle"
        BY <1>9, <2>2 DEF CommitCalc, OneAtATime, NoCalc
    <2>4. taken \in SUBSET Claims /\ \A c \in taken : c \in Waiting \/ c \in Included(r)
        BY <2>2 DEF QueueFits
    <2>5. /\ run'[r].items = taken /\ run'[r].issued = FALSE
          /\ \A q \in Runs : q # r => run'[q] = run[q]
        BY <2>1
    <2>6. \A c \in taken : claim'[c].pay = "INCLUDED_IN_PAYROLL" /\ claim'[c].run = r
        BY <2>1, <2>4, TakeUpWrites
    <2>7. \A c \in Claims : c \notin taken /\ c \in Included(r) => claim'[c].pay = "PENDING_PAYROLL"
        BY <2>1, <2>4, TakeUpWrites
    <2>8. \A c \in Claims : c \notin taken /\ c \notin Included(r) => claim'[c] = claim[c]
        BY <2>1, <2>4, TakeUpWrites
    <2>9. \A c \in Claims : c \in taken \/ c \in Included(r) =>
               /\ claim[c].pay # "PAID"
               /\ claim[c].pay = "INCLUDED_IN_PAYROLL" => claim[c].run = r
        BY <2>4 DEF Waiting, Included
    <2>10. Included(r)' = taken
        BY <2>4, <2>6, <2>7, <2>8 DEF Included
    <2>11. \A q \in Runs : q # r => Included(q)' = Included(q)
        BY <2>4, <2>6, <2>7, <2>8, <2>9 DEF Included
    <2>12. ItemsAreIncluded'
        BY <2>5, <2>10, <2>11 DEF ItemsAreIncluded
    <2>13. IssuedIsPaid'
        <3>1. ASSUME NEW q \in Runs, q # r, run[q].issued, NEW c \in run[q].items
              PROVE  claim'[c].pay = "PAID" /\ claim'[c].run = q
            <4>1. c \in Claims /\ claim[c].pay = "PAID" /\ claim[c].run = q
                BY <3>1 DEF IssuedIsPaid
            <4>2. QED
                BY <2>8, <2>9, <4>1
        <3>2. QED
            BY <2>5, <3>1 DEF IssuedIsPaid
    <2>14. QueueFits'
        BY <2>3 DEF QueueFits
    <2>15. QED
        BY <2>12, <2>13, <2>14
<1>10. ASSUME NEW r \in Runs, FailCalc(r) PROVE MoneyInv'
    <2>1. \A q \in Runs : calc'[q].pc = "open" => calc'[q] = calc[q]
        BY <1>10 DEF FailCalc, NoCalc
    <2>2. UNCHANGED <<run, claim>>
        BY <1>10 DEF FailCalc
    <2>3. QED
        BY <2>1, <2>2, MoneyUntouched
<1>11. ASSUME NEW r \in Runs, CheckSubmit(r) PROVE MoneyInv'
    BY <1>1, <1>11 DEF CheckSubmit
<1>12. ASSUME NEW r \in Runs, RaiseApproval(r) PROVE MoneyInv'
    BY <1>1, <1>12 DEF RaiseApproval
<1>13. ASSUME NEW r \in Runs, SaveSubmit(r) PROVE MoneyInv'
    <2>1. \A q \in Runs : run'[q].items = run[q].items /\ run'[q].issued = run[q].issued
        BY <1>13 DEF SaveSubmit
    <2>2. UNCHANGED <<claim, calc>>
        BY <1>13 DEF SaveSubmit
    <2>3. QED
        BY <2>1, <2>2, MoneyUntouched
<1>14. ASSUME NEW r \in Runs, CrashSubmit(r) PROVE MoneyInv'
    BY <1>1, <1>14 DEF CrashSubmit
<1>15. ASSUME NEW a \in Approvals, NEW verdict \in Verdict, Decide(a, verdict)
      PROVE  MoneyInv'
    <2>1. \A q \in Runs : run'[q].items = run[q].items /\ run'[q].issued = run[q].issued
        BY <1>15 DEF Decide
    <2>2. UNCHANGED <<claim, calc>>
        BY <1>15 DEF Decide
    <2>3. QED
        BY <2>1, <2>2, MoneyUntouched
<1>16. ASSUME NEW r \in Runs, CheckFinalize(r) PROVE MoneyInv'
    BY <1>1, <1>16 DEF CheckFinalize
<1>17. ASSUME NEW r \in Runs, CommitFinalize(r) PROVE MoneyInv'
    <2>1. finalize[r] = "checked" /\ UNCHANGED calc
        BY <1>17 DEF CommitFinalize
    <2>2. \A q \in Runs : calc'[q].pc = "idle"
        BY <2>1 DEF OneAtATime
    <2>3. /\ run'[r].items = run[r].items /\ run'[r].issued = TRUE
          /\ \A q \in Runs : q # r => run'[q] = run[q]
        BY <1>17 DEF CommitFinalize
    <2>4. ASSUME NEW c \in Claims
          PROVE  /\ c \in Included(r) => claim'[c].pay = "PAID"
                 /\ c \notin Included(r) => claim'[c] = claim[c]
                 /\ claim'[c].run = claim[c].run
        <3>1. claim[c] \in ExpenseClaims
            BY <1>0
        <3>2. claim'[c] = IF c \in Included(r) THEN [claim[c] EXCEPT !.pay = "PAID"] ELSE claim[c]
            BY <1>17 DEF CommitFinalize
        <3>3. QED
            BY <3>1, <3>2
    <2>5. \A c \in Included(r) : c \in Claims /\ claim[c].pay # "PAID" /\ claim[c].run = r
        BY DEF Included
    <2>6. \A q \in Runs : q # r => Included(q)' = Included(q)
        BY <2>4, <2>5 DEF Included
    <2>7. ItemsAreIncluded'
        BY <2>3, <2>6 DEF ItemsAreIncluded
    <2>8. ASSUME NEW c \in run[r].items PROVE claim'[c].pay = "PAID" /\ claim'[c].run = r
        <3>1. c \in Claims
            BY <1>0
        <3>2. CASE run[r].issued
            BY <2>4, <2>5, <3>1, <3>2 DEF IssuedIsPaid
        <3>3. CASE ~run[r].issued
            BY <2>4, <2>5, <3>1, <3>3 DEF ItemsAreIncluded
        <3>4. QED
            BY <3>2, <3>3
    <2>9. ASSUME NEW q \in Runs, q # r, run[q].issued, NEW c \in run[q].items
          PROVE  claim'[c].pay = "PAID" /\ claim'[c].run = q
        <3>1. c \in Claims /\ claim[c].pay = "PAID" /\ claim[c].run = q
            BY <1>0, <2>9 DEF IssuedIsPaid
        <3>2. QED
            BY <2>4, <2>5, <3>1
    <2>10. IssuedIsPaid'
        BY <2>3, <2>8, <2>9 DEF IssuedIsPaid
    <2>11. QueueFits'
        BY <2>2 DEF QueueFits
    <2>12. QED
        BY <2>7, <2>10, <2>11
<1>18. ASSUME NEW r \in Runs, FailFinalize(r) PROVE MoneyInv'
    BY <1>1, <1>18 DEF FailFinalize
<1>19. ASSUME UNCHANGED vars PROVE MoneyInv'
    BY <1>1, <1>19 DEF vars
<1>20. QED
    BY <1>1, <1>2, <1>3, <1>4, <1>5, <1>6, <1>7, <1>8, <1>9, <1>10,
       <1>11, <1>12, <1>13, <1>14, <1>15, <1>16, <1>17, <1>18, <1>19 DEF Next

\* A claim that is paid stays on a payslip: the run that paid it is not calculated again.
LEMMA PaidStaysIssued ==
    ASSUME Serial, TypeOK, CheckedClaimFits, PendingIsSubmitted, PayFollowsApproval, RunInv,
           MoneyInv, PaidIsIssued, [Next]_vars
    PROVE  PaidIsIssued'
<1>0. /\ run \in [Runs -> PayRuns] /\ claim \in [Claims -> ExpenseClaims]
      /\ calc \in [Runs -> Calcs]
    BY DEF TypeOK
<1> USE <1>0 DEF PayRuns, ExpenseClaims, Calcs
<1> DEFINE NonePaid == \A c \in Claims : claim'[c].pay = "PAID" => claim[c].pay = "PAID"
           Stay == \A r \in Runs : run[r].issued =>
                       run'[r].issued /\ run'[r].items = run[r].items
<1>1. ASSUME NonePaid, Stay PROVE PaidIsIssued'
    BY <1>1 DEF PaidIsIssued
<1>2. ASSUME NEW c \in Claims, SubmitClaim(c) PROVE PaidIsIssued'
    BY <1>1, <1>2 DEF SubmitClaim
<1>3. ASSUME NEW c \in Claims, CancelClaim(c) PROVE PaidIsIssued'
    BY <1>1, <1>3 DEF CancelClaim
<1>4. ASSUME NEW c \in Claims, NEW verdict \in Verdict, DecideClaim(c, verdict)
      PROVE  PaidIsIssued'
    BY <1>1, <1>4 DEF DecideClaim
<1>5. ASSUME NEW r \in Runs, CommitCalc(r) PROVE PaidIsIssued'
    <2>1. PICK taken \in SUBSET calc[r].seen, clean \in BOOLEAN :
             /\ claim' = TakeUp(r, taken)
             /\ run' = [run EXCEPT ![r] =
                          [status |-> "CALCULATED", approval |-> calc[r].approval,
                           items |-> taken, clean |-> clean,
                           version |-> @.version + 1, issued |-> FALSE]]
        BY <1>5 DEF CommitCalc
    <2>2. ~run[r].issued /\ \A q \in Runs : q # r => run'[q] = run[q]
        BY <1>5, <2>1 DEF CommitCalc, RunInv, CalcFits, IssuedWhenFinalized
    <2>3. NonePaid
        <3>1. calc[r].seen \subseteq Claims
            BY <1>0
        <3>2. taken \in SUBSET Claims
            BY <2>1, <3>1
        <3>3. ASSUME NEW c \in Claims, claim'[c].pay = "PAID" PROVE claim[c].pay = "PAID"
            <4>1. c \notin taken /\ c \notin Included(r)
                BY <2>1, <3>2, <3>3, TakeUpWrites
            <4>2. QED
                BY <2>1, <3>2, <3>3, <4>1, TakeUpWrites
        <3>4. QED
            BY <3>3
    <2>4. QED
        BY <1>1, <2>2, <2>3
<1>6. ASSUME NEW r \in Runs, SaveSubmit(r) PROVE PaidIsIssued'
    BY <1>1, <1>6 DEF SaveSubmit
<1>7. ASSUME NEW a \in Approvals, NEW verdict \in Verdict, Decide(a, verdict)
      PROVE  PaidIsIssued'
    BY <1>1, <1>7 DEF Decide
<1>8. ASSUME NEW r \in Runs, CommitFinalize(r) PROVE PaidIsIssued'
    <2>1. run[r].items = Included(r)
        BY <1>8 DEF CommitFinalize, RunInv, FinalizeFits, IssuedWhenFinalized, MoneyInv,
                    ItemsAreIncluded
    <2>2. /\ run'[r].items = run[r].items /\ run'[r].issued = TRUE
          /\ \A q \in Runs : q # r => run'[q] = run[q]
        BY <1>8 DEF CommitFinalize
    <2>3. ASSUME NEW c \in Claims, claim'[c].pay = "PAID"
          PROVE  \E q \in Runs : run'[q].issued /\ c \in run'[q].items
        <3>1. claim[c].pay = "PAID" \/ c \in Included(r)
            BY <1>8, <2>3 DEF CommitFinalize
        <3>2. CASE c \in Included(r)
            BY <2>1, <2>2, <3>2
        <3>3. CASE claim[c].pay = "PAID"
            BY <2>2, <3>3 DEF PaidIsIssued
        <3>4. QED
            BY <3>1, <3>2, <3>3
    <2>4. QED
        BY <2>3 DEF PaidIsIssued
<1>9. CASE UNCHANGED <<run, claim>>
    BY <1>1, <1>9
<1>10. QED
    BY <1>2, <1>3, <1>4, <1>5, <1>6, <1>7, <1>8, <1>9
       DEF Next, CheckClaim, BeginCalc, CancelApproval, OpenCalc, FailCalc, CheckSubmit,
           RaiseApproval, CrashSubmit, CheckFinalize, FailFinalize, vars

----------------------------------------------------------------------------
(* The theorems about requests that are served one at a time.              *)

\* Nothing is calculated, claimed or paid yet.
LEMMA SerialInitially == Init => SerialInv /\ WholeInv
<1> SUFFICES ASSUME Init
             PROVE  SerialInv /\ WholeInv
    OBVIOUS
<1>1. OverlapInv
    BY OverlapInitially
<1>2. OneAtATime /\ CheckedClaimFits /\ PendingIsSubmitted /\ PayFollowsApproval
    BY DEF Init, OneAtATime, CheckedClaimFits, PendingIsSubmitted, PayFollowsApproval, NoCalc,
           NoSubmit
<1>3. \A r \in Runs : PendingOn(r) = {} /\ Included(r) = {}
    BY DEF Init, PendingOn, Included
<1>4. RunInv
    BY <1>3
       DEF Init, RunInv, CalcFits, SubmitFits, FinalizeFits, IssuedWhenFinalized,
           PendingIsCurrent, RaisedIsPending, ShownBefore, ApprovedByOne, AnswerCounts, NoCalc,
           NoSubmit, Verdict
<1>5. MoneyInv /\ PaidIsIssued
    BY <1>3
       DEF Init, MoneyInv, QueueFits, ItemsAreIncluded, IssuedIsPaid, PaidIsIssued, NoCalc
<1>6. QED
    BY <1>1, <1>2, <1>4, <1>5 DEF SerialInv, WholeInv

\* Every step keeps the invariant of requests that are served one at a time.
LEMMA SerialKept ==
    ASSUME Serial, SerialInv, [Next]_vars
    PROVE  SerialInv'
<1>1. OverlapInv'
    BY OverlapKept DEF SerialInv
<1>2. OneAtATime'
    BY OneAtATimeKept DEF SerialInv, OverlapInv
<1>3. CheckedClaimFits' /\ PendingIsSubmitted' /\ PayFollowsApproval'
    BY ClaimsKept DEF SerialInv, OverlapInv, MoneyInv
<1>4. MoneyInv'
    BY MoneyKept DEF SerialInv, OverlapInv
<1>5. QED
    BY <1>1, <1>2, <1>3, <1>4 DEF SerialInv

\* And the one of requests that, besides, do not die half way.
LEMMA WholeKept ==
    ASSUME Serial, ~Crashes, WholeInv, [Next]_vars
    PROVE  WholeInv'
<1>1. SerialInv'
    BY SerialKept DEF WholeInv
<1>2. RunInv'
    BY RunsKept DEF WholeInv, SerialInv, OverlapInv
<1>3. PaidIsIssued'
    BY PaidStaysIssued DEF WholeInv, SerialInv, OverlapInv
<1>4. QED
    BY <1>1, <1>2, <1>3 DEF WholeInv

\* Served one at a time, no claim is on the payslips of two runs, even where a request
\* dies between raising an approval and recording it: a claim on payslips says which run
\* paid it.
THEOREM ClaimsPaidOnce == ASSUME Serial PROVE Spec => []PaidOnce
<1>1. SerialInv => PaidOnce
    BY DEF SerialInv, OverlapInv, TypeOK, PayRuns, MoneyInv, IssuedIsPaid, PaidOnce
<1>2. SerialInv /\ [Next]_vars => SerialInv'
    BY SerialKept
<1>3. QED
    BY SerialInitially, <1>1, <1>2, PTL DEF Spec

\* Served one at a time, only approved claims queue, are included, or are paid.
THEOREM OnlyApprovedPaid == ASSUME Serial PROVE Spec => []PayFollowsApproval
<1>1. SerialInv => PayFollowsApproval
    BY DEF SerialInv
<1>2. SerialInv /\ [Next]_vars => SerialInv'
    BY SerialKept
<1>3. QED
    BY SerialInitially, <1>1, <1>2, PTL DEF Spec

\* Served one at a time and by requests that do not die half way, the claims that say they
\* are paid are those on payslips.
THEOREM PaidMeansOnPayslip == ASSUME Serial, ~Crashes PROVE Spec => []PaidIsOnPayslip
<1>1. WholeInv => PaidIsOnPayslip
    BY DEF WholeInv, SerialInv, MoneyInv, IssuedIsPaid, PaidIsIssued, PaidIsOnPayslip
<1>2. WholeInv /\ [Next]_vars => WholeInv'
    BY WholeKept
<1>3. QED
    BY SerialInitially, <1>1, <1>2, PTL DEF Spec

\* Served one at a time, what approvers answer about the items as they are is what the
\* run becomes.
THEOREM AnswersCount == ASSUME Serial, ~Crashes PROVE Spec => []AnswerCounts
<1>1. WholeInv => AnswerCounts
    BY DEF WholeInv, RunInv
<1>2. WholeInv /\ [Next]_vars => WholeInv'
    BY WholeKept
<1>3. QED
    BY SerialInitially, <1>1, <1>2, PTL DEF Spec

\* Served one at a time and by requests that do not die half way, payslips are issued
\* only on amounts that were shown and approved.
THEOREM IssuedAsApproved == ASSUME Serial, ~Crashes PROVE Spec => []ApprovedAsShown
<1>1. WholeInv => ApprovedAsShown
    BY DEF WholeInv, RunInv, IssuedWhenFinalized, ApprovedByOne, ApprovedAsShown
<1>2. WholeInv /\ [Next]_vars => WholeInv'
    BY WholeKept
<1>3. QED
    BY SerialInitially, <1>1, <1>2, PTL DEF Spec

\* Served one at a time, payslips that are issued stay, with their amounts.
THEOREM PayslipsStay == ASSUME Serial, ~Crashes PROVE Spec => PayslipsAreFinal
<1> DEFINE Stay == \A r \in Runs : run[r].issued => run'[r].issued /\ run'[r].items = run[r].items
<1>1. ASSUME WholeInv, Next PROVE Stay
    <2>0. /\ run \in [Runs -> PayRuns]
          /\ \A r \in Runs : calc[r].pc # "idle" => ~run[r].issued
        BY <1>1 DEF WholeInv, SerialInv, OverlapInv, TypeOK, RunInv, CalcFits, IssuedWhenFinalized
    <2>1. ASSUME NEW r \in Runs, CommitCalc(r) PROVE Stay
        <3>1. ~run[r].issued /\ \A q \in Runs : q # r => run'[q] = run[q]
            BY <2>0, <2>1 DEF CommitCalc
        <3>2. QED
            BY <3>1
    <2>2. ASSUME NEW r \in Runs, SaveSubmit(r) PROVE Stay
        BY <2>0, <2>2 DEF SaveSubmit, PayRuns
    <2>3. ASSUME NEW a \in Approvals, NEW verdict \in Verdict, Decide(a, verdict) PROVE Stay
        BY <2>0, <2>3 DEF Decide, PayRuns
    <2>4. ASSUME NEW r \in Runs, CommitFinalize(r) PROVE Stay
        BY <2>0, <2>4 DEF CommitFinalize, PayRuns
    <2>5. ASSUME UNCHANGED run PROVE Stay
        BY <2>5
    <2>6. QED
        BY <1>1, <2>1, <2>2, <2>3, <2>4, <2>5
           DEF Next, CheckClaim, SubmitClaim, CancelClaim, DecideClaim, BeginCalc,
               CancelApproval, OpenCalc, FailCalc, CheckSubmit, RaiseApproval, CrashSubmit,
               CheckFinalize, FailFinalize
<1>2. WholeInv /\ [Next]_vars => WholeInv'
    BY WholeKept
<1>3. WholeInv /\ [Next]_vars => [Stay]_vars
    BY <1>1
<1>4. QED
    BY SerialInitially, <1>2, <1>3, PTL DEF Spec, PayslipsAreFinal

----------------------------------------------------------------------------
(* Claims, approvals, calculations and payslips implement Reimbursement.   *)

\* A claim that is approved and not paid
Owed(c) == claim[c].pay \in {"PENDING_PAYROLL", "INCLUDED_IN_PAYROLL"}

\* The initial rows owe and pay nothing.
LEMMA NothingOwedInitially == Init => Reimbursing!RInit
<1> SUFFICES ASSUME Init
             PROVE  Reimbursing!RInit
    OBVIOUS
<1>1. \A c \in Claims : claim[c].pay = "NOT_READY"
    BY DEF Init
<1>2. \A r \in Runs : ~run[r].issued
    BY DEF Init
<1>3. QED
    BY <1>1, <1>2 DEF Reimbursing!RInit

\* A step that leaves what is owed, and the payslips there are, as they were
LEMMA NothingPaid ==
    ASSUME \A c \in Claims : Owed(c)' <=> Owed(c),
           \A r \in Runs : run'[r].issued = run[r].issued,
           \A r \in Runs : run[r].issued => run'[r].items = run[r].items
    PROVE  UNCHANGED Reimbursing!rvars
<1>1. {c \in Claims : Owed(c)}' = {c \in Claims : Owed(c)}
    OBVIOUS
<1>2. {r \in Runs : run[r].issued}' = {r \in Runs : run[r].issued}
    OBVIOUS
<1>3. [r \in Runs |-> IF run[r].issued THEN run[r].items ELSE {}]'
        = [r \in Runs |-> IF run[r].issued THEN run[r].items ELSE {}]
    OBVIOUS
<1>4. QED
    BY <1>1, <1>2, <1>3 DEF Reimbursing!rvars, Owed

\* An approved claim was neither owed nor paid, and is owed now; a refusal takes nothing back.
LEMMA DecisionGrants ==
    ASSUME WholeInv, Serial, NEW c \in Claims, NEW verdict \in Verdict, DecideClaim(c, verdict)
    PROVE  Reimbursing!Grant(c) \/ UNCHANGED Reimbursing!rvars
<1>1. claim[c].pay = "NOT_READY" /\ claim \in [Claims -> ExpenseClaims]
    <2>1. claim[c].approval = "PENDING"
        BY DEF DecideClaim, MayDecide
    <2>2. QED
        BY <2>1 DEF WholeInv, SerialInv, OverlapInv, TypeOK, PendingIsSubmitted, PayFollowsApproval
<1>2. /\ claim'[c].pay = IF verdict = "APPROVED" THEN "PENDING_PAYROLL" ELSE "NOT_READY"
      /\ \A d \in Claims : d # c => claim'[d] = claim[d]
      /\ UNCHANGED run
    BY <1>1 DEF DecideClaim, ExpenseClaims
<1>3. CASE verdict = "APPROVED"
    <2>1. \A d \in Claims : Owed(d)' <=> Owed(d) \/ d = c
        BY <1>2, <1>3 DEF Owed
    <2>2. {d \in Claims : Owed(d)}' = {d \in Claims : Owed(d)} \cup {c}
        BY <2>1
    <2>3. ~Owed(c)
        BY <1>1 DEF Owed
    <2>4. \A r \in Runs : ~(run[r].issued /\ c \in run[r].items)
        BY <1>1 DEF WholeInv, SerialInv, MoneyInv, IssuedIsPaid
    <2>5. Reimbursing!Grant(c)
        BY <1>2, <2>2, <2>3, <2>4 DEF Reimbursing!Grant, Owed
    <2>6. QED
        BY <2>5
<1>4. CASE verdict # "APPROVED"
    <2>1. \A d \in Claims : Owed(d)' <=> Owed(d)
        BY <1>1, <1>2, <1>4 DEF Owed
    <2>2. QED
        BY <1>2, <2>1, NothingPaid
<1>5. QED
    BY <1>3, <1>4

\* A calculation that commits takes claims up or queues them again: they stay owed.
LEMMA CalculationPaysNothing ==
    ASSUME WholeInv, NEW r \in Runs, CommitCalc(r)
    PROVE  UNCHANGED Reimbursing!rvars
<1>1. PICK taken \in SUBSET calc[r].seen, clean \in BOOLEAN :
         /\ claim' = TakeUp(r, taken)
         /\ run' = [run EXCEPT ![r] = [status |-> "CALCULATED", approval |-> calc[r].approval,
                                       items |-> taken, clean |-> clean,
                                       version |-> @.version + 1, issued |-> FALSE]]
    BY DEF CommitCalc
<1>2. TypeOK /\ calc[r].pc = "open" /\ ~run[r].issued
    BY DEF CommitCalc, WholeInv, SerialInv, OverlapInv, RunInv, CalcFits, IssuedWhenFinalized
<1>3. taken \in SUBSET Claims /\ \A c \in taken : Owed(c)
    BY <1>2 DEF WholeInv, SerialInv, MoneyInv, QueueFits, Waiting, Included, Owed
<1>4. \A c \in Claims : Owed(c)' <=> Owed(c)
    <2>1. ASSUME NEW c \in Claims
          PROVE  /\ c \in taken => claim'[c].pay = "INCLUDED_IN_PAYROLL"
                 /\ c \notin taken /\ c \in Included(r) => claim'[c].pay = "PENDING_PAYROLL"
                 /\ c \notin taken /\ c \notin Included(r) => claim'[c] = claim[c]
        BY <1>1, <1>2, <1>3, TakeUpWrites
    <2>2. \A c \in Included(r) : Owed(c)
        BY DEF Included, Owed
    <2>3. QED
        BY <1>3, <2>1, <2>2 DEF Owed
<1>5. /\ run'[r].issued = FALSE /\ \A q \in Runs : q # r => run'[q] = run[q]
      /\ run[r].issued = FALSE
    BY <1>1, <1>2 DEF TypeOK, PayRuns
<1>6. QED
    BY <1>2, <1>4, <1>5, NothingPaid

\* A finalization issues payslips for what the run holds, all of which was owed.
LEMMA FinalizationIssues ==
    ASSUME WholeInv, NEW r \in Runs, CommitFinalize(r), NEW S \in SUBSET Claims, S = Included(r)
    PROVE  Reimbursing!Issue(r, S)
<1>1. /\ run \in [Runs -> PayRuns] /\ claim \in [Claims -> ExpenseClaims]
      /\ ~run[r].issued /\ run[r].items = S
    BY DEF CommitFinalize, WholeInv, SerialInv, OverlapInv, TypeOK, RunInv, FinalizeFits,
           IssuedWhenFinalized, MoneyInv, ItemsAreIncluded
<1>2. /\ run'[r].issued = TRUE /\ run'[r].items = S
      /\ \A q \in Runs : q # r => run'[q] = run[q]
    BY <1>1 DEF CommitFinalize, PayRuns
<1>3. \A c \in Claims : Owed(c)' <=> Owed(c) /\ c \notin S
    <2>1. ASSUME NEW c \in Claims
          PROVE  /\ c \in S => claim'[c].pay = "PAID"
                 /\ c \notin S => claim'[c] = claim[c]
        <3>1. claim[c] \in ExpenseClaims
            BY <1>1
        <3>2. QED
            BY <3>1 DEF CommitFinalize, ExpenseClaims
    <2>2. QED
        BY <2>1 DEF Owed
<1>4. {c \in Claims : Owed(c)}' = {c \in Claims : Owed(c)} \ S
    BY <1>3
<1>5. S \subseteq {c \in Claims : Owed(c)}
    BY DEF Included, Owed
<1>6. {q \in Runs : run[q].issued}' = {q \in Runs : run[q].issued} \cup {r}
    BY <1>2
<1> DEFINE paid == [q \in Runs |-> IF run[q].issued THEN run[q].items ELSE {}]
<1>7. paid' = [paid EXCEPT ![r] = S]
    <2>1. paid'[r] = S /\ \A q \in Runs : q # r => paid'[q] = paid[q]
        BY <1>2
    <2>2. paid' = [q \in Runs |-> paid'[q]] /\ paid = [q \in Runs |-> paid[q]]
        OBVIOUS
    <2> HIDE DEF paid
    <2>3. QED
        BY <2>1, <2>2
<1>8. QED
    BY <1>1, <1>4, <1>5, <1>6, <1>7 DEF Reimbursing!Issue, Owed

\* Every step grants a claim, issues the payslips of a run, or neither owes nor pays.
LEMMA StepReimburses ==
    ASSUME Serial, WholeInv, [Next]_vars
    PROVE  [Reimbursing!RNext]_(Reimbursing!rvars)
<1>0. run \in [Runs -> PayRuns] /\ claim \in [Claims -> ExpenseClaims]
    BY DEF WholeInv, SerialInv, OverlapInv, TypeOK
<1>1. ASSUME NEW c \in Claims, NEW verdict \in Verdict, DecideClaim(c, verdict)
      PROVE  [Reimbursing!RNext]_(Reimbursing!rvars)
    BY <1>1, DecisionGrants DEF Reimbursing!RNext
<1>2. ASSUME NEW r \in Runs, CommitCalc(r) PROVE UNCHANGED Reimbursing!rvars
    BY <1>2, CalculationPaysNothing
<1>3. ASSUME NEW r \in Runs, CommitFinalize(r) PROVE Reimbursing!RNext
    <2>1. PICK S \in SUBSET Claims : S = Included(r)
        BY DEF Included
    <2>2. Reimbursing!Issue(r, S)
        BY <1>3, <2>1, FinalizationIssues
    <2>3. QED
        BY <2>2 DEF Reimbursing!RNext
<1>4. ASSUME NEW c \in Claims, SubmitClaim(c) \/ CancelClaim(c)
      PROVE  UNCHANGED Reimbursing!rvars
    <2>1. claim[c].pay = "NOT_READY"
        BY <1>4
           DEF SubmitClaim, CancelClaim, WholeInv, SerialInv, CheckedClaimFits, PayFollowsApproval
    <2>2. claim'[c].pay = "NOT_READY" /\ \A d \in Claims : d # c => claim'[d] = claim[d]
        BY <1>0, <1>4, <2>1 DEF SubmitClaim, CancelClaim, ExpenseClaims
    <2>3. \A d \in Claims : Owed(d)' <=> Owed(d)
        BY <2>1, <2>2 DEF Owed
    <2>4. UNCHANGED run
        BY <1>4 DEF SubmitClaim, CancelClaim
    <2>5. QED
        BY <2>3, <2>4, NothingPaid
<1>5. ASSUME UNCHANGED claim,
             \A q \in Runs : run'[q].items = run[q].items /\ run'[q].issued = run[q].issued
      PROVE  UNCHANGED Reimbursing!rvars
    BY <1>5, NothingPaid DEF Owed
<1>6. ASSUME NEW r \in Runs, SaveSubmit(r) PROVE UNCHANGED Reimbursing!rvars
    BY <1>0, <1>5, <1>6 DEF SaveSubmit, PayRuns
<1>7. ASSUME NEW a \in Approvals, NEW verdict \in Verdict, Decide(a, verdict)
      PROVE  UNCHANGED Reimbursing!rvars
    BY <1>0, <1>5, <1>7 DEF Decide, PayRuns
<1>8. CASE UNCHANGED <<run, claim>>
    BY <1>5, <1>8
<1>9. QED
    BY <1>1, <1>2, <1>3, <1>4, <1>6, <1>7, <1>8
       DEF Next, CheckClaim, BeginCalc, CancelApproval, OpenCalc, FailCalc, CheckSubmit,
           RaiseApproval, CrashSubmit, CheckFinalize, FailFinalize, vars

\* Served one at a time, and by requests that do not die half way, an approved claim stays
\* owed until the payslips of one run pay it: the expense module and the payroll module
\* implement Reimbursement.
THEOREM ClaimsAreReimbursed == ASSUME Serial, ~Crashes PROVE Spec => ImplementsReimbursement
<1>1. Init => Reimbursing!RInit
    BY NothingOwedInitially
<1>2. WholeInv /\ [Next]_vars => WholeInv'
    BY WholeKept
<1>3. WholeInv /\ [Next]_vars => [Reimbursing!RNext]_(Reimbursing!rvars)
    BY StepReimburses
<1>4. QED
    BY SerialInitially, <1>1, <1>2, <1>3, PTL
       DEF Spec, ImplementsReimbursement, Reimbursing!RSpec
=============================================================================
