------------------------------- MODULE PayRun -------------------------------
(***************************************************************************)
(* The monthly pay runs of one organisation (backend/apps/payroll) and the *)
(* expense claims they reimburse (backend/apps/expenses).  A run is        *)
(* calculated by a Celery task, submitted for approval, approved, and      *)
(* finalized, which issues its payslips.  A calculation takes up every     *)
(* approved claim that is waiting; the finalization marks those claims as  *)
(* paid.  Runs are REGULAR: a RERUN takes up no claim.  No caller of       *)
(* finalize_pay_run skips the approval.                                    *)
(*                                                                         *)
(* Each request or task is several transactions: it reads the run, tests   *)
(* its status, and writes it later without a second look.  A payslip is    *)
(* its item; the items of a run are seen as the set of claims they pay.    *)
(***************************************************************************)
EXTENDS Naturals

CONSTANTS
    Runs,        \* pay runs of the organisation, each a month of its own
    Claims,      \* expense claims of its employees
    Approvals,   \* approval runs that can be raised for the pay runs, a bound
    NoApproval,  \* approval_run of a pay run that has none
    NoRun,       \* reimbursement_pay_run of a claim that has none
    MaxCalcs,    \* bound on the calculations of one run
    MaxPosts,    \* bound on the requests that submit or cancel one claim at the same time
    Serial,      \* TRUE: requests, decisions and tasks are served one at a time
    Crashes      \* TRUE: a request may die between two of its transactions

ASSUME PayAssumption ==
    /\ NoApproval \notin Approvals /\ NoRun \notin Runs
    /\ MaxCalcs \in Nat /\ MaxPosts \in Nat
    /\ Serial \in BOOLEAN /\ Crashes \in BOOLEAN

VARIABLES
    run,       \* run[r]: the PayrollRun row, its items, and whether it has payslips
    approval,  \* approval[a]: an ApprovalRun of a pay run
    claim,     \* claim[c]: the ExpenseClaim row, and the status of its approval run
    posts,     \* posts[c]: requests that have found c fit to be submitted or cancelled
    calc,      \* calc[r]: the task that calculates r
    submit,    \* submit[r]: the POST that submits r for approval
    finalize   \* finalize[r]: the POST that finalizes r

vars == <<run, approval, claim, posts, calc, submit, finalize>>

PayrollRunStatus == {"DRAFT", "CALCULATED", "APPROVAL_PENDING", "APPROVED", "REJECTED",
                     "FINALIZED"}
RunStatus == {"NONE", "PENDING", "APPROVED", "REJECTED", "CANCELLED"}
ClaimStatus == {"DRAFT", "SUBMITTED", "APPROVED", "REJECTED", "CANCELLED"}
ReimbursementStatus == {"NOT_READY", "PENDING_PAYROLL", "INCLUDED_IN_PAYROLL", "PAID"}

\* items: claims on the READY items; clean: no item is an EXCEPTION and one is READY;
\* version: how often the items were made anew; issued: the items have payslips
PayRuns == [status : PayrollRunStatus, approval : Approvals \cup {NoApproval},
            items : SUBSET Claims, clean : BOOLEAN, version : 0..MaxCalcs, issued : BOOLEAN]

ApprovalRows == [status : RunStatus, run : Runs \cup {NoRun}, shown : 0..MaxCalcs]

ExpenseClaims == [status : ClaimStatus, approval : RunStatus, pay : ReimbursementStatus,
                  run : Runs \cup {NoRun}]

Calcs == [pc : {"idle", "cancelling", "ready", "open"}, approval : Approvals \cup {NoApproval},
          seen : SUBSET Claims]

Submits == [pc : {"idle", "checked", "raised"}, approval : Approvals \cup {NoApproval}]

TypeOK ==
    /\ run \in [Runs -> PayRuns]
    /\ approval \in [Approvals -> ApprovalRows]
    /\ claim \in [Claims -> ExpenseClaims]
    /\ posts \in [Claims -> 0..MaxPosts]
    /\ calc \in [Runs -> Calcs]
    /\ submit \in [Runs -> Submits]
    /\ finalize \in [Runs -> {"idle", "checked"}]

NoCalc == [pc |-> "idle", approval |-> NoApproval, seen |-> {}]
NoSubmit == [pc |-> "idle", approval |-> NoApproval]

Quiet ==
    /\ \A c \in Claims : posts[c] = 0
    /\ \A r \in Runs : calc[r].pc = "idle" /\ submit[r].pc = "idle" /\ finalize[r] = "idle"

MayStart == Serial => Quiet

\* A decision has read its approval run as pending.  Where requests overlap, that
\* may have been decided or cancelled meanwhile, or another be pending for the
\* same subject.
MayDecide(status) == IF Serial THEN status = "PENDING" ELSE status # "NONE"

\* Claims that the items of r hold, and the rows an open calculation has locked
\* by putting them back in the queue
Included(r) == {c \in Claims : claim[c].pay = "INCLUDED_IN_PAYROLL" /\ claim[c].run = r}
Locked(r) == IF calc[r].pc = "open" THEN Included(r) ELSE {}
Free(c) == \A r \in Runs : c \notin Locked(r)

Waiting == {c \in Claims : claim[c].status = "APPROVED" /\ claim[c].pay = "PENDING_PAYROLL"}

----------------------------------------------------------------------------
(* Expense claims                                                          *)

\* Mutant: an approved claim may be cancelled, too
CheckClaimAlsoApproved(c) ==
    /\ MayStart
    /\ claim[c].status \in {"DRAFT", "REJECTED", "APPROVED"}
    /\ posts[c] < MaxPosts
    /\ posts' = [posts EXCEPT ![c] = @ + 1]
    /\ UNCHANGED <<run, approval, claim, calc, submit, finalize>>

\* The views load the claim; submitting and cancelling make the same test
CheckClaim(c) ==
    /\ MayStart
    /\ claim[c].status \in {"DRAFT", "REJECTED"}
    /\ posts[c] < MaxPosts
    /\ posts' = [posts EXCEPT ![c] = @ + 1]
    /\ UNCHANGED <<run, approval, claim, calc, submit, finalize>>

\* The transaction of submit_expense_claim, or its rollback when no workflow or
\* approver is found
SubmitClaim(c) ==
    /\ posts[c] > 0 /\ Free(c)
    /\ posts' = [posts EXCEPT ![c] = @ - 1]
    /\ \/ claim' = [claim EXCEPT ![c] = [@ EXCEPT !.status = "SUBMITTED", !.approval = "PENDING",
                                                  !.pay = "NOT_READY"]]
       \/ UNCHANGED claim
    /\ UNCHANGED <<run, approval, calc, submit, finalize>>

CancelClaim(c) ==
    /\ posts[c] > 0 /\ Free(c)
    /\ posts' = [posts EXCEPT ![c] = @ - 1]
    /\ claim' = [claim EXCEPT ![c].status = "CANCELLED"]
    /\ UNCHANGED <<run, approval, calc, submit, finalize>>

\* The verdict, and handle_approval_status_change: a claim that is approved queues,
\* whatever has been done with it already
DecideClaim(c, verdict) ==
    /\ MayStart
    /\ MayDecide(claim[c].approval) /\ Free(c)
    /\ claim' = [claim EXCEPT ![c] =
                    [@ EXCEPT !.status = verdict, !.approval = verdict,
                              !.pay = IF verdict = "APPROVED" THEN "PENDING_PAYROLL"
                                      ELSE "NOT_READY"]]
    /\ UNCHANGED <<run, approval, posts, calc, submit, finalize>>

----------------------------------------------------------------------------
(* calculate_pay_run.  The cache lock of the task admits one per run.      *)

\* Mutant: the pending approval is left alone
BeginCalcUncancelled(r) ==
    /\ MayStart
    /\ calc[r].pc = "idle" /\ run[r].version < MaxCalcs
    /\ run[r].status \notin {"APPROVED", "FINALIZED"}
    /\ calc' = [calc EXCEPT ![r] = [pc |-> "ready", approval |-> run[r].approval, seen |-> {}]]
    /\ UNCHANGED <<run, approval, claim, posts, submit, finalize>>

\* The task loads the run and its approval run, and tests both
BeginCalc(r) ==
    /\ MayStart
    /\ calc[r].pc = "idle" /\ run[r].version < MaxCalcs
    /\ run[r].status \notin {"APPROVED", "FINALIZED"}
    /\ LET a == run[r].approval
           pending == a # NoApproval /\ approval[a].status = "PENDING"
       IN  calc' = [calc EXCEPT ![r] = [pc |-> IF pending THEN "cancelling" ELSE "ready",
                                        approval |-> a, seen |-> {}]]
    /\ UNCHANGED <<run, approval, claim, posts, submit, finalize>>

\* cancel_approval_run, which leaves the status of the pay run alone
CancelApproval(r) ==
    /\ calc[r].pc = "cancelling"
    /\ approval' = [approval EXCEPT ![calc[r].approval].status = "CANCELLED"]
    /\ calc' = [calc EXCEPT ![r] = [@ EXCEPT !.pc = "ready", !.approval = NoApproval]]
    /\ UNCHANGED <<run, claim, posts, submit, finalize>>

\* Mutant: the queue is read without a look at the status of reimbursement
OpenCalcOnApproved(r) ==
    /\ calc[r].pc = "ready"
    /\ calc' = [calc EXCEPT ![r] = [@ EXCEPT !.pc = "open",
                    !.seen = {c \in Claims : claim[c].status = "APPROVED"}]]
    /\ UNCHANGED <<run, approval, claim, posts, submit, finalize>>

\* The transaction begins: it puts the claims of the run back in the queue, deletes
\* the items, and reads the queue.  Nobody sees that yet, but the rows are locked.
OpenCalc(r) ==
    /\ calc[r].pc = "ready"
    /\ calc' = [calc EXCEPT ![r] = [@ EXCEPT !.pc = "open", !.seen = Waiting \cup Included(r)]]
    /\ UNCHANGED <<run, approval, claim, posts, submit, finalize>>

\* Mutant: the claims of an employee whose item has become an exception stay included
TakeUpKeeping(r, taken) ==
    [c \in Claims |->
        IF c \in taken THEN [claim[c] EXCEPT !.pay = "INCLUDED_IN_PAYROLL", !.run = r]
        ELSE claim[c]]

\* Mutant: claims that are not taken up again leave the queue
TakeUpLosing(r, taken) ==
    [c \in Claims |->
        IF c \in taken THEN [claim[c] EXCEPT !.pay = "INCLUDED_IN_PAYROLL", !.run = r]
        ELSE IF c \in Included(r) THEN [claim[c] EXCEPT !.pay = "NOT_READY", !.run = NoRun]
        ELSE claim[c]]

\* reset_expense_claims_for_pay_run, then mark_expense_claims_included_in_payroll,
\* which saves the claims as the transaction has read them
TakeUp(r, taken) ==
    [c \in Claims |->
        IF c \in taken THEN [claim[c] EXCEPT !.pay = "INCLUDED_IN_PAYROLL", !.run = r]
        ELSE IF c \in Included(r) THEN [claim[c] EXCEPT !.pay = "PENDING_PAYROLL", !.run = NoRun]
        ELSE claim[c]]

\* The commit.  Claims of employees whose item is an exception are left out.  The
\* items that were deleted take their payslips with them.
CommitCalc(r) ==
    /\ calc[r].pc = "open"
    /\ \E taken \in SUBSET calc[r].seen, clean \in BOOLEAN :
          /\ clean => taken = calc[r].seen
          /\ \A c \in taken, q \in Runs \ {r} : c \notin Locked(q)
          /\ claim' = TakeUp(r, taken)
          /\ run' = [run EXCEPT ![r] = [status |-> "CALCULATED", approval |-> calc[r].approval,
                                        items |-> taken, clean |-> clean,
                                        version |-> @.version + 1, issued |-> FALSE]]
    /\ calc' = [calc EXCEPT ![r] = NoCalc]
    /\ UNCHANGED <<approval, posts, submit, finalize>>

\* An exception or a deadlock of two calculations: the transaction is rolled back,
\* a cancelled approval is not.  A retry of the task begins again.
FailCalc(r) ==
    /\ calc[r].pc \in {"ready", "open"}
    /\ calc' = [calc EXCEPT ![r] = NoCalc]
    /\ UNCHANGED <<run, approval, claim, posts, submit, finalize>>

----------------------------------------------------------------------------
(* submit_pay_run_for_approval, and the verdict                            *)

CheckSubmit(r) ==
    /\ MayStart
    /\ submit[r].pc = "idle"
    /\ run[r].status = "CALCULATED" /\ run[r].clean
    /\ submit' = [submit EXCEPT ![r] = [pc |-> "checked", approval |-> NoApproval]]
    /\ UNCHANGED <<run, approval, claim, posts, calc, finalize>>

\* _create_payroll_approval_run, a transaction of its own: the approvers are shown
\* the run as it is now.  Or there is no workflow.
RaiseApproval(r) ==
    /\ submit[r].pc = "checked"
    /\ \/ \E a \in Approvals :
             /\ approval[a].status = "NONE"
             /\ approval' = [approval EXCEPT ![a] = [status |-> "PENDING", run |-> r,
                                                     shown |-> run[r].version]]
             /\ submit' = [submit EXCEPT ![r] = [pc |-> "raised", approval |-> a]]
       \/ /\ submit' = [submit EXCEPT ![r] = NoSubmit]
          /\ UNCHANGED approval
    /\ UNCHANGED <<run, claim, posts, calc, finalize>>

\* Mutant: the row keeps its status
SaveSubmitLinkOnly(r) ==
    /\ submit[r].pc = "raised"
    /\ run' = [run EXCEPT ![r] = [@ EXCEPT !.approval = submit[r].approval]]
    /\ submit' = [submit EXCEPT ![r] = NoSubmit]
    /\ UNCHANGED <<approval, claim, posts, calc, finalize>>

SaveSubmit(r) ==
    /\ submit[r].pc = "raised"
    /\ run' = [run EXCEPT ![r] = [@ EXCEPT !.status = "APPROVAL_PENDING",
                                           !.approval = submit[r].approval]]
    /\ submit' = [submit EXCEPT ![r] = NoSubmit]
    /\ UNCHANGED <<approval, claim, posts, calc, finalize>>

CrashSubmit(r) ==
    /\ Crashes
    /\ submit[r].pc = "raised"
    /\ submit' = [submit EXCEPT ![r] = NoSubmit]
    /\ UNCHANGED <<run, approval, claim, posts, calc, finalize>>

\* _apply_subject_status: the verdict becomes the status of the run, whatever it was
Decide(a, verdict) ==
    /\ MayStart
    /\ MayDecide(approval[a].status)
    /\ approval' = [approval EXCEPT ![a].status = verdict]
    /\ run' = [run EXCEPT ![approval[a].run].status = verdict]
    /\ UNCHANGED <<claim, posts, calc, submit, finalize>>

----------------------------------------------------------------------------
(* finalize_pay_run                                                        *)

CheckFinalize(r) ==
    /\ MayStart
    /\ finalize[r] = "idle"
    /\ run[r].status = "APPROVED" /\ run[r].clean
    /\ finalize' = [finalize EXCEPT ![r] = "checked"]
    /\ UNCHANGED <<run, approval, claim, posts, calc, submit>>

\* Mutant: one claim of the run is missed
PaySomeOnly(r) ==
    /\ finalize[r] = "checked" /\ calc[r].pc # "open"
    /\ \E paid \in SUBSET Included(r) :
          claim' = [c \in Claims |-> IF c \in paid THEN [claim[c] EXCEPT !.pay = "PAID"] ELSE claim[c]]
    /\ run' = [run EXCEPT ![r] = [@ EXCEPT !.status = "FINALIZED", !.issued = TRUE]]
    /\ finalize' = [finalize EXCEPT ![r] = "idle"]
    /\ UNCHANGED <<approval, posts, calc, submit>>

\* The transaction: a payslip for each READY item there is now, their claims are
\* paid.  While a calculation of the run is open, the deleted items are locked.
CommitFinalize(r) ==
    /\ finalize[r] = "checked" /\ calc[r].pc # "open"
    /\ claim' = [c \in Claims |->
                    IF c \in Included(r) THEN [claim[c] EXCEPT !.pay = "PAID"] ELSE claim[c]]
    /\ run' = [run EXCEPT ![r] = [@ EXCEPT !.status = "FINALIZED", !.issued = TRUE]]
    /\ finalize' = [finalize EXCEPT ![r] = "idle"]
    /\ UNCHANGED <<approval, posts, calc, submit>>

\* The items were deleted under the transaction: it is rolled back
FailFinalize(r) ==
    /\ finalize[r] = "checked"
    /\ finalize' = [finalize EXCEPT ![r] = "idle"]
    /\ UNCHANGED <<run, approval, claim, posts, calc, submit>>

----------------------------------------------------------------------------
Init ==
    /\ run = [r \in Runs |-> [status |-> "DRAFT", approval |-> NoApproval, items |-> {},
                              clean |-> FALSE, version |-> 0, issued |-> FALSE]]
    /\ approval = [a \in Approvals |-> [status |-> "NONE", run |-> NoRun, shown |-> 0]]
    /\ claim = [c \in Claims |-> [status |-> "DRAFT", approval |-> "NONE", pay |-> "NOT_READY",
                                  run |-> NoRun]]
    /\ posts = [c \in Claims |-> 0]
    /\ calc = [r \in Runs |-> NoCalc]
    /\ submit = [r \in Runs |-> NoSubmit]
    /\ finalize = [r \in Runs |-> "idle"]

Verdict == {"APPROVED", "REJECTED"}

Next ==
    \/ \E c \in Claims : CheckClaim(c)
    \/ \E c \in Claims : SubmitClaim(c)
    \/ \E c \in Claims : CancelClaim(c)
    \/ \E c \in Claims, verdict \in Verdict : DecideClaim(c, verdict)
    \/ \E r \in Runs : BeginCalc(r)
    \/ \E r \in Runs : CancelApproval(r)
    \/ \E r \in Runs : OpenCalc(r)
    \/ \E r \in Runs : CommitCalc(r)
    \/ \E r \in Runs : FailCalc(r)
    \/ \E r \in Runs : CheckSubmit(r)
    \/ \E r \in Runs : RaiseApproval(r)
    \/ \E r \in Runs : SaveSubmit(r)
    \/ \E r \in Runs : CrashSubmit(r)
    \/ \E a \in Approvals, verdict \in Verdict : Decide(a, verdict)
    \/ \E r \in Runs : CheckFinalize(r)
    \/ \E r \in Runs : CommitFinalize(r)
    \/ \E r \in Runs : FailFinalize(r)

Spec == Init /\ [][Next]_vars
----------------------------------------------------------------------------
(* Properties                                                              *)

\* A claim is reimbursed once: no two pay runs have payslips that pay it.  A
\* calculation reads the queue and saves what it read at its end, so two
\* calculations that overlap both take the claim up.
PaidOnce ==
    \A r, q \in Runs : run[r].issued /\ run[q].issued /\ r # q
                        => run[r].items \cap run[q].items = {}

\* What the claim says and what the payslips say agree: a claim is PAID when, and
\* only when, a payslip pays it.  They are written by the expense module and the
\* payroll module, and are undone by a cascade of the database.
PaidIsOnPayslip ==
    \A c \in Claims : claim[c].pay = "PAID" <=> \E r \in Runs : run[r].issued /\ c \in run[r].items

\* Money moves for approved claims alone.  Status and reimbursement are two columns
\* that six operations write, some one, some both.
PayFollowsApproval == \A c \in Claims : claim[c].pay # "NOT_READY" => claim[c].status = "APPROVED"

\* A claim that counts as included is on an item of that run that has yet to be
\* paid: however requests overlap, no finalization misses a claim of its items,
\* and no new calculation leaves one behind.
IncludedIsOwed ==
    \A r \in Runs : \A c \in Included(r) : c \in run[r].items /\ ~run[r].issued

\* Payslips are issued only on amounts that approvers were shown and have
\* approved: a calculation withdraws the approval that is pending, and is refused
\* once it is given.
ApprovedAsShown ==
    \A r \in Runs : run[r].issued =>
        \E a \in Approvals : /\ approval[a].run = r /\ approval[a].status = "APPROVED"
                             /\ approval[a].shown = run[r].version

\* What approvers say of the items as they are is what the run becomes: no later
\* write of the request that asked them, or of anyone else, undoes the answer.
AnswerCounts ==
    \A a \in Approvals :
        approval[a].status \in Verdict /\ approval[a].shown = run[approval[a].run].version
            => run[approval[a].run].status \in {approval[a].status, "FINALIZED"}

\* Finalizing cannot be undone: payslips that are issued stay, with the amounts on
\* them.  A calculation deletes the items of its run, and with them the payslips.
PayslipsAreFinal ==
    [][\A r \in Runs : run[r].issued => run'[r].issued /\ run'[r].items = run[r].items]_vars

\* Claims, approvals, calculations and payslips together implement Reimbursement: an
\* approved claim is owed until one run's payslips pay it.  Six operations move a claim
\* in and out of a run, and none may drop it, queue it again once it is paid, or pay it
\* from a run that has issued its payslips.
Reimbursing == INSTANCE Reimbursement WITH
    owed <- {c \in Claims : claim[c].pay \in {"PENDING_PAYROLL", "INCLUDED_IN_PAYROLL"}},
    issued <- {r \in Runs : run[r].issued},
    paid <- [r \in Runs |-> IF run[r].issued THEN run[r].items ELSE {}]
ImplementsReimbursement == Reimbursing!RSpec
=============================================================================
