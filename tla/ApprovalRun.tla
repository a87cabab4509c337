---------------------------- MODULE ApprovalRun ----------------------------
(***************************************************************************)
(* One approval run of backend/apps/approvals: a request (leave, expense   *)
(* claim, pay run, ...) walks through the stages of a workflow, and every  *)
(* stage asks its approvers through ApprovalAction rows.  Each operation   *)
(* of approvals/services.py is one action here: the module describes the   *)
(* engine when the requests on a run do not overlap.                       *)
(* ApprovalOverlap reuses these definitions and lets them overlap.         *)
(***************************************************************************)
EXTENDS Integers, Sequences

CONSTANTS
    Users,        \* users that may be asked for an approval
    NumStages,    \* stages of the workflow, numbered in sequence order
    Mode,         \* Mode[s]: "ALL" or "ANY"
    Resolvable,   \* Resolvable[s]: approver sets the stage may resolve to when
                  \* it opens (managers, roles and delegations change in time)
    Targets,      \* Targets[s]: users the stage's SLA policy may escalate to
    CancelAs      \* subject statuses a caller of cancel_approval_run passes;
                  \* "KEEP" stands for subject_status=None

Stages == 1..NumStages

ASSUME ApprovalRunAssumption ==
    /\ NumStages \in Nat \ {0}
    /\ Mode \in [Stages -> {"ALL", "ANY"}]
    /\ Resolvable \in [Stages -> SUBSET ((SUBSET Users) \ {{}})]
    /\ Targets \in [Stages -> SUBSET Users]
    /\ CancelAs \subseteq {"CANCELLED", "WITHDRAWN", "KEEP"}

VARIABLES
    run,        \* the ApprovalRun row: status and current_stage_sequence
    acts,       \* acts[s][u]: status of u's ApprovalAction in stage s, or "NONE"
    escalated,  \* pairs <<s, u>> whose action has escalated_at set
    subject,    \* status column of the run's content_object
    delivered,  \* statuses handed to the subject so far, oldest first
    blocked     \* get_org_operations_guard: approval_actions_blocked

vars == <<run, acts, escalated, subject, delivered, blocked>>

RunStatus == {"NONE", "PENDING", "APPROVED", "REJECTED", "CANCELLED"}
ActionStatus ==
    {"NONE", "PENDING", "APPROVED", "REJECTED", "SKIPPED", "CANCELLED"}
SubjectStatus == {"PENDING", "APPROVED", "REJECTED", "CANCELLED", "WITHDRAWN"}

TypeOK ==
    /\ run \in [status : RunStatus, stage : Stages]
    /\ acts \in [Stages -> [Users -> ActionStatus]]
    /\ escalated \subseteq Stages \X Users
    /\ subject \in SubjectStatus
    /\ delivered \in Seq(SubjectStatus)
    /\ blocked \in BOOLEAN

----------------------------------------------------------------------------
(* Bulk updates and the subject.                                           *)

PendingIn(a, s) == {u \in Users : a[s][u] = "PENDING"}

\* Mutant: the bulk update forgets its filter on the status
SettleBlind(a, R, to) ==
    [s \in Stages |-> [u \in Users |->
        IF <<s, u>> \in R /\ a[s][u] # "NONE" THEN to ELSE a[s][u]]]

\* queryset.exclude(id=...).filter(status=PENDING).update(status=to) over the rows of R
Settle(a, R, to) ==
    [s \in Stages |-> [u \in Users |->
        IF <<s, u>> \in R /\ a[s][u] = "PENDING" THEN to ELSE a[s][u]]]

StageRows(s) == {s} \X Users

Answer(a, s, u, status) == [a EXCEPT ![s][u] = status]

\* Mutant: a stage that resolves to nobody is opened all the same
OpenStageForNobody(a, s, next) ==
    \E S \in Resolvable[s] \cup {{}} :
        /\ \A u \in S : a[s][u] = "NONE"
        /\ next = [a EXCEPT ![s] =
                      [u \in Users |-> IF u \in S THEN "PENDING" ELSE a[s][u]]]

\* Mutant: the table has no unique constraint
OpenStageAgain(a, s, next) ==
    \E S \in Resolvable[s] :
        next = [a EXCEPT ![s] = [u \in Users |-> IF u \in S THEN "PENDING" ELSE a[s][u]]]

\* _create_stage_actions: one PENDING action per resolved approver.  An approver
\* who already has an action in the stage violates
\* unique_approval_action_per_user_stage and rolls the transaction back.
OpenStage(a, s, next) ==
    \E S \in Resolvable[s] :
        /\ \A u \in S : a[s][u] = "NONE"
        /\ next = [a EXCEPT ![s] =
                      [u \in Users |-> IF u \in S THEN "PENDING" ELSE a[s][u]]]

\* Mutant: the hook is called, the status column is not saved
DeliverOnly(status) == delivered' = Append(delivered, status) /\ UNCHANGED subject

\* _apply_subject_status: the status column, then handle_approval_status_change
ApplySubject(status) ==
    /\ subject' = status
    /\ delivered' = Append(delivered, status)

\* _advance_or_complete_run, for a run held in memory at stage from
AdvanceOrComplete(a, from) ==
    \/ /\ from = NumStages
       /\ run' = [run EXCEPT !.status = "APPROVED"]
       /\ acts' = a
       /\ ApplySubject("APPROVED")
    \/ /\ from < NumStages
       /\ run' = [run EXCEPT !.stage = from + 1]
       /\ OpenStage(a, from + 1, acts')
       /\ UNCHANGED <<subject, delivered>>

\* The actions once u approved in stage s: an ANY stage skips the other rows
AfterApproval(a, s, u, others) ==
    IF Mode[s] = "ANY" THEN Settle(Answer(a, s, u, "APPROVED"), others, "SKIPPED")
    ELSE Answer(a, s, u, "APPROVED")

\* Mutant: the stage mode is ignored
FirstAnswerCompletes(a, s) == TRUE

StageComplete(a, s) == Mode[s] = "ANY" \/ PendingIn(a, s) = {}

----------------------------------------------------------------------------
(* The operations.                                                         *)

Init ==
    /\ run = [status |-> "NONE", stage |-> 1]
    /\ acts = [s \in Stages |-> [u \in Users |-> "NONE"]]
    /\ escalated = {}
    /\ subject = "PENDING"
    /\ delivered = <<>>
    /\ blocked = FALSE

CreateRun ==
    /\ run.status = "NONE"
    /\ run' = [run EXCEPT !.status = "PENDING"]
    /\ OpenStage(acts, 1, acts')
    /\ UNCHANGED <<escalated, subject, delivered, blocked>>

Approve(s, u) ==
    /\ acts[s][u] = "PENDING"
    /\ ~blocked
    /\ LET a == AfterApproval(acts, s, u, StageRows(s))
       IN  \/ /\ StageComplete(a, s)
              /\ AdvanceOrComplete(a, run.stage)
           \/ /\ ~StageComplete(a, s)
              /\ acts' = a
              /\ UNCHANGED <<run, subject, delivered>>
    /\ UNCHANGED <<escalated, blocked>>

\* Mutant: the other pending actions are left as they are
RejectLeavingOthers(s, u) ==
    /\ acts[s][u] = "PENDING"
    /\ ~blocked
    /\ acts' = Answer(acts, s, u, "REJECTED")
    /\ run' = [run EXCEPT !.status = "REJECTED"]
    /\ ApplySubject("REJECTED")
    /\ UNCHANGED <<escalated, blocked>>

Reject(s, u) ==
    /\ acts[s][u] = "PENDING"
    /\ ~blocked
    /\ acts' = Settle(Answer(acts, s, u, "REJECTED"), Stages \X Users, "CANCELLED")
    /\ run' = [run EXCEPT !.status = "REJECTED"]
    /\ ApplySubject("REJECTED")
    /\ UNCHANGED <<escalated, blocked>>

\* One action of process_pending_action_escalations, its SLA having passed.
\* If the target already answered in this stage, the insert violates
\* unique_approval_action_per_user_stage and nothing is written.
Escalate(s, u, t) ==
    /\ run.status = "PENDING"
    /\ acts[s][u] = "PENDING"
    /\ <<s, u>> \notin escalated
    /\ t \in Targets[s] \ {u}
    /\ acts[s][t] \in {"NONE", "PENDING"}
    /\ acts' = [acts EXCEPT ![s][t] = "PENDING", ![s][u] = "CANCELLED"]
    /\ escalated' = escalated \cup {<<s, u>>}
    /\ UNCHANGED <<run, subject, delivered, blocked>>

Cancel(status) ==
    /\ run.status = "PENDING"
    /\ run' = [run EXCEPT !.status = "CANCELLED"]
    /\ acts' = Settle(acts, Stages \X Users, "CANCELLED")
    /\ \/ status = "KEEP" /\ UNCHANGED <<subject, delivered>>
       \/ status # "KEEP" /\ ApplySubject(status)
    /\ UNCHANGED <<escalated, blocked>>

\* The organisation's licences expire, or are renewed
ToggleGuard ==
    /\ blocked' = ~blocked
    /\ UNCHANGED <<run, acts, escalated, subject, delivered>>

Decide == \E s \in Stages, u \in Users : Approve(s, u) \/ Reject(s, u)

Next ==
    \/ CreateRun
    \/ \E s \in Stages, u \in Users : Approve(s, u)
    \/ \E s \in Stages, u \in Users : Reject(s, u)
    \/ \E s \in Stages, u \in Users, t \in Users : Escalate(s, u, t)
    \/ \E status \in CancelAs : Cancel(status)
    \/ ToggleGuard

Spec == Init /\ [][Next]_vars

\* An approver who is asked keeps being able to answer whenever the organisation may act,
\* and a blocked organisation is unblocked in the end
FairSpec ==
    /\ Spec
    /\ WF_vars(CreateRun)
    /\ SF_vars(Decide)
    /\ WF_vars(blocked /\ ToggleGuard)

----------------------------------------------------------------------------
(* Properties.                                                             *)

\* A request never waits for nobody: while the run is pending, some approver of
\* its current stage is asked (get_pending_approval_actions_for_user lists it).
PendingRunIsAskable ==
    run.status = "PENDING" => PendingIn(acts, run.stage) # {}

\* Nobody is asked about a decided run, nor about a stage the run is not at:
\* approve_action checks neither, it relies on the bulk updates of the others.
AskedOnlyAboutCurrentStage ==
    \A s \in Stages : PendingIn(acts, s) # {} => run.status = "PENDING" /\ s = run.stage

\* What "All approvers required" and "Any approver can complete" mean once a
\* stage is left: its rows, but for those handed on by an escalation, are all
\* approved, or exactly one is and the others are skipped.
Discharged(s) ==
    LET kept == {u \in Users : acts[s][u] # "NONE" /\ <<s, u>> \notin escalated}
        yes  == {u \in kept : acts[s][u] = "APPROVED"}
    IN  /\ yes # {}
        /\ Mode[s] = "ALL" => kept = yes
        /\ Mode[s] = "ANY" => /\ \A u, v \in yes : u = v
                              /\ \A u \in kept \ yes : acts[s][u] = "SKIPPED"

StagesLeft == {s \in Stages : s < run.stage \/ run.status = "APPROVED"}

\* No stage is passed over: a run is at a stage, or approved, only when every
\* earlier stage (every stage) was discharged by its own approvers.
LeftStagesAreDischarged == \A s \in StagesLeft : Discharged(s)

\* A run is rejected exactly when an approver rejected it, and by one only.
Rejected(s, u) == acts[s][u] = "REJECTED"
RejectionHasOneAuthor ==
    /\ (run.status = "REJECTED") <=> \E s \in Stages, u \in Users : Rejected(s, u)
    /\ \A s, t \in Stages, u, v \in Users :
          Rejected(s, u) /\ Rejected(t, v) => s = t /\ u = v

\* The subject's hook (reimbursement, comp-off redemption, encashment) runs at
\* most once, with the run's own verdict, and the status column agrees with it.
SubjectHearsOnce ==
    /\ run.status \in {"NONE", "PENDING"} => delivered = <<>> /\ subject = "PENDING"
    /\ run.status \in {"APPROVED", "REJECTED"} =>
           delivered = <<run.status>> /\ subject = run.status
    /\ run.status = "CANCELLED" =>
           \/ delivered = <<>> /\ subject = "PENDING" /\ "KEEP" \in CancelAs
           \/ delivered = <<subject>> /\ subject \in CancelAs

\* An escalated action is closed and someone else of the stage holds the request.
EscalationHandsOver ==
    \A s \in Stages, u \in Users : <<s, u>> \in escalated =>
        /\ acts[s][u] = "CANCELLED"
        /\ \E t \in Targets[s] \ {u} : acts[s][t] # "NONE"

\* "This approval action is no longer pending": an answered, skipped or
\* cancelled action keeps that status whatever requests and tasks come later.
AnswersAreFinal ==
    [][\A s \in Stages, u \in Users :
          acts[s][u] \notin {"NONE", "PENDING"} => acts'[s][u] = acts[s][u]]_vars

\* A raised request is decided in the end: no escalation or stage change can
\* keep it open for ever once approvers answer.
EventuallyDecided == run.status = "PENDING" ~> run.status \notin {"NONE", "PENDING"}

\* The engine implements ApprovalDecision.
Decision == INSTANCE ApprovalDecision WITH
    outcome <- run.status,
    granted <- IF run.status = "APPROVED" THEN NumStages ELSE run.stage - 1,
    heard <- delivered
ImplementsDecision == Decision!DSpec
============================================================================
