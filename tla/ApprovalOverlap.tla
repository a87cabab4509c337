-------------------------- MODULE ApprovalOverlap --------------------------
(***************************************************************************)
(* The approval engine as its HTTP workers and its escalation task run it. *)
(* A request is several database round trips: it reads the action, later   *)
(* reads the run, checks what it read, and only then opens a transaction,  *)
(* at PostgreSQL's READ COMMITTED, whose statements each see what is       *)
(* committed when they start and keep the rows they wrote locked until the *)
(* commit.  approve_action, reject_action and cancel_approval_run lock no  *)
(* row before they check it, so between the check and the write the rows   *)
(* may have changed.  The writes themselves are those of ApprovalRun.      *)
(***************************************************************************)
EXTENDS ApprovalRun, FiniteSets

CONSTANTS
    Requests,   \* requests in flight, each served once by some worker
    Serial      \* TRUE: a request starts only when no other is being served

ASSUME OverlapAssumption == Serial \in BOOLEAN

VARIABLES
    req,        \* req[p]: what request p is doing and what it has read
    sweep       \* rows the escalation task has read and not yet handled

ovars == <<run, acts, escalated, subject, delivered, blocked, req, sweep>>

Idle == [pc |-> "idle"]
Done == [pc |-> "done"]

Verbs == {"approve", "reject"}

\* A request on an action has read the action; then also the run; then opened
\* its transaction and chosen the rows its bulk update is to visit.
ActionRead == [pc : {"action"}, verb : Verbs, row : Stages \X Users]
RunRead ==
    [pc : {"run"}, verb : Verbs, row : Stages \X Users, stage : Stages]
    \cup [pc : {"run"}, verb : {"cancel"}, status : CancelAs]
InTx ==
    [pc : {"tx"}, verb : Verbs, row : Stages \X Users, stage : Stages,
     others : SUBSET (Stages \X Users)]
    \cup [pc : {"tx"}, verb : {"cancel"}, status : CancelAs,
          others : SUBSET (Stages \X Users)]

OverlapTypeOK ==
    /\ TypeOK
    /\ req \in [Requests -> {Idle, Done} \cup ActionRead \cup RunRead \cup InTx]
    /\ sweep \subseteq Stages \X Users

Quiet == \A p \in Requests : req[p].pc \in {"idle", "done"}

PendingRows == {r \in Stages \X Users : acts[r[1]][r[2]] = "PENDING"}

\* Rows a transaction wrote before its bulk update, and so holds until it ends
HeldRows(p) == IF req[p].pc = "tx" /\ req[p].verb \in Verbs THEN {req[p].row} ELSE {}
HoldsRun(p) == req[p].pc = "tx" /\ req[p].verb \in {"reject", "cancel"}

HeldByOthers(p) == UNION {HeldRows(q) : q \in Requests \ {p}}
RunHeldByOthers(p) == \E q \in Requests \ {p} : HoldsRun(q)

database == <<run, acts, escalated, subject, delivered>>

----------------------------------------------------------------------------
(* Requests: the reads and checks of the view and the service function.    *)

\* get_object_or_404(ApprovalAction, ...); a status that is not PENDING is refused
ReadAction(p, verb, s, u) ==
    /\ req[p] = Idle
    /\ Serial => Quiet
    /\ acts[s][u] = "PENDING"
    /\ req' = [req EXCEPT ![p] = [pc |-> "action", verb |-> verb, row |-> <<s, u>>]]
    /\ UNCHANGED <<database, blocked, sweep>>

\* action.approval_run is fetched on first use, by the organisation guard
ReadRun(p) ==
    /\ req[p].pc = "action"
    /\ req' = [req EXCEPT ![p] =
                  IF blocked THEN Done
                  ELSE [pc |-> "run", verb |-> @.verb, row |-> @.row, stage |-> run.stage]]
    /\ UNCHANGED <<database, blocked, sweep>>

\* cancel_approval_run of a run that was pending when it was read
ReadForCancel(p, status) ==
    /\ req[p] = Idle
    /\ Serial => Quiet
    /\ run.status = "PENDING"
    /\ req' = [req EXCEPT ![p] = [pc |-> "run", verb |-> "cancel", status |-> status]]
    /\ UNCHANGED <<database, blocked, sweep>>

----------------------------------------------------------------------------
(* Requests: the transaction.                                              *)

\* The first writes take their row locks; the sibling query or bulk update
\* that follows sees the rows that are committed as PENDING at this point.
BeginDecision(p) ==
    /\ req[p].pc = "run"
    /\ req[p].verb \in Verbs
    /\ req[p].row \notin HeldByOthers(p)
    /\ req[p].verb = "reject" => ~RunHeldByOthers(p)
    /\ req' = [req EXCEPT ![p] =
           [pc |-> "tx", verb |-> @.verb, row |-> @.row, stage |-> @.stage,
            others |-> (IF @.verb = "reject" THEN PendingRows
                        ELSE PendingRows \cap StageRows(@.row[1])) \ {@.row}]]
    /\ UNCHANGED <<database, blocked, sweep>>

BeginCancel(p) ==
    /\ req[p].pc = "run"
    /\ req[p].verb = "cancel"
    /\ ~RunHeldByOthers(p)
    /\ req' = [req EXCEPT ![p] =
           [pc |-> "tx", verb |-> "cancel", status |-> @.status, others |-> PendingRows]]
    /\ UNCHANGED <<database, blocked, sweep>>

\* The rest of approve_action, for the run as it was read.  A bulk update waits
\* for the rows others hold, then writes those that are still PENDING.
CommitApprove(p) ==
    /\ req[p].pc = "tx"
    /\ req[p].verb = "approve"
    /\ LET s == req[p].row[1]
           a == AfterApproval(acts, s, req[p].row[2], req[p].others)
       IN  \/ /\ Mode[s] = "ANY"
              /\ req[p].others \cap HeldByOthers(p) = {}
              /\ ~RunHeldByOthers(p)
              /\ AdvanceOrComplete(a, req[p].stage)
           \/ /\ Mode[s] = "ALL"
              /\ req[p].others = {}
              /\ ~RunHeldByOthers(p)
              /\ AdvanceOrComplete(a, req[p].stage)
           \/ /\ Mode[s] = "ALL"
              /\ req[p].others # {}
              /\ acts' = a
              /\ UNCHANGED <<run, subject, delivered>>
    /\ req' = [req EXCEPT ![p] = Done]
    /\ UNCHANGED <<escalated, blocked, sweep>>

CommitReject(p) ==
    /\ req[p].pc = "tx"
    /\ req[p].verb = "reject"
    /\ req[p].others \cap HeldByOthers(p) = {}
    /\ acts' = Settle(Answer(acts, req[p].row[1], req[p].row[2], "REJECTED"),
                      req[p].others, "CANCELLED")
    /\ run' = [run EXCEPT !.status = "REJECTED"]
    /\ ApplySubject("REJECTED")
    /\ req' = [req EXCEPT ![p] = Done]
    /\ UNCHANGED <<escalated, blocked, sweep>>

CommitCancel(p) ==
    /\ req[p].pc = "tx"
    /\ req[p].verb = "cancel"
    /\ req[p].others \cap HeldByOthers(p) = {}
    /\ acts' = Settle(acts, req[p].others, "CANCELLED")
    /\ run' = [run EXCEPT !.status = "CANCELLED"]
    /\ \/ req[p].status = "KEEP" /\ UNCHANGED <<subject, delivered>>
       \/ req[p].status # "KEEP" /\ ApplySubject(req[p].status)
    /\ req' = [req EXCEPT ![p] = Done]
    /\ UNCHANGED <<escalated, blocked, sweep>>

\* Rolled back: a deadlock, a violated unique constraint, a lost connection
Rollback(p) ==
    /\ req[p].pc = "tx"
    /\ req' = [req EXCEPT ![p] = Done]
    /\ UNCHANGED <<database, blocked, sweep>>

----------------------------------------------------------------------------
(* The escalation task, and what goes on around the requests.              *)

\* The task's query: pending actions of pending runs
ReadOverdue ==
    /\ Serial => Quiet
    /\ run.status = "PENDING"
    /\ sweep = {}
    /\ sweep' = {r \in PendingRows : Targets[r[1]] \ {r[2]} # {}}
    /\ UNCHANGED <<database, blocked, req>>

\* Mutant: the overdue action is closed and no action is created
EscalateNextToNobody(s, u, t) ==
    /\ <<s, u>> \in sweep
    /\ t \in Targets[s] \ {u}
    /\ acts[s][u] = "PENDING"
    /\ acts' = [acts EXCEPT ![s][u] = "CANCELLED"]
    /\ escalated' = escalated \cup {<<s, u>>}
    /\ sweep' = sweep \ {<<s, u>>}
    /\ UNCHANGED <<run, subject, delivered, blocked, req>>

\* One row of it: select_for_update waits for the row, its status is checked
\* again, but not the run's.  An IntegrityError ends the whole task.
EscalateNext(s, u, t) ==
    /\ Serial => Quiet
    /\ <<s, u>> \in sweep
    /\ \A p \in Requests : <<s, u>> \notin HeldRows(p)
    /\ t \in Targets[s] \ {u}
    /\ \/ /\ acts[s][u] # "PENDING" \/ <<s, u>> \in escalated
          /\ sweep' = sweep \ {<<s, u>>}
          /\ UNCHANGED <<acts, escalated>>
       \/ /\ acts[s][u] = "PENDING" /\ <<s, u>> \notin escalated
          /\ acts[s][t] \in {"NONE", "PENDING"}
          /\ acts' = [acts EXCEPT ![s][t] = "PENDING", ![s][u] = "CANCELLED"]
          /\ escalated' = escalated \cup {<<s, u>>}
          /\ sweep' = sweep \ {<<s, u>>}
       \/ /\ acts[s][u] = "PENDING" /\ <<s, u>> \notin escalated
          /\ acts[s][t] \notin {"NONE", "PENDING"}
          /\ sweep' = {}
          /\ UNCHANGED <<acts, escalated>>
    /\ UNCHANGED <<run, subject, delivered, blocked, req>>

OverlapCreate == CreateRun /\ UNCHANGED <<req, sweep>>

OverlapToggle == (Serial => Quiet) /\ ToggleGuard /\ UNCHANGED <<req, sweep>>

OverlapInit ==
    /\ Init
    /\ req = [p \in Requests |-> Idle]
    /\ sweep = {}

OverlapNext ==
    \/ OverlapCreate
    \/ OverlapToggle
    \/ \E p \in Requests, verb \in Verbs, s \in Stages, u \in Users :
          ReadAction(p, verb, s, u)
    \/ \E p \in Requests, status \in CancelAs : ReadForCancel(p, status)
    \/ \E p \in Requests : ReadRun(p)
    \/ \E p \in Requests : BeginDecision(p)
    \/ \E p \in Requests : BeginCancel(p)
    \/ \E p \in Requests : CommitApprove(p)
    \/ \E p \in Requests : CommitReject(p)
    \/ \E p \in Requests : CommitCancel(p)
    \/ \E p \in Requests : Rollback(p)
    \/ ReadOverdue
    \/ \E s \in Stages, u \in Users, t \in Users : EscalateNext(s, u, t)

OverlapSpec == OverlapInit /\ [][OverlapNext]_ovars

----------------------------------------------------------------------------
(* Properties that hold however requests overlap.                          *)

\* Stages are opened in order and none is jumped over, even by a request whose
\* copy of the run is stale: an approved run opened all of them.
OpenedInOrder ==
    /\ \A s \in Stages : (\E u \in Users : acts[s][u] # "NONE") =>
           \A t \in 1..s : \E u \in Users : acts[t][u] # "NONE"
    /\ run.status = "APPROVED" => \E u \in Users : acts[NumStages][u] # "NONE"

\* A stale copy of the run never takes it back to an earlier stage.  What
\* prevents it is unique_approval_action_per_user_stage, not a check, so it holds as
\* long as any two resolutions of a stage have an approver in common: a stage that
\* resolved to other approvers alone meanwhile would be opened again.
RunNeverGoesBack == [][run'.stage >= run.stage]_ovars

\* The run and its subject are written in one transaction: whoever writes last,
\* they tell the same verdict.
RunAndSubjectAgree ==
    /\ run.status \in {"APPROVED", "REJECTED"} => subject = run.status
    /\ run.status = "CANCELLED" => subject \in CancelAs

\* Bulk updates and the escalation task check the status again once they hold
\* the row: an approver's answer is only ever replaced by that same approver.
AnswersReplacedOnlyByTheirAuthor ==
    [][\A s \in Stages, u \in Users :
          acts[s][u] \in {"APPROVED", "REJECTED"} /\ acts'[s][u] # acts[s][u] =>
              \E p \in Requests : req'[p] # req[p] /\ HeldRows(p) = {<<s, u>>}]_ovars

\* Whatever was decided while the task was sweeping, each escalated action left
\* an action of the target in its stage.
EscalationLeavesATarget ==
    \A r \in escalated : \E t \in Targets[r[1]] \ {r[2]} : acts[r[1]][t] # "NONE"

\* One request at a time, the split requests do what the operations of
\* ApprovalRun do: each of its steps is a step of that module or changes nothing of it.
SerialRequestsAreOperations == Spec

----------------------------------------------------------------------------
(* What the text of the program states and overlapping requests break.     *)

\* "All approvers required": an ALL stage is left only when no approver of it is
\* still to answer and none refused.
AllApproversRequired ==
    \A s \in StagesLeft : Mode[s] = "ALL" =>
        \A u \in Users : acts[s][u] \in {"NONE", "APPROVED", "CANCELLED"}
============================================================================
