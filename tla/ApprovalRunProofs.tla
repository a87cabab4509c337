------------------------- MODULE ApprovalRunProofs -------------------------
(***************************************************************************)
(* Proofs about ApprovalRun and ApprovalOverlap, for every set of users,   *)
(* number of stages and requests, stage modes, approver resolutions and    *)
(* SLA policies.                                                           *)
(***************************************************************************)
EXTENDS ApprovalOverlap, TLAPS

(***************************************************************************)
(* The inductive invariant.  The properties say what holds of the stages   *)
(* left and of the decided run; the conjuncts added here say what the      *)
(* stages not yet reached and the stage in progress look like.             *)
(***************************************************************************)

\* Before the run is created there is nothing but its future
NothingBeforeCreation ==
    run.status = "NONE" =>
        /\ run.stage = 1
        /\ \A s \in Stages, u \in Users : acts[s][u] = "NONE"

\* Stages beyond the current one have no action
LaterStagesUnopened ==
    \A s \in Stages, u \in Users : s > run.stage => acts[s][u] = "NONE"

\* In the stage in progress an action waits, was handed on, or, in an ALL
\* stage, was approved
CurrentStageInProgress ==
    run.status = "PENDING" =>
        \A u \in Users :
            \/ acts[run.stage][u] \in {"NONE", "PENDING"}
            \/ acts[run.stage][u] = "CANCELLED" /\ <<run.stage, u>> \in escalated
            \/ acts[run.stage][u] = "APPROVED" /\ Mode[run.stage] = "ALL"

\* The last stage is the one a run is approved at
ApprovedAtTheLastStage == run.status = "APPROVED" => run.stage = NumStages

IInv ==
    /\ TypeOK
    /\ NothingBeforeCreation
    /\ LaterStagesUnopened
    /\ CurrentStageInProgress
    /\ ApprovedAtTheLastStage
    /\ PendingRunIsAskable
    /\ AskedOnlyAboutCurrentStage
    /\ LeftStagesAreDischarged
    /\ RejectionHasOneAuthor
    /\ SubjectHearsOnce
    /\ EscalationHandsOver

----------------------------------------------------------------------------
(* Lemmas about the operators.                                             *)

\* A bulk update touches only the pending rows it selects.
LEMMA SettleRows ==
    ASSUME NEW a \in [Stages -> [Users -> ActionStatus]],
           NEW R \in SUBSET (Stages \X Users), NEW to \in ActionStatus
    PROVE  /\ Settle(a, R, to) \in [Stages -> [Users -> ActionStatus]]
           /\ \A s \in Stages, u \in Users :
                 Settle(a, R, to)[s][u] =
                    IF <<s, u>> \in R /\ a[s][u] = "PENDING" THEN to ELSE a[s][u]
BY DEF Settle

\* An answer is written on one row.
LEMMA AnswerRows ==
    ASSUME NEW a \in [Stages -> [Users -> ActionStatus]],
           NEW s \in Stages, NEW u \in Users, NEW status \in ActionStatus
    PROVE  /\ Answer(a, s, u, status) \in [Stages -> [Users -> ActionStatus]]
           /\ Answer(a, s, u, status)[s][u] = status
           /\ \A t \in Stages, v \in Users :
                 <<t, v>> # <<s, u>> => Answer(a, s, u, status)[t][v] = a[t][v]
BY DEF Answer

\* Opening a stage asks somebody, overwrites no action, and leaves the others alone.
LEMMA OpenStageRows ==
    ASSUME NEW a \in [Stages -> [Users -> ActionStatus]],
           NEW s \in Stages, NEW next, OpenStage(a, s, next)
    PROVE  /\ next \in [Stages -> [Users -> ActionStatus]]
           /\ \E u \in Users : next[s][u] = "PENDING"
           /\ \A t \in Stages, v \in Users :
                 \/ next[t][v] = a[t][v]
                 \/ t = s /\ a[t][v] = "NONE" /\ next[t][v] = "PENDING"
<1>1. PICK S \in Resolvable[s] :
         /\ \A u \in S : a[s][u] = "NONE"
         /\ next = [a EXCEPT ![s] = [u \in Users |-> IF u \in S THEN "PENDING" ELSE a[s][u]]]
  BY DEF OpenStage
<1>2. S \subseteq Users /\ S # {}
  BY ApprovalRunAssumption
<1> QED
  BY <1>1, <1>2 DEF ActionStatus

LEMMA StagesAreNumbers == Stages \subseteq Nat /\ NumStages \in Nat /\ NumStages \in Stages /\ 1 \in Stages
BY ApprovalRunAssumption DEF Stages

\* A stage stays discharged as long as its rows and their escalations do not change.
LEMMA DischargedIsStable ==
    ASSUME NEW s \in Stages, Discharged(s),
           \A u \in Users : acts'[s][u] = acts[s][u],
           \A u \in Users : (<<s, u>> \in escalated') <=> (<<s, u>> \in escalated)
    PROVE  Discharged(s)'
BY DEF Discharged

\* Escalations stay handed over while escalated rows do not change and none disappears.
LEMMA HandOverIsStable ==
    ASSUME EscalationHandsOver, escalated' = escalated,
           \A s \in Stages, u \in Users : <<s, u>> \in escalated => acts'[s][u] = acts[s][u],
           \A s \in Stages, u \in Users : acts[s][u] # "NONE" => acts'[s][u] # "NONE"
    PROVE  EscalationHandsOver'
<1>1. \A s \in Stages : Targets[s] \subseteq Users
  BY ApprovalRunAssumption
<1> QED
  BY <1>1 DEF EscalationHandsOver

----------------------------------------------------------------------------
(* The invariant holds initially and after every operation.                *)

LEMMA InitInv == Init => IInv
<1> SUFFICES ASSUME Init PROVE IInv
  OBVIOUS
<1>1. TypeOK
  <2>1. run \in [status : RunStatus, stage : Stages]
    BY StagesAreNumbers DEF Init, RunStatus
  <2>2. acts \in [Stages -> [Users -> ActionStatus]]
    BY DEF Init, ActionStatus
  <2>3. delivered \in Seq(SubjectStatus)
    BY DEF Init
  <2> QED
    BY <2>1, <2>2, <2>3 DEF Init, TypeOK, SubjectStatus
<1>2. StagesLeft = {}
  BY StagesAreNumbers DEF Init, StagesLeft, Stages
<1> QED
  BY <1>1, <1>2 DEF Init, IInv, NothingBeforeCreation, LaterStagesUnopened, CurrentStageInProgress,
     ApprovedAtTheLastStage, PendingRunIsAskable, AskedOnlyAboutCurrentStage, PendingIn,
     LeftStagesAreDischarged, RejectionHasOneAuthor, Rejected, SubjectHearsOnce,
     EscalationHandsOver

LEMMA CreateRunInv == IInv /\ CreateRun => IInv'
<1> SUFFICES ASSUME IInv, CreateRun PROVE IInv'
  OBVIOUS
<1> USE StagesAreNumbers
<1>1. /\ acts \in [Stages -> [Users -> ActionStatus]]
      /\ run.status = "NONE" /\ run.stage = 1
      /\ run' = [run EXCEPT !.status = "PENDING"]
      /\ run \in [status : RunStatus, stage : Stages]
      /\ run'.status = "PENDING" /\ run'.stage = 1
      /\ \A s \in Stages, u \in Users : acts[s][u] = "NONE"
  BY DEF IInv, TypeOK, CreateRun, NothingBeforeCreation
<1>2. /\ acts' \in [Stages -> [Users -> ActionStatus]]
      /\ \E u \in Users : acts'[1][u] = "PENDING"
      /\ \A t \in Stages, v \in Users :
            \/ acts'[t][v] = "NONE"
            \/ t = 1 /\ acts'[t][v] = "PENDING"
  BY <1>1, OpenStageRows DEF CreateRun
<1>3. TypeOK'
  BY <1>1, <1>2 DEF IInv, TypeOK, CreateRun, RunStatus
<1>4. StagesLeft' = {}
  BY <1>1 DEF StagesLeft, Stages
<1>5. NothingBeforeCreation' /\ LaterStagesUnopened' /\ CurrentStageInProgress' /\ ApprovedAtTheLastStage'
  BY <1>1, <1>2 DEF NothingBeforeCreation, LaterStagesUnopened, CurrentStageInProgress, ApprovedAtTheLastStage
<1>6. PendingRunIsAskable' /\ AskedOnlyAboutCurrentStage'
  BY <1>1, <1>2 DEF PendingRunIsAskable, AskedOnlyAboutCurrentStage, PendingIn
<1>7. LeftStagesAreDischarged'
  BY <1>4 DEF LeftStagesAreDischarged
<1>8. RejectionHasOneAuthor'
  BY <1>1, <1>2 DEF RejectionHasOneAuthor, Rejected
<1>9. SubjectHearsOnce' /\ EscalationHandsOver'
  BY <1>1, <1>2 DEF IInv, CreateRun, SubjectHearsOnce, EscalationHandsOver, TypeOK
<1> QED
  BY <1>3, <1>5, <1>6, <1>7, <1>8, <1>9 DEF IInv

\* What an approval writes on the actions, whatever it does to the run.
LEMMA ApprovalRows ==
    ASSUME NEW s \in Stages, NEW u \in Users,
           acts \in [Stages -> [Users -> ActionStatus]]
    PROVE  LET a == AfterApproval(acts, s, u, StageRows(s))
           IN  /\ a \in [Stages -> [Users -> ActionStatus]]
               /\ a[s][u] = "APPROVED"
               /\ \A v \in Users \ {u} :
                     a[s][v] = IF Mode[s] = "ANY" /\ acts[s][v] = "PENDING" THEN "SKIPPED"
                               ELSE acts[s][v]
               /\ \A t \in Stages \ {s}, v \in Users : a[t][v] = acts[t][v]
<1> DEFINE mine == Answer(acts, s, u, "APPROVED")
           a == AfterApproval(acts, s, u, StageRows(s))
<1>1. /\ mine \in [Stages -> [Users -> ActionStatus]]
      /\ mine[s][u] = "APPROVED"
      /\ \A t \in Stages, v \in Users : <<t, v>> # <<s, u>> => mine[t][v] = acts[t][v]
  <2>1. "APPROVED" \in ActionStatus
    BY DEF ActionStatus
  <2> QED
    BY <2>1, AnswerRows
<1>2. CASE Mode[s] = "ANY"
  <2>1. StageRows(s) \in SUBSET (Stages \X Users)
    BY DEF StageRows
  <2>2. "SKIPPED" \in ActionStatus
    BY DEF ActionStatus
  <2>3. a = Settle(mine, StageRows(s), "SKIPPED")
    BY <1>2 DEF AfterApproval
  <2> HIDE DEF mine, a
  <2>4. /\ a \in [Stages -> [Users -> ActionStatus]]
        /\ \A t \in Stages, v \in Users :
              a[t][v] = IF <<t, v>> \in StageRows(s) /\ mine[t][v] = "PENDING"
                        THEN "SKIPPED" ELSE mine[t][v]
    <3> DEFINE R == StageRows(s)
    <3>1. mine \in [Stages -> [Users -> ActionStatus]] /\ R \in SUBSET (Stages \X Users)
      BY <1>1, <2>1
    <3> HIDE DEF R
    <3>2. /\ Settle(mine, R, "SKIPPED") \in [Stages -> [Users -> ActionStatus]]
          /\ \A t \in Stages, v \in Users :
                Settle(mine, R, "SKIPPED")[t][v] =
                    IF <<t, v>> \in R /\ mine[t][v] = "PENDING"
                    THEN "SKIPPED" ELSE mine[t][v]
      BY <3>1, <2>2, SettleRows
    <3> QED
      BY <3>2, <2>3 DEF R
  <2>5. \A t \in Stages, v \in Users : <<t, v>> \in StageRows(s) <=> t = s
    BY DEF StageRows
  <2>6. a[s][u] = "APPROVED"
    BY <1>1, <2>4
  <2>7. \A v \in Users \ {u} :
           a[s][v] = IF acts[s][v] = "PENDING" THEN "SKIPPED" ELSE acts[s][v]
    BY <1>1, <2>4, <2>5
  <2>8. \A t \in Stages \ {s}, v \in Users : a[t][v] = acts[t][v]
    BY <1>1, <2>4, <2>5
  <2> QED
    BY <1>2, <2>4, <2>6, <2>7, <2>8 DEF a
<1>3. CASE Mode[s] # "ANY"
  <2>1. a = mine
    BY <1>3 DEF AfterApproval
  <2> QED
    BY <1>1, <1>3, <2>1
<1> QED
  BY <1>2, <1>3

\* The row an approval or a rejection answers belongs to the stage in progress.
LEMMA AnsweredRow ==
    ASSUME IInv, NEW s \in Stages, NEW u \in Users, acts[s][u] = "PENDING"
    PROVE  /\ run.status = "PENDING" /\ run.stage = s
           /\ <<s, u>> \notin escalated
           /\ Mode[s] \in {"ALL", "ANY"}
           /\ \A v \in Users :
                 \/ acts[s][v] \in {"NONE", "PENDING"}
                 \/ acts[s][v] = "CANCELLED" /\ <<s, v>> \in escalated
                 \/ acts[s][v] = "APPROVED" /\ Mode[s] = "ALL"
<1>1. run.status = "PENDING" /\ run.stage = s
  BY DEF IInv, AskedOnlyAboutCurrentStage, PendingIn
<1>2. <<s, u>> \notin escalated
  BY DEF IInv, EscalationHandsOver
<1>3. Mode[s] \in {"ALL", "ANY"}
  BY ApprovalRunAssumption
<1>4. \A v \in Users :
         \/ acts[s][v] \in {"NONE", "PENDING"}
         \/ acts[s][v] = "CANCELLED" /\ <<s, v>> \in escalated
         \/ acts[s][v] = "APPROVED" /\ Mode[s] = "ALL"
  BY <1>1 DEF IInv, CurrentStageInProgress
<1> QED
  BY <1>1, <1>2, <1>3, <1>4

\* No action of a run in progress is rejected.
LEMMA NoRejectionWhilePending ==
    ASSUME IInv, run.status = "PENDING"
    PROVE  \A s \in Stages, u \in Users : acts[s][u] # "REJECTED"
BY DEF IInv, RejectionHasOneAuthor, Rejected

\* An approval that leaves its stage incomplete.
LEMMA ApproveWithinStageInv ==
    ASSUME IInv, NEW s \in Stages, NEW u \in Users,
           acts[s][u] = "PENDING",
           acts' = AfterApproval(acts, s, u, StageRows(s)),
           ~StageComplete(acts', s),
           UNCHANGED <<run, escalated, subject, delivered, blocked>>
    PROVE  IInv'
<1> USE StagesAreNumbers
<1>1. acts \in [Stages -> [Users -> ActionStatus]] /\ run \in [status : RunStatus, stage : Stages]
  BY DEF IInv, TypeOK
<1>2. /\ run.status = "PENDING" /\ run.stage = s
      /\ <<s, u>> \notin escalated
      /\ \A v \in Users :
            \/ acts[s][v] \in {"NONE", "PENDING"}
            \/ acts[s][v] = "CANCELLED" /\ <<s, v>> \in escalated
            \/ acts[s][v] = "APPROVED" /\ Mode[s] = "ALL"
  BY AnsweredRow
<1>3. Mode[s] = "ALL" /\ \E v \in Users : acts'[s][v] = "PENDING"
  <2>1. Mode[s] \in {"ALL", "ANY"}
    BY ApprovalRunAssumption
  <2> QED
    BY <2>1 DEF StageComplete, PendingIn
<1>4. /\ acts' \in [Stages -> [Users -> ActionStatus]]
      /\ acts'[s][u] = "APPROVED"
      /\ \A t \in Stages, v \in Users : <<t, v>> # <<s, u>> => acts'[t][v] = acts[t][v]
  <2> DEFINE a == AfterApproval(acts, s, u, StageRows(s))
  <2>1. /\ a \in [Stages -> [Users -> ActionStatus]]
        /\ a[s][u] = "APPROVED"
        /\ \A v \in Users \ {u} :
              a[s][v] = IF Mode[s] = "ANY" /\ acts[s][v] = "PENDING" THEN "SKIPPED"
                        ELSE acts[s][v]
        /\ \A t \in Stages \ {s}, v \in Users : a[t][v] = acts[t][v]
    BY <1>1, ApprovalRows
  <2>2. acts' = a
    OBVIOUS
  <2> HIDE DEF a
  <2> QED
    BY <2>1, <2>2, <1>3
<1>5. TypeOK'
  BY <1>1, <1>4 DEF IInv, TypeOK
<1>6. NothingBeforeCreation' /\ LaterStagesUnopened' /\ CurrentStageInProgress' /\ ApprovedAtTheLastStage'
  BY <1>2, <1>3, <1>4 DEF IInv, NothingBeforeCreation, LaterStagesUnopened, CurrentStageInProgress,
     ApprovedAtTheLastStage
<1>7. PendingRunIsAskable' /\ AskedOnlyAboutCurrentStage'
  BY <1>2, <1>3, <1>4 DEF IInv, PendingRunIsAskable, AskedOnlyAboutCurrentStage, PendingIn
<1>8. LeftStagesAreDischarged'
  <2> SUFFICES ASSUME NEW t \in StagesLeft' PROVE Discharged(t)'
    BY DEF LeftStagesAreDischarged
  <2>1. t \in StagesLeft /\ t \in Stages /\ t # s
    BY <1>1, <1>2 DEF StagesLeft
  <2>2. Discharged(t)
    BY <2>1 DEF IInv, LeftStagesAreDischarged
  <2> QED
    BY <1>4, <2>1, <2>2, DischargedIsStable
<1>9. RejectionHasOneAuthor'
  <2>1. \A t \in Stages, v \in Users : acts'[t][v] # "REJECTED"
    BY <1>2, <1>4, NoRejectionWhilePending
  <2> QED
    BY <1>2, <2>1 DEF RejectionHasOneAuthor, Rejected
<1>10. SubjectHearsOnce'
  BY DEF IInv, SubjectHearsOnce
<1>11. EscalationHandsOver'
  <2>1. EscalationHandsOver
    BY DEF IInv
  <2>2. \A t \in Stages, v \in Users : <<t, v>> \in escalated => acts'[t][v] = acts[t][v]
    BY <1>2, <1>4
  <2>3. \A t \in Stages, v \in Users : acts[t][v] # "NONE" => acts'[t][v] # "NONE"
    BY <1>4
  <2> QED
    BY <2>1, <2>2, <2>3, HandOverIsStable
<1> QED
  BY <1>5, <1>6, <1>7, <1>8, <1>9, <1>10, <1>11 DEF IInv

\* A complete stage is discharged: a is what the approval made of the actions.
LEMMA CompletedStageIsDischarged ==
    ASSUME IInv, NEW s \in Stages, NEW u \in Users, acts[s][u] = "PENDING",
           NEW a, a = AfterApproval(acts, s, u, StageRows(s)), StageComplete(a, s),
           \A v \in Users : acts'[s][v] = a[s][v], escalated' = escalated
    PROVE  Discharged(s)'
<1>1. /\ <<s, u>> \notin escalated
      /\ Mode[s] \in {"ALL", "ANY"}
      /\ \A v \in Users :
            \/ acts[s][v] \in {"NONE", "PENDING"}
            \/ acts[s][v] = "CANCELLED" /\ <<s, v>> \in escalated
            \/ acts[s][v] = "APPROVED" /\ Mode[s] = "ALL"
  BY AnsweredRow
<1>2. /\ a[s][u] = "APPROVED"
      /\ \A v \in Users \ {u} :
            a[s][v] = IF Mode[s] = "ANY" /\ acts[s][v] = "PENDING" THEN "SKIPPED"
                      ELSE acts[s][v]
  BY ApprovalRows DEF IInv, TypeOK
<1>3. CASE Mode[s] = "ANY"
  <2>1. \A v \in Users \ {u} :
           a[s][v] \in {"NONE", "SKIPPED"} \/ (a[s][v] = "CANCELLED" /\ <<s, v>> \in escalated)
    BY <1>1, <1>2, <1>3
  <2> QED
    BY <1>1, <1>2, <1>3, <2>1 DEF Discharged
<1>4. CASE Mode[s] = "ALL"
  <2>1. \A v \in Users : a[s][v] # "PENDING"
    BY <1>4 DEF StageComplete, PendingIn
  <2>2. \A v \in Users \ {u} :
           a[s][v] \in {"NONE", "APPROVED"} \/ (a[s][v] = "CANCELLED" /\ <<s, v>> \in escalated)
    BY <1>1, <1>2, <1>4, <2>1
  <2> QED
    BY <1>1, <1>2, <1>4, <2>2 DEF Discharged
<1> QED
  BY <1>1, <1>3, <1>4

\* An approval that completes a stage leaves none of its actions pending.
LEMMA CompletedStageAsksNobody ==
    ASSUME IInv, NEW s \in Stages, NEW u \in Users, acts[s][u] = "PENDING",
           NEW a, a = AfterApproval(acts, s, u, StageRows(s)), StageComplete(a, s)
    PROVE  /\ a \in [Stages -> [Users -> ActionStatus]]
           /\ \A v \in Users : a[s][v] # "PENDING" /\ a[s][v] # "REJECTED"
           /\ \A v \in Users : acts[s][v] # "NONE" => a[s][v] # "NONE"
           /\ \A v \in Users : <<s, v>> \in escalated => a[s][v] = acts[s][v]
           /\ \A t \in Stages \ {s}, v \in Users : a[t][v] = acts[t][v]
<1>1. /\ a \in [Stages -> [Users -> ActionStatus]]
      /\ a[s][u] = "APPROVED"
      /\ \A v \in Users \ {u} :
            a[s][v] = IF Mode[s] = "ANY" /\ acts[s][v] = "PENDING" THEN "SKIPPED"
                      ELSE acts[s][v]
      /\ \A t \in Stages \ {s}, v \in Users : a[t][v] = acts[t][v]
  BY ApprovalRows DEF IInv, TypeOK
<1>2. /\ run.status = "PENDING"
      /\ <<s, u>> \notin escalated /\ Mode[s] \in {"ALL", "ANY"}
      /\ \A v \in Users :
            \/ acts[s][v] \in {"NONE", "PENDING"}
            \/ acts[s][v] = "CANCELLED" /\ <<s, v>> \in escalated
            \/ acts[s][v] = "APPROVED" /\ Mode[s] = "ALL"
  BY AnsweredRow
<1>3. Mode[s] = "ALL" => \A v \in Users : a[s][v] # "PENDING"
  BY DEF StageComplete, PendingIn
<1>4. \A v \in Users : a[s][v] # "PENDING" /\ a[s][v] # "REJECTED"
  BY <1>1, <1>2, <1>3
<1>5. \A v \in Users : acts[s][v] # "NONE" => a[s][v] # "NONE"
  BY <1>1
<1>6. \A v \in Users : <<s, v>> \in escalated => a[s][v] = acts[s][v]
  <2>1. \A v \in Users : <<s, v>> \in escalated => v # u /\ acts[s][v] # "PENDING"
    BY <1>2 DEF IInv, EscalationHandsOver
  <2> QED
    BY <1>1, <2>1
<1> QED
  BY <1>1, <1>4, <1>5, <1>6

\* An approval that completes the last stage.
LEMMA ApproveLastInv ==
    ASSUME IInv, NEW s \in Stages, NEW u \in Users, acts[s][u] = "PENDING",
           acts' = AfterApproval(acts, s, u, StageRows(s)), StageComplete(acts', s),
           run.stage = NumStages, run' = [run EXCEPT !.status = "APPROVED"],
           ApplySubject("APPROVED"), UNCHANGED <<escalated, blocked>>
    PROVE  IInv'
<1> USE StagesAreNumbers
<1>1. /\ run \in [status : RunStatus, stage : Stages] /\ run.status = "PENDING" /\ run.stage = s
      /\ run' \in [status : RunStatus, stage : Stages]
      /\ run'.status = "APPROVED" /\ run'.stage = s /\ s = NumStages
      /\ subject \in SubjectStatus /\ delivered = <<>>
  BY AnsweredRow DEF IInv, TypeOK, RunStatus, SubjectHearsOnce
<1>2. /\ acts' \in [Stages -> [Users -> ActionStatus]]
      /\ \A v \in Users : acts'[s][v] # "PENDING" /\ acts'[s][v] # "REJECTED"
      /\ \A v \in Users : acts[s][v] # "NONE" => acts'[s][v] # "NONE"
      /\ \A v \in Users : <<s, v>> \in escalated => acts'[s][v] = acts[s][v]
      /\ \A t \in Stages \ {s}, v \in Users : acts'[t][v] = acts[t][v]
  BY CompletedStageAsksNobody
<1>3. subject' = "APPROVED" /\ delivered' = <<"APPROVED">>
  BY <1>1 DEF ApplySubject
<1>4. TypeOK'
  BY <1>1, <1>2, <1>3 DEF IInv, TypeOK, SubjectStatus
<1>5. NothingBeforeCreation' /\ LaterStagesUnopened' /\ CurrentStageInProgress' /\ ApprovedAtTheLastStage'
  BY <1>1, <1>2 DEF IInv, NothingBeforeCreation, LaterStagesUnopened, CurrentStageInProgress,
     ApprovedAtTheLastStage
<1>6. PendingRunIsAskable' /\ AskedOnlyAboutCurrentStage'
  <2>1. \A t \in Stages, v \in Users : acts'[t][v] # "PENDING"
    BY <1>1, <1>2 DEF IInv, AskedOnlyAboutCurrentStage, PendingIn
  <2> QED
    BY <1>1, <2>1 DEF PendingRunIsAskable, AskedOnlyAboutCurrentStage, PendingIn
<1>7. LeftStagesAreDischarged'
  <2> SUFFICES ASSUME NEW t \in Stages PROVE Discharged(t)'
    BY DEF LeftStagesAreDischarged, StagesLeft
  <2>1. CASE t = s
    <3>1. StageComplete(acts', s) /\ escalated' = escalated
      OBVIOUS
    <3> QED
      BY <2>1, <3>1, CompletedStageIsDischarged
  <2>2. CASE t # s
    <3>1. t \in StagesLeft
      BY <1>1, <2>2 DEF StagesLeft, Stages
    <3>2. Discharged(t)
      BY <3>1 DEF IInv, LeftStagesAreDischarged
    <3> QED
      BY <1>2, <2>2, <3>2, DischargedIsStable
  <2> QED
    BY <2>1, <2>2
<1>8. RejectionHasOneAuthor'
  <2>1. \A t \in Stages, v \in Users : acts'[t][v] # "REJECTED"
    BY <1>1, <1>2, NoRejectionWhilePending
  <2> QED
    BY <1>1, <2>1 DEF RejectionHasOneAuthor, Rejected
<1>9. SubjectHearsOnce'
  BY <1>1, <1>3 DEF SubjectHearsOnce
<1>10. EscalationHandsOver'
  <2>1. EscalationHandsOver /\ escalated' = escalated
    BY DEF IInv
  <2>2. \A t \in Stages, v \in Users : <<t, v>> \in escalated => acts'[t][v] = acts[t][v]
    BY <1>2
  <2>3. \A t \in Stages, v \in Users : acts[t][v] # "NONE" => acts'[t][v] # "NONE"
    BY <1>2
  <2> QED
    BY <2>1, <2>2, <2>3, HandOverIsStable
<1> QED
  BY <1>4, <1>5, <1>6, <1>7, <1>8, <1>9, <1>10 DEF IInv

\* An approval that completes a stage with another one behind it.
LEMMA ApproveAdvanceInv ==
    ASSUME IInv, NEW s \in Stages, NEW u \in Users, acts[s][u] = "PENDING",
           NEW a, a = AfterApproval(acts, s, u, StageRows(s)), StageComplete(a, s),
           run.stage < NumStages, run' = [run EXCEPT !.stage = run.stage + 1],
           OpenStage(a, run.stage + 1, acts'),
           UNCHANGED <<escalated, subject, delivered, blocked>>
    PROVE  IInv'
<1> USE StagesAreNumbers
<1> DEFINE n == s + 1
<1>1. /\ run \in [status : RunStatus, stage : Stages] /\ run.status = "PENDING" /\ run.stage = s
      /\ n \in Stages /\ n # s
      /\ run' \in [status : RunStatus, stage : Stages]
      /\ run'.status = "PENDING" /\ run'.stage = n
      /\ <<s, u>> \notin escalated
  <2>1. run \in [status : RunStatus, stage : Stages] /\ run.status = "PENDING" /\ run.stage = s
    BY AnsweredRow DEF IInv, TypeOK
  <2>2. n \in Stages /\ n # s
    BY <2>1 DEF Stages
  <2> QED
    BY <2>1, <2>2, AnsweredRow
<1>2. /\ a \in [Stages -> [Users -> ActionStatus]]
      /\ \A v \in Users : a[s][v] # "PENDING" /\ a[s][v] # "REJECTED"
      /\ \A v \in Users : acts[s][v] # "NONE" => a[s][v] # "NONE"
      /\ \A v \in Users : <<s, v>> \in escalated => a[s][v] = acts[s][v]
      /\ \A t \in Stages \ {s}, v \in Users : a[t][v] = acts[t][v]
  BY CompletedStageAsksNobody
<1>3. OpenStage(a, n, acts')
  BY <1>1
<1> HIDE DEF n
<1>4. /\ acts' \in [Stages -> [Users -> ActionStatus]]
      /\ \E v \in Users : acts'[n][v] = "PENDING"
      /\ \A t \in Stages, v \in Users :
            \/ acts'[t][v] = a[t][v]
            \/ t = n /\ a[t][v] = "NONE" /\ acts'[t][v] = "PENDING"
  BY <1>1, <1>2, <1>3, OpenStageRows
<1>5. \A v \in Users : acts[n][v] = "NONE" /\ acts'[n][v] \in {"NONE", "PENDING"}
  <2>1. n > run.stage
    BY <1>1 DEF n
  <2>2. \A v \in Users : acts[n][v] = "NONE"
    BY <1>1, <2>1 DEF IInv, LaterStagesUnopened
  <2> QED
    BY <1>1, <1>2, <1>4, <2>2
<1>6. \A t \in Stages \ {s, n}, v \in Users : acts'[t][v] = acts[t][v]
  BY <1>2, <1>4
<1>7. \A v \in Users : acts'[s][v] = a[s][v]
  BY <1>1, <1>4
<1>8. TypeOK'
  BY <1>1, <1>4 DEF IInv, TypeOK
<1>9. NothingBeforeCreation' /\ ApprovedAtTheLastStage'
  BY <1>1 DEF NothingBeforeCreation, ApprovedAtTheLastStage
<1>10. LaterStagesUnopened'
  <2> SUFFICES ASSUME NEW t \in Stages, NEW v \in Users, t > n PROVE acts'[t][v] = "NONE"
    BY <1>1 DEF LaterStagesUnopened
  <2>1. t > run.stage /\ t # s /\ t # n
    BY <1>1 DEF n
  <2>2. acts[t][v] = "NONE"
    BY <2>1 DEF IInv, LaterStagesUnopened
  <2> QED
    BY <1>6, <2>1, <2>2
<1>11. CurrentStageInProgress'
  BY <1>1, <1>5 DEF CurrentStageInProgress
<1>12. PendingRunIsAskable'
  BY <1>1, <1>4 DEF PendingRunIsAskable, PendingIn
<1>13. AskedOnlyAboutCurrentStage'
  <2>1. \A t \in Stages \ {n}, v \in Users : acts'[t][v] # "PENDING"
    BY <1>1, <1>2, <1>6, <1>7 DEF IInv, AskedOnlyAboutCurrentStage, PendingIn
  <2> QED
    BY <1>1, <2>1 DEF AskedOnlyAboutCurrentStage, PendingIn
<1>14. LeftStagesAreDischarged'
  <2> SUFFICES ASSUME NEW t \in Stages, t < n PROVE Discharged(t)'
    BY <1>1 DEF LeftStagesAreDischarged, StagesLeft
  <2>1. CASE t = s
    BY <1>7, <2>1, CompletedStageIsDischarged
  <2>2. CASE t # s
    <3>1. t < run.stage /\ t # n
      BY <1>1, <2>2 DEF n
    <3>2. Discharged(t)
      BY <3>1 DEF IInv, LeftStagesAreDischarged, StagesLeft
    <3> QED
      BY <1>6, <2>2, <3>1, <3>2, DischargedIsStable
  <2> QED
    BY <2>1, <2>2
<1>15. RejectionHasOneAuthor'
  <2>1. \A t \in Stages, v \in Users : acts'[t][v] # "REJECTED"
    BY <1>1, <1>2, <1>5, <1>6, <1>7, NoRejectionWhilePending
  <2> QED
    BY <1>1, <2>1 DEF RejectionHasOneAuthor, Rejected
<1>16. SubjectHearsOnce'
  BY <1>1 DEF IInv, SubjectHearsOnce
<1>17. EscalationHandsOver'
  <2>1. EscalationHandsOver /\ escalated' = escalated
    BY DEF IInv
  <2>2. \A t \in Stages, v \in Users : <<t, v>> \in escalated => acts'[t][v] = acts[t][v]
    <3>1. \A t \in Stages, v \in Users : <<t, v>> \in escalated => t # n
      BY <1>5, <2>1 DEF EscalationHandsOver
    <3> QED
      BY <1>2, <1>6, <1>7, <3>1
  <2>3. \A t \in Stages, v \in Users : acts[t][v] # "NONE" => acts'[t][v] # "NONE"
    BY <1>2, <1>5, <1>6, <1>7
  <2> QED
    BY <2>1, <2>2, <2>3, HandOverIsStable
<1> QED
  BY <1>8, <1>9, <1>10, <1>11, <1>12, <1>13, <1>14, <1>15, <1>16, <1>17 DEF IInv

\* Every outcome of an approval.
LEMMA ApproveInv == \A s \in Stages, u \in Users : IInv /\ Approve(s, u) => IInv'
<1> SUFFICES ASSUME NEW s \in Stages, NEW u \in Users, IInv, Approve(s, u) PROVE IInv'
  OBVIOUS
<1> DEFINE a == AfterApproval(acts, s, u, StageRows(s))
<1>1. acts[s][u] = "PENDING" /\ UNCHANGED <<escalated, blocked>>
  BY DEF Approve
<1>2. \/ StageComplete(a, s) /\ AdvanceOrComplete(a, run.stage)
      \/ ~StageComplete(a, s) /\ acts' = a /\ UNCHANGED <<run, subject, delivered>>
  BY DEF Approve
<1> HIDE DEF a
<1>3. CASE StageComplete(a, s) /\ AdvanceOrComplete(a, run.stage)
  <2>1. CASE /\ run.stage = NumStages
             /\ run' = [run EXCEPT !.status = "APPROVED"]
             /\ acts' = a
             /\ ApplySubject("APPROVED")
    <3>1. acts' = AfterApproval(acts, s, u, StageRows(s)) /\ StageComplete(acts', s)
      BY <1>3, <2>1 DEF a
    <3> QED
      BY <1>1, <2>1, <3>1, ApproveLastInv
  <2>2. CASE /\ run.stage < NumStages
             /\ run' = [run EXCEPT !.stage = run.stage + 1]
             /\ OpenStage(a, run.stage + 1, acts')
             /\ UNCHANGED <<subject, delivered>>
    <3>1. a = AfterApproval(acts, s, u, StageRows(s))
      BY DEF a
    <3> QED
      BY <1>1, <1>3, <2>2, <3>1, ApproveAdvanceInv
  <2> QED
    BY <1>3, <2>1, <2>2 DEF AdvanceOrComplete
<1>4. CASE ~StageComplete(a, s) /\ acts' = a /\ UNCHANGED <<run, subject, delivered>>
  <2>1. acts' = AfterApproval(acts, s, u, StageRows(s)) /\ ~StageComplete(acts', s)
    BY <1>4 DEF a
  <2> QED
    BY <1>1, <1>4, <2>1, ApproveWithinStageInv
<1> QED
  BY <1>2, <1>3, <1>4

\* A rejection: the answered row aside, every pending row of the run is cancelled.
LEMMA RejectInv == \A s \in Stages, u \in Users : IInv /\ Reject(s, u) => IInv'
<1> SUFFICES ASSUME NEW s \in Stages, NEW u \in Users, IInv, Reject(s, u) PROVE IInv'
  OBVIOUS
<1> USE StagesAreNumbers
<1> DEFINE mine == Answer(acts, s, u, "REJECTED")
           everywhere == Stages \X Users
<1>1. /\ run \in [status : RunStatus, stage : Stages] /\ run.status = "PENDING" /\ run.stage = s
      /\ acts \in [Stages -> [Users -> ActionStatus]] /\ acts[s][u] = "PENDING"
      /\ <<s, u>> \notin escalated
      /\ subject \in SubjectStatus /\ delivered = <<>>
      /\ UNCHANGED <<escalated, blocked>>
  BY AnsweredRow DEF IInv, TypeOK, Reject, SubjectHearsOnce
<1>2. /\ run' = [run EXCEPT !.status = "REJECTED"]
      /\ run' \in [status : RunStatus, stage : Stages]
      /\ run'.status = "REJECTED" /\ run'.stage = s
      /\ subject' = "REJECTED" /\ delivered' = <<"REJECTED">>
  BY <1>1 DEF Reject, ApplySubject, RunStatus
<1>3. /\ mine \in [Stages -> [Users -> ActionStatus]]
      /\ mine[s][u] = "REJECTED"
      /\ \A t \in Stages, v \in Users : <<t, v>> # <<s, u>> => mine[t][v] = acts[t][v]
  <2>1. "REJECTED" \in ActionStatus /\ acts \in [Stages -> [Users -> ActionStatus]]
    BY <1>1 DEF ActionStatus
  <2> QED
    BY ONLY <2>1, AnswerRows, s \in Stages, u \in Users
<1>4. acts' = Settle(mine, everywhere, "CANCELLED")
  BY DEF Reject
<1> HIDE DEF mine
<1>5. /\ acts' \in [Stages -> [Users -> ActionStatus]]
      /\ \A t \in Stages, v \in Users :
            acts'[t][v] = IF mine[t][v] = "PENDING" THEN "CANCELLED" ELSE mine[t][v]
  <2>1. everywhere \in SUBSET (Stages \X Users) /\ "CANCELLED" \in ActionStatus
    BY DEF ActionStatus
  <2> HIDE DEF everywhere
  <2>2. /\ Settle(mine, everywhere, "CANCELLED") \in [Stages -> [Users -> ActionStatus]]
        /\ \A t \in Stages, v \in Users :
              Settle(mine, everywhere, "CANCELLED")[t][v] =
                  IF <<t, v>> \in everywhere /\ mine[t][v] = "PENDING"
                  THEN "CANCELLED" ELSE mine[t][v]
    BY <1>3, <2>1, SettleRows
  <2> QED
    BY <1>4, <2>2 DEF everywhere
<1>6. /\ acts'[s][u] = "REJECTED"
      /\ \A t \in Stages, v \in Users : <<t, v>> # <<s, u>> =>
            acts'[t][v] = IF acts[t][v] = "PENDING" THEN "CANCELLED" ELSE acts[t][v]
  <2>1. acts'[s][u] = "REJECTED"
    <3>1. acts'[s][u] = IF mine[s][u] = "PENDING" THEN "CANCELLED" ELSE mine[s][u]
      BY ONLY <1>5, s \in Stages, u \in Users
    <3> QED
      BY <1>3, <3>1
  <2>2. ASSUME NEW t \in Stages, NEW v \in Users, <<t, v>> # <<s, u>>
        PROVE  acts'[t][v] = IF acts[t][v] = "PENDING" THEN "CANCELLED" ELSE acts[t][v]
    <3>1. mine[t][v] = acts[t][v]
      BY ONLY <1>3, <2>2
    <3>2. acts'[t][v] = IF mine[t][v] = "PENDING" THEN "CANCELLED" ELSE mine[t][v]
      BY ONLY <1>5, t \in Stages, v \in Users
    <3> QED
      BY ONLY <3>1, <3>2
  <2> QED
    BY ONLY <2>1, <2>2
<1>7. TypeOK'
  BY <1>1, <1>2, <1>5 DEF IInv, TypeOK, SubjectStatus
<1>8. NothingBeforeCreation' /\ CurrentStageInProgress' /\ ApprovedAtTheLastStage' /\ PendingRunIsAskable'
  <2>1. run'.status \notin {"NONE", "PENDING", "APPROVED"}
    BY <1>2
  <2> QED
    BY ONLY <2>1
       DEF NothingBeforeCreation, CurrentStageInProgress, ApprovedAtTheLastStage, PendingRunIsAskable
<1>9. LaterStagesUnopened'
  <2>1. \A t \in Stages, v \in Users : t > s => t # s /\ acts[t][v] = "NONE"
    BY <1>1 DEF IInv, LaterStagesUnopened
  <2> QED
    BY <1>2, <1>6, <2>1 DEF LaterStagesUnopened
<1>10. AskedOnlyAboutCurrentStage'
  BY <1>6 DEF AskedOnlyAboutCurrentStage, PendingIn
<1>11. LeftStagesAreDischarged'
  <2> SUFFICES ASSUME NEW t \in Stages, t < s PROVE Discharged(t)'
    BY <1>2 DEF LeftStagesAreDischarged, StagesLeft
  <2>1. Discharged(t) /\ t # s
    BY <1>1 DEF IInv, LeftStagesAreDischarged, StagesLeft
  <2>2. \A v \in Users : acts[t][v] # "PENDING"
    BY <1>1, <2>1 DEF IInv, AskedOnlyAboutCurrentStage, PendingIn
  <2>3. \A v \in Users : acts'[t][v] = acts[t][v]
    BY <1>6, <2>1, <2>2
  <2> QED
    BY <1>1, <2>1, <2>3, DischargedIsStable
<1>12. RejectionHasOneAuthor'
  <2>1. \A t \in Stages, v \in Users : acts[t][v] # "REJECTED"
    BY <1>1, NoRejectionWhilePending
  <2>2. \A t \in Stages, v \in Users : acts'[t][v] = "REJECTED" => t = s /\ v = u
    BY <1>6, <2>1
  <2> QED
    BY <1>2, <1>6, <2>2 DEF RejectionHasOneAuthor, Rejected
<1>13. SubjectHearsOnce'
  BY <1>2 DEF SubjectHearsOnce
<1>14. EscalationHandsOver'
  <2>1. EscalationHandsOver
    BY DEF IInv
  <2>2. \A t \in Stages, v \in Users : <<t, v>> \in escalated => acts'[t][v] = acts[t][v]
    BY <1>1, <1>6, <2>1 DEF EscalationHandsOver
  <2>3. \A t \in Stages, v \in Users : acts[t][v] # "NONE" => acts'[t][v] # "NONE"
    BY <1>6
  <2> QED
    BY <1>1, <2>1, <2>2, <2>3, HandOverIsStable
<1> QED
  BY <1>7, <1>8, <1>9, <1>10, <1>11, <1>12, <1>13, <1>14 DEF IInv

\* A withdrawal: every pending row of the run is cancelled.
LEMMA CancelInv == \A status \in CancelAs : IInv /\ Cancel(status) => IInv'
<1> SUFFICES ASSUME NEW status \in CancelAs, IInv, Cancel(status) PROVE IInv'
  OBVIOUS
<1> USE StagesAreNumbers
<1>1. /\ run \in [status : RunStatus, stage : Stages] /\ run.status = "PENDING"
      /\ acts \in [Stages -> [Users -> ActionStatus]]
      /\ subject = "PENDING" /\ delivered = <<>>
      /\ UNCHANGED <<escalated, blocked>>
  BY DEF IInv, TypeOK, Cancel, SubjectHearsOnce
<1>2. /\ run' = [run EXCEPT !.status = "CANCELLED"]
      /\ run' \in [status : RunStatus, stage : Stages]
      /\ run'.status = "CANCELLED" /\ run'.stage = run.stage
  BY <1>1 DEF Cancel, RunStatus
<1>3. /\ acts' \in [Stages -> [Users -> ActionStatus]]
      /\ \A t \in Stages, v \in Users :
            acts'[t][v] = IF acts[t][v] = "PENDING" THEN "CANCELLED" ELSE acts[t][v]
  <2> DEFINE everywhere == Stages \X Users
  <2>1. everywhere \in SUBSET (Stages \X Users) /\ "CANCELLED" \in ActionStatus
    BY DEF ActionStatus
  <2>2. acts' = Settle(acts, everywhere, "CANCELLED")
    BY DEF Cancel
  <2> HIDE DEF everywhere
  <2>3. /\ Settle(acts, everywhere, "CANCELLED") \in [Stages -> [Users -> ActionStatus]]
        /\ \A t \in Stages, v \in Users :
              Settle(acts, everywhere, "CANCELLED")[t][v] =
                  IF <<t, v>> \in everywhere /\ acts[t][v] = "PENDING"
                  THEN "CANCELLED" ELSE acts[t][v]
    BY <1>1, <2>1, SettleRows
  <2> QED
    BY <2>2, <2>3 DEF everywhere
<1>4. /\ subject' \in SubjectStatus /\ delivered' \in Seq(SubjectStatus)
      /\ SubjectHearsOnce'
  <2>1. status \in {"CANCELLED", "WITHDRAWN", "KEEP"}
    BY ApprovalRunAssumption
  <2>2. CASE status = "KEEP" /\ UNCHANGED <<subject, delivered>>
    BY <1>1, <1>2, <2>2 DEF SubjectHearsOnce, SubjectStatus
  <2>3. CASE status # "KEEP" /\ ApplySubject(status)
    <3>1. subject' = status /\ delivered' = <<status>> /\ status \in SubjectStatus
      BY <1>1, <2>1, <2>3 DEF ApplySubject, SubjectStatus
    <3> QED
      BY <1>2, <3>1 DEF SubjectHearsOnce
  <2> QED
    BY <2>2, <2>3 DEF Cancel
<1>5. TypeOK'
  BY <1>1, <1>2, <1>3, <1>4 DEF IInv, TypeOK
<1>6. /\ NothingBeforeCreation' /\ CurrentStageInProgress' /\ ApprovedAtTheLastStage'
      /\ PendingRunIsAskable'
  BY <1>2 DEF NothingBeforeCreation, CurrentStageInProgress, ApprovedAtTheLastStage, PendingRunIsAskable
<1>7. LaterStagesUnopened' /\ AskedOnlyAboutCurrentStage'
  BY <1>2, <1>3 DEF IInv, LaterStagesUnopened, AskedOnlyAboutCurrentStage, PendingIn
<1>8. LeftStagesAreDischarged'
  <2> SUFFICES ASSUME NEW t \in Stages, t < run.stage PROVE Discharged(t)'
    BY <1>2 DEF LeftStagesAreDischarged, StagesLeft
  <2>1. Discharged(t)
    BY DEF IInv, LeftStagesAreDischarged, StagesLeft
  <2>2. \A v \in Users : acts[t][v] # "PENDING"
    BY <1>1 DEF IInv, AskedOnlyAboutCurrentStage, PendingIn
  <2>3. \A v \in Users : acts'[t][v] = acts[t][v]
    BY <1>3, <2>2
  <2> QED
    BY <1>1, <2>1, <2>3, DischargedIsStable
<1>9. RejectionHasOneAuthor'
  <2>1. \A t \in Stages, v \in Users : acts'[t][v] # "REJECTED"
    BY <1>1, <1>3, NoRejectionWhilePending
  <2> QED
    BY <1>2, <2>1 DEF RejectionHasOneAuthor, Rejected
<1>10. EscalationHandsOver'
  <2>1. EscalationHandsOver
    BY DEF IInv
  <2>2. \A t \in Stages, v \in Users : <<t, v>> \in escalated => acts'[t][v] = acts[t][v]
    BY <1>3, <2>1 DEF EscalationHandsOver
  <2>3. \A t \in Stages, v \in Users : acts[t][v] # "NONE" => acts'[t][v] # "NONE"
    BY <1>3
  <2> QED
    BY <1>1, <2>1, <2>2, <2>3, HandOverIsStable
<1> QED
  BY <1>4, <1>5, <1>6, <1>7, <1>8, <1>9, <1>10 DEF IInv

\* The guard is no part of the invariant but for its type.
LEMMA ToggleGuardInv == IInv /\ ToggleGuard => IInv'
<1> SUFFICES ASSUME IInv, ToggleGuard PROVE IInv'
  OBVIOUS
<1>1. UNCHANGED <<run, acts, escalated, subject, delivered>> /\ blocked' \in BOOLEAN
  BY DEF ToggleGuard
<1>2. TypeOK' /\ NothingBeforeCreation' /\ LaterStagesUnopened' /\ CurrentStageInProgress'
  BY <1>1 DEF IInv, TypeOK, NothingBeforeCreation, LaterStagesUnopened, CurrentStageInProgress
<1>3. ApprovedAtTheLastStage' /\ PendingRunIsAskable' /\ AskedOnlyAboutCurrentStage'
  BY <1>1 DEF IInv, ApprovedAtTheLastStage, PendingRunIsAskable, AskedOnlyAboutCurrentStage,
     PendingIn
<1>4. LeftStagesAreDischarged'
  BY <1>1 DEF IInv, LeftStagesAreDischarged, StagesLeft, Discharged
<1>5. RejectionHasOneAuthor' /\ SubjectHearsOnce' /\ EscalationHandsOver'
  BY <1>1 DEF IInv, RejectionHasOneAuthor, Rejected, SubjectHearsOnce, EscalationHandsOver
<1> QED
  BY <1>2, <1>3, <1>4, <1>5 DEF IInv

\* An escalation: the overdue row is closed, the target's row waits.
LEMMA EscalateInv == \A s \in Stages, u, t \in Users : IInv /\ Escalate(s, u, t) => IInv'
<1> SUFFICES ASSUME NEW s \in Stages, NEW u \in Users, NEW t \in Users, IInv, Escalate(s, u, t)
             PROVE  IInv'
  OBVIOUS
<1> USE StagesAreNumbers
<1>1. /\ run.status = "PENDING" /\ run.stage = s
      /\ acts \in [Stages -> [Users -> ActionStatus]]
      /\ acts[s][u] = "PENDING" /\ acts[s][t] \in {"NONE", "PENDING"}
      /\ t \in Targets[s] /\ t # u
      /\ escalated' = escalated \cup {<<s, u>>}
      /\ UNCHANGED <<run, subject, delivered, blocked>>
  BY AnsweredRow DEF IInv, TypeOK, Escalate
<1>2. /\ acts' \in [Stages -> [Users -> ActionStatus]]
      /\ acts'[s][u] = "CANCELLED" /\ acts'[s][t] = "PENDING"
      /\ \A r \in Stages, v \in Users : (r = s => v # u /\ v # t) => acts'[r][v] = acts[r][v]
  <2>1. acts' = [acts EXCEPT ![s][t] = "PENDING", ![s][u] = "CANCELLED"]
    BY DEF Escalate
  <2> QED
    BY <1>1, <2>1 DEF ActionStatus
<1>3. TypeOK'
  BY <1>1, <1>2 DEF IInv, TypeOK
<1>4. NothingBeforeCreation' /\ ApprovedAtTheLastStage' /\ SubjectHearsOnce'
  BY <1>1 DEF IInv, NothingBeforeCreation, ApprovedAtTheLastStage, SubjectHearsOnce
<1>5. LaterStagesUnopened'
  <2>1. \A r \in Stages : r > run.stage => r # s
    BY <1>1
  <2> QED
    BY <1>1, <1>2, <2>1 DEF IInv, LaterStagesUnopened
<1>6. CurrentStageInProgress'
  <2> SUFFICES ASSUME NEW v \in Users
               PROVE  \/ acts'[s][v] \in {"NONE", "PENDING"}
                      \/ acts'[s][v] = "CANCELLED" /\ <<s, v>> \in escalated'
                      \/ acts'[s][v] = "APPROVED" /\ Mode[s] = "ALL"
    BY <1>1 DEF CurrentStageInProgress
  <2>1. CASE v = u \/ v = t
    BY <1>1, <1>2, <2>1
  <2>2. CASE v # u /\ v # t
    <3>1. acts'[s][v] = acts[s][v]
      BY <1>2, <2>2
    <3> QED
      BY <1>1, <3>1 DEF IInv, CurrentStageInProgress
  <2> QED
    BY <2>1, <2>2
<1>7. PendingRunIsAskable'
  BY <1>1, <1>2 DEF PendingRunIsAskable, PendingIn
<1>8. AskedOnlyAboutCurrentStage'
  BY <1>1, <1>2 DEF IInv, AskedOnlyAboutCurrentStage, PendingIn
<1>9. LeftStagesAreDischarged'
  <2> SUFFICES ASSUME NEW r \in Stages, r < s PROVE Discharged(r)'
    BY <1>1 DEF LeftStagesAreDischarged, StagesLeft
  <2>1. Discharged(r) /\ r # s
    BY <1>1 DEF IInv, LeftStagesAreDischarged, StagesLeft
  <2>2. \A v \in Users : acts'[r][v] = acts[r][v]
    BY <1>2, <2>1
  <2>3. \A v \in Users : (<<r, v>> \in escalated') <=> (<<r, v>> \in escalated)
    BY <1>1, <2>1
  <2> QED
    BY <2>1, <2>2, <2>3, DischargedIsStable
<1>10. RejectionHasOneAuthor'
  <2>1. \A r \in Stages, v \in Users : acts[r][v] # "REJECTED"
    BY <1>1, NoRejectionWhilePending
  <2>2. \A r \in Stages, v \in Users : acts'[r][v] # "REJECTED"
    BY <1>2, <2>1
  <2> QED
    BY <1>1, <2>2 DEF RejectionHasOneAuthor, Rejected
<1>11. EscalationHandsOver'
  <2> SUFFICES ASSUME NEW r \in Stages, NEW v \in Users, <<r, v>> \in escalated'
               PROVE  /\ acts'[r][v] = "CANCELLED"
                      /\ \E w \in Targets[r] \ {v} : acts'[r][w] # "NONE"
    BY DEF EscalationHandsOver
  <2>1. CASE r = s /\ v = u
    BY <1>1, <1>2, <2>1
  <2>2. CASE ~(r = s /\ v = u)
    <3>1. <<r, v>> \in escalated
      BY <1>1, <2>2
    <3>2. /\ acts[r][v] = "CANCELLED"
          /\ \E w \in Targets[r] \ {v} : acts[r][w] # "NONE"
      BY <3>1 DEF IInv, EscalationHandsOver
    <3>3. Targets[r] \subseteq Users
      BY ApprovalRunAssumption
    <3>4. acts'[r][v] = "CANCELLED"
      BY <1>1, <1>2, <2>2, <3>2
    <3>5. \A w \in Users : acts[r][w] # "NONE" => acts'[r][w] # "NONE"
      BY <1>1, <1>2
    <3> QED
      BY <3>2, <3>3, <3>4, <3>5
  <2> QED
    BY <2>1, <2>2
<1> QED
  BY <1>3, <1>4, <1>5, <1>6, <1>7, <1>8, <1>9, <1>10, <1>11 DEF IInv

\* A step that changes nothing.
LEMMA StutterInv == IInv /\ UNCHANGED vars => IInv'
<1> SUFFICES ASSUME IInv, UNCHANGED vars PROVE IInv'
  OBVIOUS
<1>1. UNCHANGED <<run, acts, escalated, subject, delivered, blocked>>
  BY DEF vars
<1>2. TypeOK' /\ NothingBeforeCreation' /\ LaterStagesUnopened' /\ CurrentStageInProgress'
  BY <1>1 DEF IInv, TypeOK, NothingBeforeCreation, LaterStagesUnopened, CurrentStageInProgress
<1>3. ApprovedAtTheLastStage' /\ PendingRunIsAskable' /\ AskedOnlyAboutCurrentStage'
  BY <1>1 DEF IInv, ApprovedAtTheLastStage, PendingRunIsAskable, AskedOnlyAboutCurrentStage,
     PendingIn
<1>4. LeftStagesAreDischarged'
  BY <1>1 DEF IInv, LeftStagesAreDischarged, StagesLeft, Discharged
<1>5. RejectionHasOneAuthor' /\ SubjectHearsOnce' /\ EscalationHandsOver'
  BY <1>1 DEF IInv, RejectionHasOneAuthor, Rejected, SubjectHearsOnce, EscalationHandsOver
<1> QED
  BY <1>2, <1>3, <1>4, <1>5 DEF IInv

\* Every operation, taken alone, keeps the invariant.
LEMMA NextInv == IInv /\ [Next]_vars => IInv'
<1> SUFFICES ASSUME IInv, [Next]_vars PROVE IInv'
  OBVIOUS
<1>1. CASE CreateRun
  BY <1>1, CreateRunInv
<1>2. CASE \E s \in Stages, u \in Users : Approve(s, u)
  BY <1>2, ApproveInv
<1>3. CASE \E s \in Stages, u \in Users : Reject(s, u)
  BY <1>3, RejectInv
<1>4. CASE \E s \in Stages, u \in Users, t \in Users : Escalate(s, u, t)
  BY <1>4, EscalateInv
<1>5. CASE \E status \in CancelAs : Cancel(status)
  BY <1>5, CancelInv
<1>6. CASE ToggleGuard
  BY <1>6, ToggleGuardInv
<1>7. CASE UNCHANGED vars
  BY <1>7, StutterInv
<1> QED
  BY <1>1, <1>2, <1>3, <1>4, <1>5, <1>6, <1>7 DEF Next

----------------------------------------------------------------------------
(* What the engine guarantees when requests do not overlap.                *)

\* The inductive invariant holds in every state of the serial engine.
THEOREM Invariance == Spec => []IInv
<1>1. Init => IInv
  BY InitInv
<1>2. IInv /\ [Next]_vars => IInv'
  BY NextInv
<1> QED
  BY <1>1, <1>2, PTL DEF Spec

\* Rows keep the values their columns allow.
THEOREM TypeCorrect == Spec => []TypeOK
<1>1. IInv => TypeOK
  BY DEF IInv
<1> QED
  BY <1>1, Invariance, PTL

\* No pending run waits for nobody, whatever the workflow and the approvers.
THEOREM NoRunWaitsForNobody == Spec => []PendingRunIsAskable
<1>1. IInv => PendingRunIsAskable
  BY DEF IInv
<1> QED
  BY <1>1, Invariance, PTL

\* Nobody is asked about a decided run or a stage the run is not at.
THEOREM NobodyIsAskedTooLate == Spec => []AskedOnlyAboutCurrentStage
<1>1. IInv => AskedOnlyAboutCurrentStage
  BY DEF IInv
<1> QED
  BY <1>1, Invariance, PTL

\* No stage of a workflow is passed over, in either mode.
THEOREM NoStageIsPassedOver == Spec => []LeftStagesAreDischarged
<1>1. IInv => LeftStagesAreDischarged
  BY DEF IInv
<1> QED
  BY <1>1, Invariance, PTL

\* A rejected run was rejected by one approver, and only such a run is.
THEOREM OneRejection == Spec => []RejectionHasOneAuthor
<1>1. IInv => RejectionHasOneAuthor
  BY DEF IInv
<1> QED
  BY <1>1, Invariance, PTL

\* The hook of the subject runs at most once, with the verdict of the run.
THEOREM SubjectIsToldOnce == Spec => []SubjectHearsOnce
<1>1. IInv => SubjectHearsOnce
  BY DEF IInv
<1> QED
  BY <1>1, Invariance, PTL

\* An escalation never loses the request.
THEOREM EscalationLosesNothing == Spec => []EscalationHandsOver
<1>1. IInv => EscalationHandsOver
  BY DEF IInv
<1> QED
  BY <1>1, Invariance, PTL

----------------------------------------------------------------------------
(* An answer is never taken back.                                          *)

\* A step keeps every row that is neither missing nor pending.
Kept == \A s \in Stages, u \in Users :
            acts[s][u] \notin {"NONE", "PENDING"} => acts'[s][u] = acts[s][u]

\* An approval writes only pending rows, and opening a stage only missing ones.
LEMMA ApproveKeeps == \A s \in Stages, u \in Users : IInv /\ Approve(s, u) => Kept
<1> SUFFICES ASSUME NEW s \in Stages, NEW u \in Users, IInv, Approve(s, u) PROVE Kept
  OBVIOUS
<1> DEFINE a == AfterApproval(acts, s, u, StageRows(s))
           n == run.stage + 1
<1>1. /\ acts \in [Stages -> [Users -> ActionStatus]] /\ acts[s][u] = "PENDING"
      /\ run.stage \in Stages
  BY DEF IInv, TypeOK, Approve
<1>2. acts' = a \/ (run.stage < NumStages /\ OpenStage(a, n, acts'))
  BY DEF Approve, AdvanceOrComplete
<1>3. /\ a \in [Stages -> [Users -> ActionStatus]]
      /\ a[s][u] = "APPROVED"
      /\ \A v \in Users \ {u} :
            a[s][v] = IF Mode[s] = "ANY" /\ acts[s][v] = "PENDING" THEN "SKIPPED"
                      ELSE acts[s][v]
      /\ \A t \in Stages \ {s}, v \in Users : a[t][v] = acts[t][v]
  BY <1>1, ApprovalRows
<1>4. run.stage < NumStages => n \in Stages
  BY <1>1, ApprovalRunAssumption DEF Stages
<1> HIDE DEF a, n
<1>5. \A t \in Stages, v \in Users :
         acts[t][v] \notin {"NONE", "PENDING"} => a[t][v] = acts[t][v]
  BY <1>1, <1>3
<1>6. CASE acts' = a
  BY <1>5, <1>6 DEF Kept
<1>7. CASE run.stage < NumStages /\ OpenStage(a, n, acts')
  <2>1. \A t \in Stages, v \in Users :
           \/ acts'[t][v] = a[t][v]
           \/ t = n /\ a[t][v] = "NONE" /\ acts'[t][v] = "PENDING"
    BY <1>3, <1>4, <1>7, OpenStageRows
  <2> QED
    BY <1>5, <2>1 DEF Kept
<1> QED
  BY <1>2, <1>6, <1>7

\* A rejection and a withdrawal write only pending rows.
LEMMA SettlementKeeps ==
    ASSUME IInv,
           \/ \E s \in Stages, u \in Users : Reject(s, u)
           \/ \E status \in CancelAs : Cancel(status)
    PROVE  Kept
<1> DEFINE Closed(b) == [t \in Stages |-> [v \in Users |->
                            IF <<t, v>> \in Stages \X Users /\ b[t][v] = "PENDING"
                            THEN "CANCELLED" ELSE b[t][v]]]
<1>1. acts \in [Stages -> [Users -> ActionStatus]]
  BY DEF IInv, TypeOK
<1>2. ASSUME NEW s \in Stages, NEW u \in Users, Reject(s, u) PROVE Kept
  <2>1. acts[s][u] = "PENDING" /\ acts' = Closed([acts EXCEPT ![s][u] = "REJECTED"])
    BY <1>2 DEF Reject, Settle, Answer
  <2> QED
    BY <1>1, <2>1 DEF Kept
<1>3. ASSUME NEW status \in CancelAs, Cancel(status) PROVE Kept
  <2>1. acts' = Closed(acts)
    BY <1>3 DEF Cancel, Settle
  <2> QED
    BY <1>1, <2>1 DEF Kept
<1> QED
  BY <1>2, <1>3

LEMMA NextKeeps == IInv /\ [Next]_vars => [Kept]_vars
<1> SUFFICES ASSUME IInv, Next PROVE Kept
  OBVIOUS
<1>1. CASE CreateRun
  <2>1. acts \in [Stages -> [Users -> ActionStatus]] /\ OpenStage(acts, 1, acts')
    BY <1>1 DEF IInv, TypeOK, CreateRun
  <2> QED
    BY <2>1, OpenStageRows, StagesAreNumbers DEF Kept
<1>2. CASE \E s \in Stages, u \in Users : Approve(s, u)
  BY <1>2, ApproveKeeps
<1>3. CASE \/ \E s \in Stages, u \in Users : Reject(s, u)
           \/ \E status \in CancelAs : Cancel(status)
  BY <1>3, SettlementKeeps
<1>4. ASSUME NEW s \in Stages, NEW u \in Users, NEW t \in Users, Escalate(s, u, t) PROVE Kept
  <2>1. acts' = [acts EXCEPT ![s][t] = "PENDING", ![s][u] = "CANCELLED"]
    BY <1>4 DEF Escalate
  <2>2. acts[s][u] = "PENDING" /\ acts[s][t] \in {"NONE", "PENDING"} /\ t # u
    BY <1>4 DEF Escalate
  <2>3. acts \in [Stages -> [Users -> ActionStatus]]
    BY DEF IInv, TypeOK
  <2> QED
    BY <2>1, <2>2, <2>3 DEF Kept
<1>5. CASE ToggleGuard
  BY <1>5 DEF ToggleGuard, Kept
<1> QED
  BY <1>1, <1>2, <1>3, <1>4, <1>5 DEF Next

\* When requests do not overlap, the guard "no longer pending" does its work:
\* an answered, skipped or cancelled row never changes again.
THEOREM AnswersStay == Spec => AnswersAreFinal
<1>1. IInv /\ [Next]_vars => [Kept]_vars
  BY NextKeeps
<1> QED
  BY <1>1, Invariance, PTL DEF Spec, AnswersAreFinal, Kept

----------------------------------------------------------------------------
(* The engine implements the decision it promises to the subject.          *)

\* The initial states map to the initial state of the abstract decision.
LEMMA InitDecision == Init => Decision!DInit
<1> SUFFICES ASSUME Init PROVE Decision!DInit
  OBVIOUS
<1>1. run.status = "NONE" /\ run.stage = 1 /\ delivered = <<>>
  BY DEF Init
<1> QED
  BY <1>1 DEF Decision!DInit

\* An approval grants a stage, grants the last one, or is a stutter.
LEMMA ApproveDecides ==
    \A s \in Stages, u \in Users :
        IInv /\ Approve(s, u) => [Decision!DNext]_(Decision!dvars)
<1> SUFFICES ASSUME NEW s \in Stages, NEW u \in Users, IInv, Approve(s, u)
             PROVE  [Decision!DNext]_(Decision!dvars)
  OBVIOUS
<1> USE StagesAreNumbers
<1>1. /\ run \in [status : RunStatus, stage : Stages] /\ run.status = "PENDING"
      /\ delivered = <<>> /\ acts[s][u] = "PENDING"
  BY AnsweredRow DEF IInv, TypeOK, Approve, SubjectHearsOnce
<1>2. \/ UNCHANGED <<run, delivered>>
      \/ /\ run.stage = NumStages
         /\ run' = [run EXCEPT !.status = "APPROVED"]
         /\ delivered' = Append(delivered, "APPROVED")
      \/ /\ run.stage < NumStages
         /\ run' = [run EXCEPT !.stage = run.stage + 1]
         /\ UNCHANGED delivered
  BY DEF Approve, AdvanceOrComplete, ApplySubject
<1>3. CASE UNCHANGED <<run, delivered>>
  BY <1>3 DEF Decision!dvars
<1>4. CASE /\ run.stage = NumStages
           /\ run' = [run EXCEPT !.status = "APPROVED"]
           /\ delivered' = Append(delivered, "APPROVED")
  <2>1. run'.status = "APPROVED" /\ delivered' = <<"APPROVED">>
    BY <1>1, <1>4
  <2>2. run.stage - 1 + 1 = NumStages
    BY <1>4
  <2>3. Decision!GrantLast
    BY <1>1, <2>1, <2>2 DEF Decision!GrantLast
  <2> QED
    BY <2>3 DEF Decision!DNext
<1>5. CASE /\ run.stage < NumStages
           /\ run' = [run EXCEPT !.stage = run.stage + 1]
           /\ UNCHANGED delivered
  <2>1. run'.status = "PENDING" /\ run'.stage = run.stage + 1 /\ run.stage \in Nat
    BY <1>1, <1>5
  <2>2. run.stage - 1 + 1 < NumStages /\ run'.stage - 1 = run.stage - 1 + 1
    BY <1>5, <2>1
  <2>3. Decision!GrantStage
    BY <1>1, <1>5, <2>1, <2>2 DEF Decision!GrantStage
  <2> QED
    BY <2>3 DEF Decision!DNext
<1> QED
  BY <1>2, <1>3, <1>4, <1>5

\* A rejection refuses the request.
LEMMA RejectDecides ==
    \A s \in Stages, u \in Users : IInv /\ Reject(s, u) => Decision!Refuse
<1> SUFFICES ASSUME NEW s \in Stages, NEW u \in Users, IInv, Reject(s, u)
             PROVE  Decision!Refuse
  OBVIOUS
<1>1. /\ run \in [status : RunStatus, stage : Stages] /\ run.status = "PENDING"
      /\ delivered = <<>>
  BY AnsweredRow DEF IInv, TypeOK, Reject, SubjectHearsOnce
<1>2. run' = [run EXCEPT !.status = "REJECTED"] /\ delivered' = Append(delivered, "REJECTED")
  BY DEF Reject, ApplySubject
<1>3. run'.status = "REJECTED" /\ run'.stage = run.stage /\ delivered' = <<"REJECTED">>
  BY <1>1, <1>2
<1> QED
  BY <1>1, <1>3 DEF Decision!Refuse

\* A cancellation withdraws it, with or without telling the subject.
LEMMA CancelDecides ==
    \A status \in CancelAs : IInv /\ Cancel(status) => Decision!Withdraw
<1> SUFFICES ASSUME NEW status \in CancelAs, IInv, Cancel(status) PROVE Decision!Withdraw
  OBVIOUS
<1>1. /\ run \in [status : RunStatus, stage : Stages] /\ run.status = "PENDING"
      /\ delivered = <<>>
  BY DEF IInv, TypeOK, Cancel, SubjectHearsOnce
<1>2. run'.status = "CANCELLED" /\ run'.stage = run.stage
  BY <1>1 DEF Cancel
<1>3. \/ "KEEP" \in CancelAs /\ delivered' = <<>>
      \/ \E told \in CancelAs \ {"KEEP"} : delivered' = <<told>>
  BY <1>1 DEF Cancel, ApplySubject
<1> QED
  BY <1>1, <1>2, <1>3 DEF Decision!Withdraw

\* Every step of the engine is a step of the decision or leaves it unchanged.
LEMMA NextDecides == IInv /\ [Next]_vars => [Decision!DNext]_(Decision!dvars)
<1> SUFFICES ASSUME IInv, [Next]_vars PROVE [Decision!DNext]_(Decision!dvars)
  OBVIOUS
<1>1. CASE CreateRun
  <2>1. /\ run \in [status : RunStatus, stage : Stages] /\ run.status = "NONE"
        /\ run' = [run EXCEPT !.status = "PENDING"] /\ UNCHANGED delivered
    BY <1>1 DEF IInv, TypeOK, CreateRun
  <2>2. run'.status = "PENDING" /\ run'.stage = run.stage
    BY <2>1
  <2>3. Decision!Raise
    BY <2>1, <2>2 DEF Decision!Raise
  <2> QED
    BY <2>3 DEF Decision!DNext
<1>2. CASE \E s \in Stages, u \in Users : Approve(s, u)
  BY <1>2, ApproveDecides
<1>3. CASE \E s \in Stages, u \in Users : Reject(s, u)
  BY <1>3, RejectDecides DEF Decision!DNext
<1>4. CASE \E s \in Stages, u \in Users, t \in Users : Escalate(s, u, t)
  BY <1>4 DEF Escalate, Decision!dvars
<1>5. CASE \E status \in CancelAs : Cancel(status)
  BY <1>5, CancelDecides DEF Decision!DNext
<1>6. CASE ToggleGuard
  BY <1>6 DEF ToggleGuard, Decision!dvars
<1>7. CASE UNCHANGED vars
  BY <1>7 DEF vars, Decision!dvars
<1> QED
  BY <1>1, <1>2, <1>3, <1>4, <1>5, <1>6, <1>7 DEF Next

\* The engine implements the abstract decision: stages are granted one by one,
\* the request ends in at most one way, and the subject hears that end once.
THEOREM EngineDecides == Spec => ImplementsDecision
<1>1. Init => Decision!DInit
  BY InitDecision
<1>2. IInv /\ [Next]_vars => [Decision!DNext]_(Decision!dvars)
  BY NextDecides
<1> QED
  BY <1>1, <1>2, Invariance, PTL DEF Spec, ImplementsDecision, Decision!DSpec

----------------------------------------------------------------------------
(***************************************************************************)
(* Overlapping requests (ApprovalOverlap), for any number of them.         *)
(***************************************************************************)

\* A stage whose rows were created when it was opened, whatever became of them
Opened(s) == \E S \in Resolvable[s] : \A u \in S : acts[s][u] # "NONE"

\* Every stage but the first was opened before the run was put on it
StagesReachedAreOpen == \A s \in Stages : 2 =< s /\ s =< run.stage => Opened(s)

\* The copy of the run that a request holds is old, never ahead
CopiesAreNotAhead ==
    \A p \in Requests :
        req[p].pc \in {"run", "tx"} /\ req[p].verb \in Verbs => req[p].stage =< run.stage

StageInv == OverlapTypeOK /\ StagesReachedAreOpen /\ CopiesAreNotAhead

\* Any two resolutions of a stage have an approver in common
ResolutionsMeet == \A s \in Stages : \A S, T \in Resolvable[s] : S \cap T # {}

\* The statements that write actions take no row away.
LEMMA SettleKeeps ==
    ASSUME NEW a \in [Stages -> [Users -> ActionStatus]],
           NEW R \in SUBSET (Stages \X Users), NEW to \in ActionStatus \ {"NONE"}
    PROVE  /\ Settle(a, R, to) \in [Stages -> [Users -> ActionStatus]]
           /\ \A t \in Stages, v \in Users : a[t][v] # "NONE" => Settle(a, R, to)[t][v] # "NONE"
<1>1. Settle(a, R, to) \in [Stages -> [Users -> ActionStatus]]
  BY SettleRows
<1>2. ASSUME NEW t \in Stages, NEW v \in Users, a[t][v] # "NONE"
      PROVE  Settle(a, R, to)[t][v] # "NONE"
  BY <1>2 DEF Settle
<1> QED BY <1>1, <1>2

LEMMA AnswerKeeps ==
    ASSUME NEW a \in [Stages -> [Users -> ActionStatus]],
           NEW s \in Stages, NEW u \in Users, NEW status \in ActionStatus \ {"NONE"}
    PROVE  /\ Answer(a, s, u, status) \in [Stages -> [Users -> ActionStatus]]
           /\ \A t \in Stages, v \in Users :
                 a[t][v] # "NONE" => Answer(a, s, u, status)[t][v] # "NONE"
<1>1. Answer(a, s, u, status) \in [Stages -> [Users -> ActionStatus]]
  BY AnswerRows
<1>2. ASSUME NEW t \in Stages, NEW v \in Users, a[t][v] # "NONE"
      PROVE  Answer(a, s, u, status)[t][v] # "NONE"
  BY <1>2 DEF Answer
<1> QED BY <1>1, <1>2

\* What a run held in memory at one of the stages writes, over the rows a.
LEMMA AdvanceKeepsRows ==
    ASSUME OverlapTypeOK, NEW a \in [Stages -> [Users -> ActionStatus]], NEW k \in Stages,
           \A t \in Stages, v \in Users : acts[t][v] # "NONE" => a[t][v] # "NONE",
           AdvanceOrComplete(a, k)
    PROVE  /\ run' \in [status : RunStatus, stage : Stages]
           /\ acts' \in [Stages -> [Users -> ActionStatus]]
           /\ \A t \in Stages, v \in Users : acts[t][v] # "NONE" => acts'[t][v] # "NONE"
           /\ subject' \in SubjectStatus /\ delivered' \in Seq(SubjectStatus)
           /\ \/ /\ run'.stage = run.stage /\ run'.status = "APPROVED" /\ subject' = "APPROVED"
              \/ /\ k + 1 \in Stages /\ run'.stage = k + 1 /\ run'.status = run.status
                 /\ \E S \in Resolvable[run'.stage] :
                       \A u \in S : acts[run'.stage][u] = "NONE" /\ acts'[run'.stage][u] # "NONE"
                 /\ UNCHANGED subject
<1> USE DEF OverlapTypeOK, TypeOK
<1>1. CASE k = NumStages /\ run' = [run EXCEPT !.status = "APPROVED"] /\ acts' = a
           /\ ApplySubject("APPROVED")
  <2>1. run' \in [status : RunStatus, stage : Stages]
        /\ run'.stage = run.stage /\ run'.status = "APPROVED"
    BY <1>1 DEF RunStatus
  <2>2. subject' = "APPROVED" /\ subject' \in SubjectStatus
    BY <1>1 DEF ApplySubject, SubjectStatus
  <2>3. delivered' \in Seq(SubjectStatus)
    BY <1>1 DEF ApplySubject, SubjectStatus
  <2> QED BY <1>1, <2>1, <2>2, <2>3
<1>2. CASE /\ k < NumStages /\ run' = [run EXCEPT !.stage = k + 1]
           /\ OpenStage(a, k + 1, acts') /\ UNCHANGED <<subject, delivered>>
  <2>1. k + 1 \in Stages
    BY <1>2, ApprovalRunAssumption DEF Stages
  <2>2. PICK n \in Stages : n = k + 1
    BY <2>1
  <2>3. OpenStage(a, n, acts')
    BY <1>2, <2>2
  <2>4. /\ acts' \in [Stages -> [Users -> ActionStatus]]
        /\ \A t \in Stages, v \in Users : a[t][v] # "NONE" => acts'[t][v] # "NONE"
    BY <2>3, OpenStageRows
  <2>5. \E S \in Resolvable[n] :
            S \subseteq Users /\ \A u \in S : a[n][u] = "NONE" /\ acts'[n][u] # "NONE"
    <3>1. PICK S \in Resolvable[n] :
             /\ \A u \in S : a[n][u] = "NONE"
             /\ acts' = [a EXCEPT ![n] = [u \in Users |-> IF u \in S THEN "PENDING" ELSE a[n][u]]]
      BY <2>3 DEF OpenStage
    <3>2. S \subseteq Users
      BY ApprovalRunAssumption
    <3>3. \A u \in S : a[n][u] = "NONE" /\ acts'[n][u] # "NONE"
      BY <3>1, <3>2
    <3> QED BY <3>2, <3>3
  <2>6. \E S \in Resolvable[n] : \A u \in S : acts[n][u] = "NONE" /\ acts'[n][u] # "NONE"
    BY <2>5
  <2>7. run'.stage = n /\ run'.status = run.status /\ run' \in [status : RunStatus, stage : Stages]
    BY <1>2, <2>2
  <2> QED BY <1>2, <2>1, <2>2, <2>4, <2>6, <2>7
<1> QED BY <1>1, <1>2 DEF AdvanceOrComplete

\* A request that has read, or is in its transaction, has the columns it needs.
LEMMA RequestsHold ==
    ASSUME OverlapTypeOK, NEW p \in Requests
    PROVE  /\ req[p].pc \in {"action", "run", "tx"} /\ req[p].verb \in Verbs =>
                 /\ req[p].row \in Stages \X Users
                 /\ req[p].pc \in {"run", "tx"} => req[p].stage \in Stages
           /\ req[p].pc = "action" => req[p].verb \in Verbs
           /\ req[p].pc \in {"run", "tx"} =>
                 req[p].verb \in Verbs \/ (req[p].verb = "cancel" /\ req[p].status \in CancelAs)
           /\ req[p].pc = "tx" => req[p].others \in SUBSET (Stages \X Users)
<1>1. req[p] \in {Idle, Done} \cup ActionRead \cup RunRead \cup InTx
  BY DEF OverlapTypeOK
<1> QED BY <1>1 DEF Idle, Done, ActionRead, RunRead, InTx, Verbs

RowsStay == \A t \in Stages, v \in Users : acts[t][v] # "NONE" => acts'[t][v] # "NONE"

\* Request p, of which nobody else is at work, takes the run from its copy's stage on
TakenOnBy(p) ==
    /\ req[p].pc = "tx" /\ req[p].verb \in Verbs /\ req[p].stage + 1 \in Stages
    /\ run'.stage = req[p].stage + 1
    /\ \E S \in Resolvable[run'.stage] :
          \A u \in S : acts[run'.stage][u] = "NONE" /\ acts'[run'.stage][u] # "NONE"
    /\ \A q \in Requests \ {p} : req'[q] = req[q]
    /\ req'[p] = Done

\* A copy of the run is made by reading it, and then kept
CopiesFollow ==
    \A p \in Requests :
        req'[p].pc \in {"run", "tx"} /\ req'[p].verb \in Verbs =>
            \/ req'[p].stage = run.stage
            \/ req[p].pc \in {"run", "tx"} /\ req[p].verb \in Verbs /\ req'[p].stage = req[p].stage

\* A verdict is written on the run and its subject, or on neither
VerdictFollows ==
    \/ run'.status = run.status /\ subject' = subject
    \/ run'.status = "PENDING"
    \/ run'.status = "APPROVED" /\ subject' = "APPROVED"
    \/ run'.status = "REJECTED" /\ subject' = "REJECTED"
    \/ run'.status = "CANCELLED" /\ (subject' \in CancelAs \/ "KEEP" \in CancelAs)

\* An action that is escalated leaves one of a target
EscalationFollows ==
    \A r \in escalated' \ escalated : \E t \in Targets[r[1]] \ {r[2]} : acts'[r[1]][t] # "NONE"

StepFollows ==
    /\ OverlapTypeOK'
    /\ RowsStay
    /\ run'.stage = run.stage \/ \E p \in Requests : TakenOnBy(p)
    /\ CopiesFollow
    /\ VerdictFollows
    /\ EscalationFollows

LEMMA NothingWritten ==
    ASSUME OverlapTypeOK, UNCHANGED <<database, blocked>>, CopiesFollow,
           req' \in [Requests -> {Idle, Done} \cup ActionRead \cup RunRead \cup InTx],
           sweep' \subseteq Stages \X Users
    PROVE  StepFollows
BY DEF StepFollows, OverlapTypeOK, TypeOK, database, RowsStay, VerdictFollows, EscalationFollows

\* Reading, checking and opening a transaction write nothing.
LEMMA ReadsFollow ==
    ASSUME OverlapTypeOK, NEW p \in Requests,
           \/ \E verb \in Verbs, s \in Stages, u \in Users : ReadAction(p, verb, s, u)
           \/ \E status \in CancelAs : ReadForCancel(p, status)
           \/ ReadRun(p) \/ BeginDecision(p) \/ BeginCancel(p) \/ Rollback(p)
    PROVE  StepFollows
<1>1. UNCHANGED <<database, blocked, sweep>>
  BY DEF ReadAction, ReadForCancel, ReadRun, BeginDecision, BeginCancel, Rollback
<1>2. PICK r : req' = [req EXCEPT ![p] = r]
  BY DEF ReadAction, ReadForCancel, ReadRun, BeginDecision, BeginCancel, Rollback
<1>3. /\ r \in {Idle, Done} \cup ActionRead \cup RunRead \cup InTx
      /\ r.pc \in {"run", "tx"} /\ r.verb \in Verbs =>
            \/ r.stage = run.stage
            \/ req[p].pc \in {"run", "tx"} /\ req[p].verb \in Verbs /\ r.stage = req[p].stage
  <2>1. CASE \E verb \in Verbs, s \in Stages, u \in Users : ReadAction(p, verb, s, u)
    <3>1. PICK verb \in Verbs, s \in Stages, u \in Users : ReadAction(p, verb, s, u)
      BY <2>1
    <3>2. r = [pc |-> "action", verb |-> verb, row |-> <<s, u>>]
      BY <3>1, <1>2 DEF ReadAction, OverlapTypeOK
    <3> QED BY <3>2 DEF ActionRead
  <2>2. CASE \E status \in CancelAs : ReadForCancel(p, status)
    <3>1. PICK status \in CancelAs : ReadForCancel(p, status)
      BY <2>2
    <3>2. r = [pc |-> "run", verb |-> "cancel", status |-> status]
      BY <3>1, <1>2 DEF ReadForCancel, OverlapTypeOK
    <3> QED BY <3>2 DEF RunRead, Verbs
  <2>3. CASE ReadRun(p)
    <3>1. \/ r = Done
          \/ r = [pc |-> "run", verb |-> req[p].verb, row |-> req[p].row, stage |-> run.stage]
      BY <2>3, <1>2 DEF ReadRun, OverlapTypeOK
    <3>2. run.stage \in Stages /\ req[p].verb \in Verbs /\ req[p].row \in Stages \X Users
      BY <2>3, RequestsHold DEF ReadRun, OverlapTypeOK, TypeOK
    <3> QED BY <3>1, <3>2 DEF RunRead, Done
  <2>4. CASE BeginDecision(p)
    <3>1. PICK o \in SUBSET (Stages \X Users) :
              r = [pc |-> "tx", verb |-> req[p].verb, row |-> req[p].row, stage |-> req[p].stage,
                   others |-> o]
      <4> DEFINE o == (IF req[p].verb = "reject" THEN PendingRows
                       ELSE PendingRows \cap StageRows(req[p].row[1])) \ {req[p].row}
      <4>1. o \in SUBSET (Stages \X Users)
        BY DEF PendingRows
      <4>2. r = [pc |-> "tx", verb |-> req[p].verb, row |-> req[p].row, stage |-> req[p].stage,
                 others |-> o]
        BY <2>4, <1>2 DEF BeginDecision, OverlapTypeOK
      <4> HIDE DEF o
      <4> QED BY <4>1, <4>2
    <3>2. req[p].verb \in Verbs /\ req[p].row \in Stages \X Users /\ req[p].stage \in Stages
      BY <2>4, RequestsHold DEF BeginDecision
    <3> QED BY <2>4, <3>1, <3>2 DEF InTx, BeginDecision
  <2>5. CASE BeginCancel(p)
    <3>1. r = [pc |-> "tx", verb |-> "cancel", status |-> req[p].status, others |-> PendingRows]
      BY <2>5, <1>2 DEF BeginCancel, OverlapTypeOK
    <3>2. req[p].status \in CancelAs
      BY <2>5, RequestsHold DEF BeginCancel, Verbs
    <3>3. PendingRows \in SUBSET (Stages \X Users)
      BY DEF PendingRows
    <3> QED BY <3>1, <3>2, <3>3 DEF InTx, Verbs
  <2>6. CASE Rollback(p)
    BY <2>6, <1>2 DEF Rollback, OverlapTypeOK, Done
  <2> QED BY <2>1, <2>2, <2>3, <2>4, <2>5, <2>6
<1>4. req' \in [Requests -> {Idle, Done} \cup ActionRead \cup RunRead \cup InTx]
  BY <1>2, <1>3 DEF OverlapTypeOK
<1>5. CopiesFollow
  BY <1>2, <1>3 DEF CopiesFollow, OverlapTypeOK
<1> QED BY <1>1, <1>4, <1>5, NothingWritten DEF OverlapTypeOK

\* A request that has ended holds no copy.
LEMMA EndedRequests ==
    ASSUME OverlapTypeOK, NEW p \in Requests, req' = [req EXCEPT ![p] = Done]
    PROVE  /\ req' \in [Requests -> {Idle, Done} \cup ActionRead \cup RunRead \cup InTx]
           /\ CopiesFollow
           /\ req'[p] = Done /\ \A q \in Requests \ {p} : req'[q] = req[q]
BY DEF OverlapTypeOK, CopiesFollow, Done

LEMMA CommitApproveFollows ==
    ASSUME OverlapTypeOK, NEW p \in Requests, CommitApprove(p)
    PROVE  StepFollows
<1>1. PICK s \in Stages, u \in Users : req[p].row = <<s, u>>
  BY RequestsHold DEF CommitApprove, Verbs
<1>2. /\ req[p].pc = "tx" /\ req[p].verb \in Verbs /\ req[p].stage \in Stages
      /\ req[p].others \in SUBSET (Stages \X Users)
  BY RequestsHold DEF CommitApprove, Verbs
<1> DEFINE a == AfterApproval(acts, s, u, req[p].others)
<1>3. /\ a \in [Stages -> [Users -> ActionStatus]]
      /\ \A t \in Stages, v \in Users : acts[t][v] # "NONE" => a[t][v] # "NONE"
  <2> DEFINE b == Answer(acts, s, u, "APPROVED")
  <2>1. /\ b \in [Stages -> [Users -> ActionStatus]]
        /\ \A t \in Stages, v \in Users : acts[t][v] # "NONE" => b[t][v] # "NONE"
    <3>1. "APPROVED" \in ActionStatus \ {"NONE"} /\ acts \in [Stages -> [Users -> ActionStatus]]
      BY DEF OverlapTypeOK, TypeOK, ActionStatus
    <3> QED BY <3>1, AnswerKeeps
  <2> HIDE DEF b
  <2>2. /\ Settle(b, req[p].others, "SKIPPED") \in [Stages -> [Users -> ActionStatus]]
        /\ \A t \in Stages, v \in Users :
              b[t][v] # "NONE" => Settle(b, req[p].others, "SKIPPED")[t][v] # "NONE"
    <3>1. "SKIPPED" \in ActionStatus \ {"NONE"}
      BY DEF ActionStatus
    <3> QED BY <1>2, <2>1, <3>1, SettleKeeps
  <2>3. a = IF Mode[s] = "ANY" THEN Settle(b, req[p].others, "SKIPPED") ELSE b
    BY DEF AfterApproval, b
  <2> QED BY <2>1, <2>2, <2>3
<1> HIDE DEF a
<1>4. /\ AdvanceOrComplete(a, req[p].stage) \/ (acts' = a /\ UNCHANGED <<run, subject, delivered>>)
      /\ req' = [req EXCEPT ![p] = Done]
      /\ UNCHANGED <<escalated, blocked, sweep>>
  BY <1>1 DEF CommitApprove, a
<1>5. /\ req' \in [Requests -> {Idle, Done} \cup ActionRead \cup RunRead \cup InTx]
      /\ CopiesFollow
      /\ req'[p] = Done /\ \A q \in Requests \ {p} : req'[q] = req[q]
  BY <1>4, EndedRequests
<1>6. EscalationFollows
  BY <1>4 DEF EscalationFollows
<1>7. CASE AdvanceOrComplete(a, req[p].stage)
  <2>1. PICK k \in Stages : k = req[p].stage
    BY <1>2
  <2>2. AdvanceOrComplete(a, k)
    BY <1>7, <2>1
  <2>3. /\ run' \in [status : RunStatus, stage : Stages]
        /\ acts' \in [Stages -> [Users -> ActionStatus]]
        /\ \A t \in Stages, v \in Users : acts[t][v] # "NONE" => acts'[t][v] # "NONE"
        /\ subject' \in SubjectStatus /\ delivered' \in Seq(SubjectStatus)
        /\ \/ /\ run'.stage = run.stage /\ run'.status = "APPROVED" /\ subject' = "APPROVED"
           \/ /\ k + 1 \in Stages /\ run'.stage = k + 1 /\ run'.status = run.status
              /\ \E S \in Resolvable[run'.stage] :
                    \A v \in S : acts[run'.stage][v] = "NONE" /\ acts'[run'.stage][v] # "NONE"
              /\ UNCHANGED subject
    BY <1>3, <2>2, AdvanceKeepsRows
  <2>4. OverlapTypeOK'
    BY <1>4, <1>5, <2>3 DEF OverlapTypeOK, TypeOK
  <2>5. run'.stage = run.stage \/ TakenOnBy(p)
    BY <1>2, <1>5, <2>1, <2>3 DEF TakenOnBy
  <2>6. VerdictFollows
    BY <2>3 DEF VerdictFollows
  <2> QED BY <1>5, <1>6, <2>3, <2>4, <2>5, <2>6 DEF StepFollows, RowsStay
<1>8. CASE acts' = a /\ UNCHANGED <<run, subject, delivered>>
  BY <1>3, <1>4, <1>5, <1>6, <1>8
     DEF StepFollows, OverlapTypeOK, TypeOK, RowsStay, VerdictFollows
<1> QED BY <1>4, <1>7, <1>8

LEMMA CommitRejectFollows ==
    ASSUME OverlapTypeOK, NEW p \in Requests, CommitReject(p)
    PROVE  StepFollows
<1>1. PICK s \in Stages, u \in Users : req[p].row = <<s, u>>
  BY RequestsHold DEF CommitReject, Verbs
<1>2. req[p].others \in SUBSET (Stages \X Users)
  BY RequestsHold DEF CommitReject, Verbs
<1> DEFINE b == Answer(acts, s, u, "REJECTED")
<1>3. acts' = Settle(b, req[p].others, "CANCELLED")
  BY <1>1 DEF CommitReject
<1>4. /\ b \in [Stages -> [Users -> ActionStatus]]
      /\ \A t \in Stages, v \in Users : acts[t][v] # "NONE" => b[t][v] # "NONE"
  <2>1. "REJECTED" \in ActionStatus \ {"NONE"} /\ acts \in [Stages -> [Users -> ActionStatus]]
    BY DEF OverlapTypeOK, TypeOK, ActionStatus
  <2> QED BY <2>1, AnswerKeeps
<1> HIDE DEF b
<1>5. acts' \in [Stages -> [Users -> ActionStatus]] /\ RowsStay
  <2>1. "CANCELLED" \in ActionStatus \ {"NONE"}
    BY DEF ActionStatus
  <2>2. /\ acts' \in [Stages -> [Users -> ActionStatus]]
        /\ \A t \in Stages, v \in Users : b[t][v] # "NONE" => acts'[t][v] # "NONE"
    BY <1>2, <1>3, <1>4, <2>1, SettleKeeps
  <2> QED BY <1>4, <2>2 DEF RowsStay
<1>6. /\ run' = [run EXCEPT !.status = "REJECTED"]
      /\ subject' = "REJECTED" /\ delivered' = Append(delivered, "REJECTED")
      /\ req' = [req EXCEPT ![p] = Done]
      /\ UNCHANGED <<escalated, blocked, sweep>>
  BY DEF CommitReject, ApplySubject
<1>7. /\ req' \in [Requests -> {Idle, Done} \cup ActionRead \cup RunRead \cup InTx]
      /\ CopiesFollow
  BY <1>6, EndedRequests
<1>8. OverlapTypeOK' /\ run'.stage = run.stage /\ run'.status = "REJECTED"
  BY <1>5, <1>6, <1>7 DEF OverlapTypeOK, TypeOK, RunStatus, SubjectStatus
<1> QED BY <1>5, <1>6, <1>7, <1>8 DEF StepFollows, VerdictFollows, EscalationFollows

LEMMA CommitCancelFollows ==
    ASSUME OverlapTypeOK, NEW p \in Requests, CommitCancel(p)
    PROVE  StepFollows
<1>1. req[p].others \in SUBSET (Stages \X Users) /\ req[p].status \in CancelAs
  BY RequestsHold DEF CommitCancel, Verbs
<1>2. acts' \in [Stages -> [Users -> ActionStatus]] /\ RowsStay
  <2>1. "CANCELLED" \in ActionStatus \ {"NONE"} /\ acts \in [Stages -> [Users -> ActionStatus]]
    BY DEF OverlapTypeOK, TypeOK, ActionStatus
  <2>2. acts' = Settle(acts, req[p].others, "CANCELLED")
    BY DEF CommitCancel
  <2> QED BY <1>1, <2>1, <2>2, SettleKeeps DEF RowsStay
<1>3. /\ run' = [run EXCEPT !.status = "CANCELLED"]
      /\ req' = [req EXCEPT ![p] = Done]
      /\ UNCHANGED <<escalated, blocked, sweep>>
  BY DEF CommitCancel
<1>4. /\ subject' \in SubjectStatus /\ delivered' \in Seq(SubjectStatus)
      /\ subject' \in CancelAs \/ "KEEP" \in CancelAs
  <2>1. req[p].status # "KEEP" => req[p].status \in SubjectStatus
    BY <1>1, ApprovalRunAssumption DEF SubjectStatus
  <2>2. subject \in SubjectStatus /\ delivered \in Seq(SubjectStatus)
    BY DEF OverlapTypeOK, TypeOK
  <2>3. CASE req[p].status = "KEEP" /\ UNCHANGED <<subject, delivered>>
    BY <1>1, <2>2, <2>3
  <2>4. CASE req[p].status # "KEEP" /\ ApplySubject(req[p].status)
    BY <1>1, <2>1, <2>2, <2>4 DEF ApplySubject
  <2> QED BY <2>3, <2>4 DEF CommitCancel
<1>5. /\ req' \in [Requests -> {Idle, Done} \cup ActionRead \cup RunRead \cup InTx]
      /\ CopiesFollow
  BY <1>3, EndedRequests
<1>6. OverlapTypeOK' /\ run'.stage = run.stage /\ run'.status = "CANCELLED"
  BY <1>2, <1>3, <1>4, <1>5 DEF OverlapTypeOK, TypeOK, RunStatus
<1> QED BY <1>2, <1>3, <1>4, <1>5, <1>6 DEF StepFollows, VerdictFollows, EscalationFollows

LEMMA CopiesStay ==
    ASSUME OverlapTypeOK, UNCHANGED req
    PROVE  CopiesFollow
BY DEF CopiesFollow

LEMMA EscalateNextFollows ==
    ASSUME OverlapTypeOK, NEW s \in Stages, NEW u \in Users, NEW t \in Users, EscalateNext(s, u, t)
    PROVE  StepFollows
<1>1. /\ UNCHANGED <<run, subject, delivered, blocked, req>>
      /\ sweep' \subseteq sweep
      /\ t \in Targets[s] \ {u}
      /\ \/ UNCHANGED <<acts, escalated>>
         \/ /\ acts' = [acts EXCEPT ![s][t] = "PENDING", ![s][u] = "CANCELLED"]
            /\ escalated' = escalated \cup {<<s, u>>}
  BY DEF EscalateNext
<1>2. CASE UNCHANGED <<acts, escalated>>
  BY <1>1, <1>2, CopiesStay
     DEF StepFollows, OverlapTypeOK, TypeOK, RowsStay, VerdictFollows, EscalationFollows
<1>3. CASE /\ acts' = [acts EXCEPT ![s][t] = "PENDING", ![s][u] = "CANCELLED"]
           /\ escalated' = escalated \cup {<<s, u>>}
  <2>1. acts' \in [Stages -> [Users -> ActionStatus]] /\ RowsStay
    BY <1>3 DEF OverlapTypeOK, TypeOK, ActionStatus, RowsStay
  <2>2. t # u /\ acts'[s][t] = "PENDING"
    BY <1>1, <1>3 DEF OverlapTypeOK, TypeOK
  <2>3. EscalationFollows
    <3>1. SUFFICES ASSUME NEW r \in escalated' \ escalated
                   PROVE  \E v \in Targets[r[1]] \ {r[2]} : acts'[r[1]][v] # "NONE"
      BY DEF EscalationFollows
    <3>2. r = <<s, u>> /\ r[1] = s /\ r[2] = u
      BY <1>3
    <3>3. acts'[r[1]][t] # "NONE" /\ t \in Targets[r[1]] \ {r[2]}
      BY <1>1, <2>2, <3>2
    <3> QED BY <3>3
  <2>4. OverlapTypeOK'
    BY <1>1, <1>3, <2>1 DEF OverlapTypeOK, TypeOK
  <2> QED BY <1>1, <2>1, <2>3, <2>4, CopiesStay DEF StepFollows, VerdictFollows
<1> QED BY <1>1, <1>2, <1>3

LEMMA CreateFollows ==
    ASSUME OverlapTypeOK, OverlapCreate
    PROVE  StepFollows
<1>1. /\ run' = [run EXCEPT !.status = "PENDING"] /\ OpenStage(acts, 1, acts')
      /\ UNCHANGED <<escalated, subject, delivered, blocked, req, sweep>>
  BY DEF OverlapCreate, CreateRun
<1>2. 1 \in Stages /\ acts \in [Stages -> [Users -> ActionStatus]]
  BY StagesAreNumbers DEF OverlapTypeOK, TypeOK
<1>3. acts' \in [Stages -> [Users -> ActionStatus]] /\ RowsStay
  BY <1>1, <1>2, OpenStageRows DEF RowsStay
<1>4. OverlapTypeOK' /\ run'.stage = run.stage /\ run'.status = "PENDING"
  BY <1>1, <1>3 DEF OverlapTypeOK, TypeOK, RunStatus
<1> QED BY <1>1, <1>3, <1>4, CopiesStay DEF StepFollows, VerdictFollows, EscalationFollows

\* What a step of the overlapping engine may do, whoever takes it.
LEMMA EveryStepFollows == OverlapTypeOK /\ [OverlapNext]_ovars => StepFollows
<1> SUFFICES ASSUME OverlapTypeOK, [OverlapNext]_ovars PROVE StepFollows
  OBVIOUS
<1>1. CASE OverlapCreate
  BY <1>1, CreateFollows
<1>2. ASSUME NEW p \in Requests,
             \/ \E verb \in Verbs, s \in Stages, u \in Users : ReadAction(p, verb, s, u)
             \/ \E status \in CancelAs : ReadForCancel(p, status)
             \/ ReadRun(p) \/ BeginDecision(p) \/ BeginCancel(p) \/ Rollback(p)
      PROVE  StepFollows
  BY <1>2, ReadsFollow
<1>3. ASSUME NEW p \in Requests, CommitApprove(p) \/ CommitReject(p) \/ CommitCancel(p)
      PROVE  StepFollows
  BY <1>3, CommitApproveFollows, CommitRejectFollows, CommitCancelFollows
<1>4. ASSUME NEW s \in Stages, NEW u \in Users, NEW t \in Users, EscalateNext(s, u, t)
      PROVE  StepFollows
  BY <1>4, EscalateNextFollows
<1>5. CASE ReadOverdue \/ OverlapToggle \/ UNCHANGED ovars
  <2>1. UNCHANGED <<run, acts, escalated, subject, delivered, req>> /\ blocked' \in BOOLEAN
        /\ sweep' \subseteq Stages \X Users
    BY <1>5 DEF ReadOverdue, OverlapToggle, ToggleGuard, ovars, database, OverlapTypeOK, TypeOK,
                PendingRows
  <2> QED BY <2>1, CopiesStay
      DEF StepFollows, OverlapTypeOK, TypeOK, RowsStay, VerdictFollows, EscalationFollows
<1> QED BY <1>1, <1>2, <1>3, <1>4, <1>5 DEF OverlapNext

LEMMA StageInvInit == OverlapInit => StageInv
<1> SUFFICES ASSUME OverlapInit PROVE StageInv
  OBVIOUS
<1>1. OverlapTypeOK
  <2>1. TypeOK
    <3>1. run \in [status : RunStatus, stage : Stages]
      BY StagesAreNumbers DEF OverlapInit, Init, RunStatus
    <3>2. acts \in [Stages -> [Users -> ActionStatus]]
      BY DEF OverlapInit, Init, ActionStatus
    <3>3. delivered \in Seq(SubjectStatus)
      BY DEF OverlapInit, Init
    <3> QED BY <3>1, <3>2, <3>3 DEF OverlapInit, Init, TypeOK, SubjectStatus
  <2>2. req \in [Requests -> {Idle, Done} \cup ActionRead \cup RunRead \cup InTx]
    BY DEF OverlapInit
  <2>3. sweep \subseteq Stages \X Users
    BY DEF OverlapInit
  <2> QED BY <2>1, <2>2, <2>3 DEF OverlapTypeOK
<1>2. StagesReachedAreOpen
  BY StagesAreNumbers DEF OverlapInit, Init, StagesReachedAreOpen
<1>3. CopiesAreNotAhead
  BY DEF OverlapInit, Idle, CopiesAreNotAhead
<1> QED BY <1>1, <1>2, <1>3 DEF StageInv

\* A stage that was opened before cannot be opened again by an old copy: one of those
\* it would ask has a row, and the unique constraint rolls the request back.
LEMMA OldCopiesFail ==
    ASSUME ResolutionsMeet, StageInv, NEW p \in Requests, TakenOnBy(p)
    PROVE  req[p].stage = run.stage /\ run'.stage = run.stage + 1
<1>1. /\ run.stage \in Stages /\ req[p].stage \in Stages /\ req[p].stage =< run.stage
      /\ run'.stage = req[p].stage + 1 /\ run'.stage \in Stages
  BY RequestsHold DEF StageInv, OverlapTypeOK, TypeOK, CopiesAreNotAhead, TakenOnBy
<1>2. PICK n \in Stages : n = run'.stage
  BY <1>1
<1>3. ASSUME n =< run.stage PROVE FALSE
  <2>1. PICK S \in Resolvable[n] : \A u \in S : acts[n][u] = "NONE"
    BY <1>2 DEF TakenOnBy
  <2>2. 2 =< n
    BY <1>1, <1>2, StagesAreNumbers DEF Stages
  <2>3. PICK T \in Resolvable[n] : \A u \in T : acts[n][u] # "NONE"
    BY <1>3, <2>2 DEF StageInv, StagesReachedAreOpen, Opened
  <2>4. S \cap T # {}
    BY <2>1, <2>3 DEF ResolutionsMeet
  <2> QED BY <2>1, <2>3, <2>4
<1> QED BY <1>1, <1>2, <1>3, StagesAreNumbers DEF Stages

LEMMA StageStep ==
    ASSUME ResolutionsMeet, StageInv, [OverlapNext]_ovars
    PROVE  StageInv' /\ run'.stage >= run.stage
<1>1. StepFollows
  BY EveryStepFollows DEF StageInv
<1>2. OverlapTypeOK' /\ RowsStay /\ CopiesFollow
  BY <1>1 DEF StepFollows
<1>3. run.stage \in Stages /\ run'.stage \in Stages
  BY <1>2 DEF StageInv, OverlapTypeOK, TypeOK
<1>4. run'.stage = run.stage \/ \E p \in Requests : TakenOnBy(p)
  BY <1>1 DEF StepFollows
<1>5. run'.stage = run.stage \/ run'.stage = run.stage + 1
  BY <1>4, OldCopiesFail
<1>6. run'.stage >= run.stage
  BY <1>3, <1>5 DEF Stages
<1>7. \A s \in Stages : Opened(s) => Opened(s)'
  <2>1. ASSUME NEW s \in Stages, Opened(s) PROVE Opened(s)'
    <3>1. PICK S \in Resolvable[s] : \A u \in S : acts[s][u] # "NONE"
      BY <2>1 DEF Opened
    <3>2. S \subseteq Users
      BY ApprovalRunAssumption
    <3>3. \A u \in S : acts'[s][u] # "NONE"
      BY <1>2, <3>1, <3>2 DEF RowsStay
    <3> QED BY <3>3 DEF Opened
  <2> QED BY <2>1
<1>8. StagesReachedAreOpen'
  <2>1. SUFFICES ASSUME NEW s \in Stages, 2 =< s, s =< run'.stage PROVE Opened(s)'
    BY DEF StagesReachedAreOpen
  <2>2. CASE s =< run.stage
    BY <1>7, <2>1, <2>2 DEF StageInv, StagesReachedAreOpen
  <2>3. CASE ~ (s =< run.stage)
    <3>1. s = run'.stage /\ run'.stage # run.stage
      BY <1>3, <1>5, <2>1, <2>3 DEF Stages
    <3>2. PICK p \in Requests : TakenOnBy(p)
      BY <1>4, <3>1
    <3>3. \E S \in Resolvable[s] : \A u \in S : acts'[s][u] # "NONE"
      BY <3>1, <3>2 DEF TakenOnBy
    <3> QED BY <3>3 DEF Opened
  <2> QED BY <2>2, <2>3
<1>9. CopiesAreNotAhead'
  <2>1. SUFFICES ASSUME NEW p \in Requests, req'[p].pc \in {"run", "tx"}, req'[p].verb \in Verbs
                 PROVE  req'[p].stage =< run'.stage
    BY DEF CopiesAreNotAhead
  <2>2. \/ req'[p].stage = run.stage
        \/ req[p].pc \in {"run", "tx"} /\ req[p].verb \in Verbs /\ req'[p].stage = req[p].stage
    BY <1>2, <2>1 DEF CopiesFollow
  <2>3. CASE req'[p].stage = run.stage
    BY <1>3, <1>6, <2>3 DEF Stages
  <2>4. CASE req[p].pc \in {"run", "tx"} /\ req[p].verb \in Verbs /\ req'[p].stage = req[p].stage
    <3>1. req[p].stage \in Stages /\ req[p].stage =< run.stage
      BY <2>4, RequestsHold DEF StageInv, CopiesAreNotAhead
    <3> QED BY <1>3, <1>6, <2>4, <3>1 DEF Stages
  <2> QED BY <2>2, <2>3, <2>4
<1> QED BY <1>2, <1>6, <1>8, <1>9 DEF StageInv

\* Rows keep the values their columns allow, however requests overlap.
THEOREM OverlapTypeCorrect == OverlapSpec => []OverlapTypeOK
<1>1. OverlapInit => OverlapTypeOK
  BY StageInvInit DEF StageInv
<1>2. OverlapTypeOK /\ [OverlapNext]_ovars => OverlapTypeOK'
  BY EveryStepFollows DEF StepFollows
<1> QED BY <1>1, <1>2, PTL DEF OverlapSpec

\* However requests overlap, no old copy of the run takes it back to an earlier
\* stage, as long as any two resolutions of a stage have an approver in common
\* (unique_approval_action_per_user_stage).
THEOREM OverlapNeverGoesBack ==
    ASSUME ResolutionsMeet
    PROVE  OverlapSpec => RunNeverGoesBack
<1>1. OverlapInit => StageInv
  BY StageInvInit
<1>2. StageInv /\ [OverlapNext]_ovars => StageInv'
  BY StageStep
<1>3. StageInv /\ [OverlapNext]_ovars => [run'.stage >= run.stage]_ovars
  BY StageStep
<1> QED BY <1>1, <1>2, <1>3, PTL DEF OverlapSpec, RunNeverGoesBack

\* However requests overlap, run and subject tell one verdict, when no caller cancels
\* a run and keeps the status of its subject (_apply_subject_status).
THEOREM OverlapVerdictsAgree ==
    ASSUME "KEEP" \notin CancelAs
    PROVE  OverlapSpec => []RunAndSubjectAgree
<1>1. OverlapInit => OverlapTypeOK /\ RunAndSubjectAgree
  BY StageInvInit DEF StageInv, OverlapInit, Init, RunAndSubjectAgree
<1>2. OverlapTypeOK /\ RunAndSubjectAgree /\ [OverlapNext]_ovars
          => (OverlapTypeOK /\ RunAndSubjectAgree)'
  <2> SUFFICES ASSUME OverlapTypeOK, RunAndSubjectAgree, [OverlapNext]_ovars
               PROVE  (OverlapTypeOK /\ RunAndSubjectAgree)'
    OBVIOUS
  <2>1. OverlapTypeOK' /\ VerdictFollows
    BY EveryStepFollows DEF StepFollows
  <2> QED BY <2>1 DEF VerdictFollows, RunAndSubjectAgree
<1> QED BY <1>1, <1>2, PTL DEF OverlapSpec

\* However requests and the task overlap, an action that was escalated leaves one of
\* a target of its stage (process_pending_action_escalations).
THEOREM OverlapEscalationLosesNothing == OverlapSpec => []EscalationLeavesATarget
<1>1. OverlapInit => OverlapTypeOK /\ EscalationLeavesATarget
  BY StageInvInit DEF StageInv, OverlapInit, Init, EscalationLeavesATarget
<1>2. OverlapTypeOK /\ EscalationLeavesATarget /\ [OverlapNext]_ovars
          => (OverlapTypeOK /\ EscalationLeavesATarget)'
  <2> SUFFICES ASSUME OverlapTypeOK, EscalationLeavesATarget, [OverlapNext]_ovars
               PROVE  (OverlapTypeOK /\ EscalationLeavesATarget)'
    OBVIOUS
  <2>1. OverlapTypeOK' /\ RowsStay /\ EscalationFollows
    BY EveryStepFollows DEF StepFollows
  <2>2. ASSUME NEW r \in escalated', r \in escalated
        PROVE  \E t \in Targets[r[1]] \ {r[2]} : acts'[r[1]][t] # "NONE"
    <3>1. r[1] \in Stages
      BY <2>2 DEF OverlapTypeOK, TypeOK
    <3>2. PICK t \in Targets[r[1]] \ {r[2]} : acts[r[1]][t] # "NONE"
      BY <2>2 DEF EscalationLeavesATarget
    <3>3. t \in Users
      BY <3>1, <3>2, ApprovalRunAssumption
    <3> QED BY <2>1, <3>1, <3>2, <3>3 DEF RowsStay
  <2> QED BY <2>1, <2>2 DEF EscalationFollows, EscalationLeavesATarget
<1> QED BY <1>1, <1>2, PTL DEF OverlapSpec

----------------------------------------------------------------------------
(* One request at a time: the split requests are operations.               *)

Busy(p) == req[p].pc \notin {"idle", "done"}

OneAtATime == \A p, q \in Requests : Busy(p) /\ Busy(q) => p = q

\* What a request is about to write on its own row may still be written
RowIsAsked(p) == acts[req[p].row[1]][req[p].row[2]] = "PENDING"

\* What the request under way has read is still true
ReadIsTrue(p) ==
    /\ req[p].pc \in {"action", "run", "tx"} /\ req[p].verb \in Verbs => RowIsAsked(p)
    /\ req[p].pc \in {"run", "tx"} /\ req[p].verb \in Verbs => req[p].stage = run.stage /\ ~blocked
    /\ req[p].pc \in {"run", "tx"} /\ req[p].verb = "cancel" => run.status = "PENDING"
    /\ req[p].pc = "tx" /\ req[p].verb = "approve" =>
          req[p].others = (PendingRows \cap StageRows(req[p].row[1])) \ {req[p].row}
    /\ req[p].pc = "tx" /\ req[p].verb = "reject" => req[p].others = PendingRows \ {req[p].row}
    /\ req[p].pc = "tx" /\ req[p].verb = "cancel" => req[p].others = PendingRows

SerialInv == IInv /\ OverlapTypeOK /\ OneAtATime /\ \A p \in Requests : ReadIsTrue(p)

\* At first nobody has read anything.
LEMMA SerialInit == OverlapInit => Init /\ SerialInv
<1> SUFFICES ASSUME OverlapInit PROVE Init /\ SerialInv
  OBVIOUS
<1>1. Init /\ IInv
  BY InitInv DEF OverlapInit
<1>2. OverlapTypeOK
  BY StageInvInit DEF StageInv
<1>3. \A p \in Requests : req[p] = Idle
  BY DEF OverlapInit
<1>4. OneAtATime
  BY <1>3 DEF OneAtATime, Busy, Idle
<1>5. \A p \in Requests : ReadIsTrue(p)
  BY <1>3 DEF ReadIsTrue, Idle
<1> QED BY <1>1, <1>2, <1>4, <1>5 DEF SerialInv

\* While the database, and the licences, stay as they are, so does what was read of them
LEMMA ReadStaysTrue ==
    ASSUME NEW q \in Requests, ReadIsTrue(q), UNCHANGED <<run, acts, blocked>>, req'[q] = req[q]
    PROVE  ReadIsTrue(q)'
<1>1. PendingRows' = PendingRows
  BY DEF PendingRows
<1> QED BY <1>1 DEF ReadIsTrue, RowIsAsked

\* Where one request is at work, the others have nothing they must keep true
LEMMA OthersIdle ==
    ASSUME SerialInv, NEW p \in Requests, \A q \in Requests \ {p} : ~Busy(q) /\ req'[q] = req[q],
           ReadIsTrue(p)'
    PROVE  OneAtATime' /\ \A q \in Requests : ReadIsTrue(q)'
<1>1. \A q \in Requests \ {p} : ~Busy(q)'
  BY DEF Busy
<1>2. OneAtATime'
  BY <1>1 DEF OneAtATime
<1>3. \A q \in Requests \ {p} : ReadIsTrue(q)'
  BY <1>1 DEF Busy, ReadIsTrue
<1> QED BY <1>2, <1>3

\* A request that is being served is the only one.
LEMMA OnlyBusy ==
    ASSUME SerialInv, NEW p \in Requests, Busy(p) \/ Quiet
    PROVE  \A q \in Requests \ {p} : ~Busy(q)
BY DEF SerialInv, OneAtATime, Busy, Quiet

\* Reading and opening a transaction change nothing of the operations' module
LEMMA ReadsAreStutters ==
    ASSUME Serial, SerialInv, NEW p \in Requests,
           \/ \E verb \in Verbs, s \in Stages, u \in Users : ReadAction(p, verb, s, u)
           \/ \E status \in CancelAs : ReadForCancel(p, status)
           \/ ReadRun(p) \/ BeginDecision(p) \/ BeginCancel(p) \/ Rollback(p)
    PROVE  UNCHANGED vars /\ OneAtATime' /\ \A q \in Requests : ReadIsTrue(q)'
<1>1. UNCHANGED vars
  BY DEF ReadAction, ReadForCancel, ReadRun, BeginDecision, BeginCancel, Rollback, vars, database
<1>2. PICK r : req' = [req EXCEPT ![p] = r]
  BY DEF ReadAction, ReadForCancel, ReadRun, BeginDecision, BeginCancel, Rollback
<1>3. req'[p] = r /\ \A q \in Requests \ {p} : req'[q] = req[q]
  BY <1>2 DEF SerialInv, OverlapTypeOK
<1>4. Busy(p) \/ Quiet
  BY DEF ReadAction, ReadForCancel, ReadRun, BeginDecision, BeginCancel, Rollback, Busy
<1>5. PendingRows' = PendingRows /\ ReadIsTrue(p)
  BY <1>1 DEF vars, PendingRows, SerialInv
<1>6. ReadIsTrue(p)'
  <2>1. CASE \E verb \in Verbs, s \in Stages, u \in Users : ReadAction(p, verb, s, u)
    <3>1. PICK verb \in Verbs, s \in Stages, u \in Users : ReadAction(p, verb, s, u)
      BY <2>1
    <3>2. req'[p] = [pc |-> "action", verb |-> verb, row |-> <<s, u>>] /\ acts'[s][u] = "PENDING"
      BY <3>1, <1>1 DEF ReadAction, SerialInv, OverlapTypeOK, vars
    <3> QED BY <3>2 DEF ReadIsTrue, RowIsAsked
  <2>2. CASE \E status \in CancelAs : ReadForCancel(p, status)
    <3>1. PICK status \in CancelAs : ReadForCancel(p, status)
      BY <2>2
    <3>2. req'[p] = [pc |-> "run", verb |-> "cancel", status |-> status] /\ run'.status = "PENDING"
      BY <3>1, <1>1 DEF ReadForCancel, SerialInv, OverlapTypeOK, vars
    <3> QED BY <3>2 DEF ReadIsTrue, Verbs
  <2>3. CASE ReadRun(p)
    <3>1. \/ req'[p] = Done
          \/ /\ ~blocked'
             /\ req'[p] = [pc |-> "run", verb |-> req[p].verb, row |-> req[p].row,
                           stage |-> run'.stage]
      BY <2>3, <1>1 DEF ReadRun, SerialInv, OverlapTypeOK, vars
    <3>2. req[p].verb \in Verbs /\ acts'[req[p].row[1]][req[p].row[2]] = "PENDING"
      BY <2>3, <1>1, <1>5, RequestsHold DEF ReadRun, ReadIsTrue, RowIsAsked, SerialInv, vars
    <3> QED BY <3>1, <3>2 DEF ReadIsTrue, RowIsAsked, Done, Verbs
  <2>4. CASE BeginDecision(p)
    <3>1. req'[p] = [pc |-> "tx", verb |-> req[p].verb, row |-> req[p].row, stage |-> req[p].stage,
                     others |-> (IF req[p].verb = "reject" THEN PendingRows
                                 ELSE PendingRows \cap StageRows(req[p].row[1])) \ {req[p].row}]
      BY <2>4 DEF BeginDecision, SerialInv, OverlapTypeOK
    <3>2. /\ req[p].verb \in Verbs /\ acts'[req[p].row[1]][req[p].row[2]] = "PENDING"
          /\ req[p].stage = run'.stage /\ ~blocked'
      BY <2>4, <1>1, <1>5 DEF BeginDecision, ReadIsTrue, RowIsAsked, vars
    <3> QED BY <3>1, <3>2, <1>5 DEF ReadIsTrue, RowIsAsked, Verbs
  <2>5. CASE BeginCancel(p)
    <3>1. req'[p] = [pc |-> "tx", verb |-> "cancel", status |-> req[p].status,
                     others |-> PendingRows]
      BY <2>5 DEF BeginCancel, SerialInv, OverlapTypeOK
    <3>2. run'.status = "PENDING"
      BY <2>5, <1>1, <1>5 DEF BeginCancel, ReadIsTrue, vars
    <3> QED BY <3>1, <3>2, <1>5 DEF ReadIsTrue, Verbs
  <2>6. CASE Rollback(p)
    <3>1. req'[p] = Done
      BY <2>6 DEF Rollback, SerialInv, OverlapTypeOK
    <3> QED BY <3>1 DEF Done, ReadIsTrue
  <2> QED BY <2>1, <2>2, <2>3, <2>4, <2>5, <2>6
<1>7. \A q \in Requests \ {p} : ~Busy(q)
  BY <1>4, OnlyBusy
<1> QED BY <1>1, <1>3, <1>6, <1>7, OthersIdle

\* A request that has ended leaves nothing that must stay true
LEMMA EndingKeeps ==
    ASSUME Serial, SerialInv, NEW p \in Requests, Busy(p), req' = [req EXCEPT ![p] = Done]
    PROVE  OneAtATime' /\ \A q \in Requests : ReadIsTrue(q)'
<1>1. req'[p] = Done /\ \A q \in Requests \ {p} : req'[q] = req[q]
  BY DEF SerialInv, OverlapTypeOK
<1>2. ReadIsTrue(p)'
  BY <1>1 DEF Done, ReadIsTrue
<1>3. \A q \in Requests \ {p} : ~Busy(q)
  BY OnlyBusy
<1> QED BY <1>1, <1>2, <1>3, OthersIdle

\* The rows a request chose are those that a whole operation settles
LEMMA ChosenRows ==
    ASSUME NEW b, NEW o, NEW R, NEW to,
           \A t \in Stages, v \in Users :
               b[t][v] = "PENDING" => (<<t, v>> \in o <=> <<t, v>> \in R)
    PROVE  Settle(b, o, to) = Settle(b, R, to)
<1>1. \A t \in Stages, v \in Users :
          (<<t, v>> \in o /\ b[t][v] = "PENDING") <=> (<<t, v>> \in R /\ b[t][v] = "PENDING")
  OBVIOUS
<1> QED BY <1>1 DEF Settle

\* Once a row is answered, only the others of it are pending
LEMMA PendingOnceAnswered ==
    ASSUME acts \in [Stages -> [Users -> ActionStatus]], NEW s \in Stages, NEW u \in Users,
           NEW status \in ActionStatus \ {"PENDING"}
    PROVE  \A t \in Stages, v \in Users :
               Answer(acts, s, u, status)[t][v] = "PENDING" => <<t, v>> \in PendingRows \ {<<s, u>>}
<1> PICK b : b = Answer(acts, s, u, status)
  OBVIOUS
<1>1. b[s][u] = status /\ \A t \in Stages, v \in Users : <<t, v>> # <<s, u>> => b[t][v] = acts[t][v]
  BY AnswerRows
<1> QED BY <1>1 DEF PendingRows

\* The commit of an approval is the whole approve_action.
LEMMA CommitApproveOperates ==
    ASSUME Serial, SerialInv, NEW p \in Requests, CommitApprove(p)
    PROVE  Next /\ OneAtATime' /\ \A q \in Requests : ReadIsTrue(q)'
<1>1. PICK s \in Stages, u \in Users : req[p].row = <<s, u>>
  BY RequestsHold DEF CommitApprove, Verbs, SerialInv
<1>2. /\ acts[s][u] = "PENDING" /\ ~blocked /\ req[p].stage = run.stage
      /\ req[p].others = (PendingRows \cap StageRows(s)) \ {<<s, u>>}
  <2>1. req[p].row[1] = s /\ req[p].row[2] = u
    BY <1>1
  <2>2. ReadIsTrue(p) /\ req[p].pc = "tx" /\ req[p].verb = "approve"
    BY DEF SerialInv, CommitApprove
  <2> QED BY <1>1, <2>1, <2>2 DEF ReadIsTrue, RowIsAsked, Verbs
<1> DEFINE mine == Answer(acts, s, u, "APPROVED")
           a == AfterApproval(acts, s, u, StageRows(s))
<1>3. AfterApproval(acts, s, u, req[p].others) = a
  <2>1. "APPROVED" \in ActionStatus \ {"PENDING"} /\ acts \in [Stages -> [Users -> ActionStatus]]
    BY DEF ActionStatus, SerialInv, OverlapTypeOK, TypeOK
  <2>2. Settle(mine, req[p].others, "SKIPPED") = Settle(mine, StageRows(s), "SKIPPED")
    <3>1. \A t \in Stages, v \in Users :
              mine[t][v] = "PENDING" => <<t, v>> \in PendingRows \ {<<s, u>>}
      BY <2>1, PendingOnceAnswered
    <3> HIDE DEF mine
    <3>2. \A t \in Stages, v \in Users : mine[t][v] = "PENDING" =>
              (<<t, v>> \in req[p].others <=> <<t, v>> \in StageRows(s))
      BY <1>2, <3>1
    <3> QED BY <3>2, ChosenRows
  <2> QED BY <2>2 DEF AfterApproval
<1>4. Mode[s] = "ALL" => (req[p].others = {} <=> PendingIn(a, s) = {})
  <2> SUFFICES ASSUME Mode[s] = "ALL" PROVE req[p].others = {} <=> PendingIn(a, s) = {}
    OBVIOUS
  <2>1. a = mine
    BY DEF AfterApproval
  <2>2. mine[s][u] = "APPROVED" /\ \A v \in Users \ {u} : mine[s][v] = acts[s][v]
    <3>1. "APPROVED" \in ActionStatus /\ acts \in [Stages -> [Users -> ActionStatus]]
      BY DEF ActionStatus, SerialInv, OverlapTypeOK, TypeOK
    <3>2. /\ mine[s][u] = "APPROVED"
          /\ \A t \in Stages, v \in Users : <<t, v>> # <<s, u>> => mine[t][v] = acts[t][v]
      BY <3>1, AnswerRows
    <3> HIDE DEF mine
    <3> QED BY <3>2
  <2> HIDE DEF mine, a
  <2>3. \A v \in Users : v \in PendingIn(a, s) <=> v # u /\ acts[s][v] = "PENDING"
    BY <2>1, <2>2 DEF PendingIn
  <2>4. \A r : r \in req[p].others <=>
            \E v \in Users : r = <<s, v>> /\ v # u /\ acts[s][v] = "PENDING"
    BY <1>2 DEF PendingRows, StageRows
  <2>5. PendingIn(a, s) \subseteq Users
    BY DEF PendingIn
  <2> QED BY <2>3, <2>4, <2>5
<1>5. Mode[s] \in {"ALL", "ANY"}
  BY ApprovalRunAssumption
<1>6. /\ UNCHANGED <<escalated, blocked>> /\ req' = [req EXCEPT ![p] = Done] /\ Busy(p)
      /\ \/ Mode[s] = "ANY" /\ AdvanceOrComplete(a, run.stage)
         \/ Mode[s] = "ALL" /\ req[p].others = {} /\ AdvanceOrComplete(a, run.stage)
         \/ /\ Mode[s] = "ALL" /\ req[p].others # {} /\ acts' = a
            /\ UNCHANGED <<run, subject, delivered>>
  BY <1>1, <1>2, <1>3 DEF CommitApprove, Busy
<1> HIDE DEF a, mine
<1>7. \/ StageComplete(a, s) /\ AdvanceOrComplete(a, run.stage)
      \/ ~StageComplete(a, s) /\ acts' = a /\ UNCHANGED <<run, subject, delivered>>
  BY <1>4, <1>5, <1>6 DEF StageComplete
<1>8. Approve(s, u)
  BY <1>2, <1>6, <1>7 DEF Approve, a
<1>9. OneAtATime' /\ \A q \in Requests : ReadIsTrue(q)'
  BY <1>6, EndingKeeps
<1> QED BY <1>8, <1>9 DEF Next

\* The commit of a rejection is the whole reject_action.
LEMMA CommitRejectOperates ==
    ASSUME Serial, SerialInv, NEW p \in Requests, CommitReject(p)
    PROVE  Next /\ OneAtATime' /\ \A q \in Requests : ReadIsTrue(q)'
<1>1. PICK s \in Stages, u \in Users : req[p].row = <<s, u>>
  BY RequestsHold DEF CommitReject, Verbs, SerialInv
<1>2. acts[s][u] = "PENDING" /\ ~blocked /\ req[p].others = PendingRows \ {<<s, u>>}
  <2>1. req[p].row[1] = s /\ req[p].row[2] = u
    BY <1>1
  <2>2. ReadIsTrue(p) /\ req[p].pc = "tx" /\ req[p].verb = "reject"
    BY DEF SerialInv, CommitReject
  <2> QED BY <1>1, <2>1, <2>2 DEF ReadIsTrue, RowIsAsked, Verbs
<1>3. Settle(Answer(acts, s, u, "REJECTED"), req[p].others, "CANCELLED")
          = Settle(Answer(acts, s, u, "REJECTED"), Stages \X Users, "CANCELLED")
  <2> DEFINE mine == Answer(acts, s, u, "REJECTED")
  <2>1. "REJECTED" \in ActionStatus \ {"PENDING"} /\ acts \in [Stages -> [Users -> ActionStatus]]
    BY DEF ActionStatus, SerialInv, OverlapTypeOK, TypeOK
  <2>2. \A t \in Stages, v \in Users :
            mine[t][v] = "PENDING" => <<t, v>> \in PendingRows \ {<<s, u>>}
    BY <2>1, PendingOnceAnswered
  <2> HIDE DEF mine
  <2>3. \A t \in Stages, v \in Users : mine[t][v] = "PENDING" =>
            (<<t, v>> \in req[p].others <=> <<t, v>> \in Stages \X Users)
    BY <1>2, <2>2
  <2>4. Settle(mine, req[p].others, "CANCELLED") = Settle(mine, Stages \X Users, "CANCELLED")
    BY <2>3, ChosenRows
  <2> QED BY <2>4 DEF mine
<1>4. Reject(s, u)
  BY <1>1, <1>2, <1>3 DEF CommitReject, Reject
<1>5. Busy(p) /\ req' = [req EXCEPT ![p] = Done]
  BY DEF CommitReject, Busy
<1> QED BY <1>4, <1>5, EndingKeeps DEF Next

\* The commit of a cancellation is the whole cancel_approval_run.
LEMMA CommitCancelOperates ==
    ASSUME Serial, SerialInv, NEW p \in Requests, CommitCancel(p)
    PROVE  Next /\ OneAtATime' /\ \A q \in Requests : ReadIsTrue(q)'
<1>1. run.status = "PENDING" /\ req[p].others = PendingRows /\ req[p].status \in CancelAs
  BY RequestsHold DEF SerialInv, ReadIsTrue, CommitCancel, Verbs
<1>2. Settle(acts, PendingRows, "CANCELLED") = Settle(acts, Stages \X Users, "CANCELLED")
  <2>1. \A t \in Stages, v \in Users : acts[t][v] = "PENDING" =>
            (<<t, v>> \in PendingRows <=> <<t, v>> \in Stages \X Users)
    BY DEF PendingRows
  <2> QED BY <2>1, ChosenRows
<1>3. Cancel(req[p].status)
  BY <1>1, <1>2 DEF CommitCancel, Cancel
<1>4. Busy(p) /\ req' = [req EXCEPT ![p] = Done]
  BY DEF CommitCancel, Busy
<1> QED BY <1>1, <1>3, <1>4, EndingKeeps DEF Next

\* With nobody at work nothing that was read has to stay true
LEMMA QuietKeeps ==
    ASSUME Quiet, UNCHANGED req
    PROVE  OneAtATime' /\ \A q \in Requests : ReadIsTrue(q)'
<1>1. \A q \in Requests : req'[q].pc \in {"idle", "done"}
  BY DEF Quiet
<1> QED BY <1>1 DEF OneAtATime, Busy, ReadIsTrue

\* Before the run is there nobody has read anything of it
LEMMA NobodyBeforeCreation ==
    ASSUME SerialInv, run.status = "NONE"
    PROVE  \A q \in Requests : req[q].pc \in {"idle", "done"}
<1>1. \A s \in Stages, u \in Users : acts[s][u] = "NONE"
  BY DEF SerialInv, IInv, NothingBeforeCreation
<1>2. ASSUME NEW q \in Requests PROVE req[q].pc \in {"idle", "done"}
  <2>1. req[q] \in {Idle, Done} \cup ActionRead \cup RunRead \cup InTx
    BY DEF SerialInv, OverlapTypeOK
  <2>2. CASE req[q].pc \in {"action", "run", "tx"} /\ req[q].verb \in Verbs
    <3>1. req[q].row \in Stages \X Users /\ RowIsAsked(q)
      BY <2>2, RequestsHold DEF SerialInv, ReadIsTrue
    <3> QED BY <1>1, <3>1 DEF RowIsAsked
  <2>3. CASE req[q].pc \in {"run", "tx"} /\ req[q].verb = "cancel"
    BY <2>3 DEF SerialInv, ReadIsTrue
  <2>4. req[q].pc \in {"idle", "done", "action", "run", "tx"}
    BY <2>1 DEF Idle, Done, ActionRead, RunRead, InTx
  <2> QED BY <2>2, <2>3, <2>4, RequestsHold DEF SerialInv
<1> QED BY <1>2

\* A run is created while no request is at work.
LEMMA CreateOperates ==
    ASSUME SerialInv, OverlapCreate
    PROVE  Next /\ OneAtATime' /\ \A q \in Requests : ReadIsTrue(q)'
<1>1. CreateRun /\ UNCHANGED req /\ run.status = "NONE"
  BY DEF OverlapCreate, CreateRun
<1>2. Quiet
  BY <1>1, NobodyBeforeCreation DEF Quiet
<1> QED BY <1>1, <1>2, QuietKeeps DEF Next

\* The task's row, read again under its lock, is of a run that still waits for it
LEMMA EscalateNextOperates ==
    ASSUME Serial, SerialInv, NEW s \in Stages, NEW u \in Users, NEW t \in Users,
           EscalateNext(s, u, t)
    PROVE  [Next]_vars /\ OneAtATime' /\ \A q \in Requests : ReadIsTrue(q)'
<1>1. Quiet /\ UNCHANGED <<run, subject, delivered, blocked, req>> /\ t \in Targets[s] \ {u}
  BY DEF EscalateNext
<1>2. [Next]_vars
  <2>1. CASE UNCHANGED <<acts, escalated>>
    BY <1>1, <2>1 DEF vars
  <2>2. CASE /\ acts[s][u] = "PENDING" /\ <<s, u>> \notin escalated
             /\ acts[s][t] \in {"NONE", "PENDING"}
             /\ acts' = [acts EXCEPT ![s][t] = "PENDING", ![s][u] = "CANCELLED"]
             /\ escalated' = escalated \cup {<<s, u>>}
    <3>1. run.status = "PENDING"
      BY <2>2, AnsweredRow DEF SerialInv
    <3>2. Escalate(s, u, t)
      BY <1>1, <2>2, <3>1 DEF Escalate
    <3> QED BY <3>2 DEF Next
  <2> QED BY <2>1, <2>2 DEF EscalateNext
<1> QED BY <1>1, <1>2, QuietKeeps

\* Every step of split requests served one after the other is one of the operations, or
\* changes nothing of theirs
LEMMA SerialStep ==
    ASSUME Serial
    PROVE  SerialInv /\ [OverlapNext]_ovars => [Next]_vars /\ SerialInv'
<1> SUFFICES ASSUME SerialInv, [OverlapNext]_ovars PROVE [Next]_vars /\ SerialInv'
  OBVIOUS
<1>1. [Next]_vars /\ OneAtATime' /\ \A q \in Requests : ReadIsTrue(q)'
  <2>1. CASE OverlapCreate
    BY <2>1, CreateOperates
  <2>2. CASE OverlapToggle
    BY <2>2, QuietKeeps DEF OverlapToggle, Next
  <2>3. ASSUME NEW p \in Requests,
               \/ \E verb \in Verbs, s \in Stages, u \in Users : ReadAction(p, verb, s, u)
               \/ \E status \in CancelAs : ReadForCancel(p, status)
               \/ ReadRun(p) \/ BeginDecision(p) \/ BeginCancel(p) \/ Rollback(p)
        PROVE  [Next]_vars /\ OneAtATime' /\ \A q \in Requests : ReadIsTrue(q)'
    BY <2>3, ReadsAreStutters
  <2>4. ASSUME NEW p \in Requests, CommitApprove(p) \/ CommitReject(p) \/ CommitCancel(p)
        PROVE  [Next]_vars /\ OneAtATime' /\ \A q \in Requests : ReadIsTrue(q)'
    BY <2>4, CommitApproveOperates, CommitRejectOperates, CommitCancelOperates
  <2>5. CASE ReadOverdue
    BY <2>5, QuietKeeps DEF ReadOverdue, database, vars
  <2>6. ASSUME NEW s \in Stages, NEW u \in Users, NEW t \in Users, EscalateNext(s, u, t)
        PROVE  [Next]_vars /\ OneAtATime' /\ \A q \in Requests : ReadIsTrue(q)'
    BY <2>6, EscalateNextOperates
  <2>7. CASE UNCHANGED ovars
    <3>1. UNCHANGED vars /\ UNCHANGED req
      BY <2>7 DEF ovars, vars
    <3>2. \A q \in Requests : ReadIsTrue(q)'
      BY <3>1, ReadStaysTrue DEF SerialInv, vars
    <3> QED BY <3>1, <3>2 DEF SerialInv, OneAtATime, Busy
  <2> QED BY <2>1, <2>2, <2>3, <2>4, <2>5, <2>6, <2>7 DEF OverlapNext
<1>2. IInv'
  BY <1>1, NextInv DEF SerialInv
<1>3. OverlapTypeOK'
  BY EveryStepFollows DEF SerialInv, StepFollows
<1> QED BY <1>1, <1>2, <1>3 DEF SerialInv

\* One request at a time, the split requests are the operations of ApprovalRun: what the
\* view reads is still true when the transaction writes (approve_action, reject_action,
\* cancel_approval_run), so each commit is one whole operation and each read changes
\* nothing.
THEOREM SplitRequestsAreOperations ==
    ASSUME Serial
    PROVE  OverlapSpec => SerialRequestsAreOperations
<1>1. OverlapInit => Init /\ SerialInv
  BY SerialInit
<1>2. SerialInv /\ [OverlapNext]_ovars => [Next]_vars /\ SerialInv'
  BY SerialStep
<1> QED BY <1>1, <1>2, PTL DEF OverlapSpec, Spec, SerialRequestsAreOperations

\* So what they promise the modules that raise requests is what the engine promises: the
\* split requests, too, implement ApprovalDecision.
THEOREM SplitRequestsDecide ==
    ASSUME Serial
    PROVE  OverlapSpec => ImplementsDecision
<1> QED BY SplitRequestsAreOperations, EngineDecides DEF SerialRequestsAreOperations

\* One request at a time, "All approvers required" is kept: an ALL stage that was left has
\* no row that still waits or that refused.  Requests that overlap break it.
THEOREM AllWereAsked ==
    ASSUME Serial
    PROVE  OverlapSpec => []AllApproversRequired
<1>1. IInv => AllApproversRequired
  <2> SUFFICES ASSUME IInv, NEW s \in StagesLeft, Mode[s] = "ALL", NEW u \in Users
               PROVE  acts[s][u] \in {"NONE", "APPROVED", "CANCELLED"}
    BY DEF AllApproversRequired
  <2>1. Discharged(s) /\ s \in Stages
    BY DEF IInv, LeftStagesAreDischarged, StagesLeft
  <2>2. CASE <<s, u>> \in escalated
    BY <2>1, <2>2 DEF IInv, EscalationHandsOver
  <2>3. CASE <<s, u>> \notin escalated
    BY <2>1, <2>3 DEF Discharged
  <2> QED BY <2>2, <2>3
<1>2. OverlapSpec => Spec
  BY SplitRequestsAreOperations DEF SerialRequestsAreOperations
<1> QED BY <1>1, <1>2, Invariance, PTL

----------------------------------------------------------------------------
(* What is written on the rows, however requests overlap.                  *)

Verdicts == {"APPROVED", "REJECTED"}

\* From rows c to rows a, no verdict but that of <<s, u>> is replaced
LeavesVerdicts(c, a, s, u) ==
    \A t \in Stages, v \in Users :
        <<t, v>> # <<s, u>> /\ c[t][v] \in Verdicts => a[t][v] = c[t][v]

\* A request that answers its own row and settles others that are pending replaces
\* nobody else's verdict.
LEMMA AnsweredAndSettled ==
    ASSUME NEW c \in [Stages -> [Users -> ActionStatus]], NEW s \in Stages, NEW u \in Users,
           NEW o \in SUBSET (Stages \X Users),
           NEW status \in ActionStatus, NEW to \in ActionStatus
    PROVE  /\ LeavesVerdicts(c, Answer(c, s, u, status), s, u)
           /\ LeavesVerdicts(c, Settle(Answer(c, s, u, status), o, to), s, u)
<1> PICK b : b = Answer(c, s, u, status)
  OBVIOUS
<1>1. /\ b \in [Stages -> [Users -> ActionStatus]]
      /\ \A t \in Stages, v \in Users : <<t, v>> # <<s, u>> => b[t][v] = c[t][v]
  BY AnswerRows
<1>2. LeavesVerdicts(c, b, s, u)
  BY <1>1 DEF LeavesVerdicts
<1> PICK a : a = Settle(b, o, to)
  OBVIOUS
<1>3. \A t \in Stages, v \in Users :
          a[t][v] = IF <<t, v>> \in o /\ b[t][v] = "PENDING" THEN to ELSE b[t][v]
  BY DEF Settle
<1>4. LeavesVerdicts(c, a, s, u)
  <2>1. \A t \in Stages, v \in Users : b[t][v] \in Verdicts => a[t][v] = b[t][v]
    BY <1>3 DEF Verdicts
  <2> QED BY <1>1, <2>1 DEF LeavesVerdicts
<1> QED BY <1>2, <1>4

\* The rows a commit leaves, and whose they are
LEMMA CommitRows ==
    ASSUME OverlapTypeOK, NEW p \in Requests,
           CommitApprove(p) \/ CommitReject(p) \/ CommitCancel(p)
    PROVE  \A t \in Stages, v \in Users :
              acts[t][v] \in Verdicts /\ acts'[t][v] # acts[t][v] => HeldRows(p) = {<<t, v>>}
<1>1. CASE CommitCancel(p)
  <2> PICK o : o = req[p].others
    OBVIOUS
  <2>1. acts' = Settle(acts, o, "CANCELLED") /\ o \in SUBSET (Stages \X Users)
    BY <1>1, RequestsHold DEF CommitCancel
  <2>2. acts \in [Stages -> [Users -> ActionStatus]] /\ "CANCELLED" \in ActionStatus
    BY DEF OverlapTypeOK, TypeOK, ActionStatus
  <2>3. \A t \in Stages, v \in Users :
            Settle(acts, o, "CANCELLED")[t][v] =
                IF <<t, v>> \in o /\ acts[t][v] = "PENDING" THEN "CANCELLED" ELSE acts[t][v]
    BY <2>1, <2>2, SettleRows
  <2> QED BY <2>1, <2>3 DEF Verdicts
<1>2. CASE CommitApprove(p) \/ CommitReject(p)
  <2>1. PICK s \in Stages, u \in Users : req[p].row = <<s, u>>
    BY <1>2, RequestsHold DEF CommitApprove, CommitReject, Verbs
  <2>2. HeldRows(p) = {<<s, u>>}
    BY <1>2, <2>1 DEF CommitApprove, CommitReject, HeldRows, Verbs
  <2> PICK o : o = req[p].others
    OBVIOUS
  <2>3. o \in SUBSET (Stages \X Users) /\ acts \in [Stages -> [Users -> ActionStatus]]
    BY <1>2, RequestsHold DEF CommitApprove, CommitReject, OverlapTypeOK, TypeOK
  <2>4. CASE CommitReject(p)
    <3>1. acts' = Settle(Answer(acts, s, u, "REJECTED"), o, "CANCELLED")
      BY <2>1, <2>4 DEF CommitReject
    <3>2. "REJECTED" \in ActionStatus /\ "CANCELLED" \in ActionStatus
      BY DEF ActionStatus
    <3>3. LeavesVerdicts(acts, Settle(Answer(acts, s, u, "REJECTED"), o, "CANCELLED"), s, u)
      BY <2>3, <3>2, AnsweredAndSettled
    <3>4. LeavesVerdicts(acts, acts', s, u)
      BY <3>1, <3>3
    <3> QED BY <2>2, <3>4 DEF LeavesVerdicts
  <2>5. CASE CommitApprove(p)
    <3> PICK a : a = AfterApproval(acts, s, u, o)
      OBVIOUS
    <3>1. "APPROVED" \in ActionStatus /\ "SKIPPED" \in ActionStatus
      BY DEF ActionStatus
    <3>2. /\ LeavesVerdicts(acts, Answer(acts, s, u, "APPROVED"), s, u)
          /\ LeavesVerdicts(acts, Settle(Answer(acts, s, u, "APPROVED"), o, "SKIPPED"), s, u)
      BY <2>3, <3>1, AnsweredAndSettled
    <3>3. acts' = a \/ AdvanceOrComplete(a, req[p].stage)
      BY <2>1, <2>5 DEF CommitApprove
    <3>4. a \in [Stages -> [Users -> ActionStatus]] /\ LeavesVerdicts(acts, a, s, u)
      <4>1. LeavesVerdicts(acts, a, s, u)
        BY <3>2 DEF AfterApproval
      <4>2. a \in [Stages -> [Users -> ActionStatus]]
        BY <2>3, <3>1 DEF AfterApproval, Settle, Answer
      <4> QED BY <4>1, <4>2
    <3>5. \A t \in Stages, v \in Users : a[t][v] \in Verdicts => acts'[t][v] = a[t][v]
      <4>1. CASE acts' = a
        BY <4>1
      <4>2. CASE AdvanceOrComplete(a, req[p].stage) /\ acts' # a
        <5>1. req[p].stage \in Stages
          BY <2>5, RequestsHold DEF CommitApprove, Verbs
        <5>2. req[p].stage < NumStages /\ OpenStage(a, req[p].stage + 1, acts')
          BY <4>2 DEF AdvanceOrComplete
        <5>3. PICK n \in Stages : n = req[p].stage + 1
          BY <5>1, <5>2, ApprovalRunAssumption DEF Stages
        <5>4. \A t \in Stages, v \in Users :
                 \/ acts'[t][v] = a[t][v]
                 \/ t = n /\ a[t][v] = "NONE" /\ acts'[t][v] = "PENDING"
          BY <3>4, <5>2, <5>3, OpenStageRows
        <5> QED BY <5>4 DEF Verdicts
      <4> QED BY <3>3, <4>1, <4>2
    <3>6. \A t \in Stages, v \in Users :
              <<t, v>> # <<s, u>> /\ acts[t][v] \in Verdicts => acts'[t][v] = acts[t][v]
      <4>1. ASSUME NEW t \in Stages, NEW v \in Users, <<t, v>> # <<s, u>>, acts[t][v] \in Verdicts
            PROVE  acts'[t][v] = acts[t][v]
        <5>1. a[t][v] = acts[t][v]
          BY <3>4, <4>1 DEF LeavesVerdicts
        <5>2. a[t][v] \in Verdicts
          BY <4>1, <5>1
        <5> QED BY <3>5, <5>1, <5>2
      <4> QED BY <4>1
    <3> QED BY <2>2, <3>6
  <2> QED BY <1>2, <2>4, <2>5
<1> QED BY <1>1, <1>2

\* The task closes rows that are pending and opens none that was answered
LEMMA EscalationRows ==
    ASSUME OverlapTypeOK, NEW s \in Stages, NEW u \in Users, NEW t \in Users, EscalateNext(s, u, t)
    PROVE  \A k \in Stages, v \in Users : acts[k][v] \in Verdicts => acts'[k][v] = acts[k][v]
<1>1. CASE UNCHANGED acts
  BY <1>1
<1>2. CASE /\ acts[s][u] = "PENDING" /\ acts[s][t] \in {"NONE", "PENDING"}
           /\ acts' = [acts EXCEPT ![s][t] = "PENDING", ![s][u] = "CANCELLED"]
  BY <1>2 DEF OverlapTypeOK, TypeOK, Verdicts
<1> QED BY <1>1, <1>2 DEF EscalateNext

\* However requests and the task overlap, an approver's answer is only ever replaced by
\* a request of that approver on the same row: whoever else writes checks the status
\* again once it holds the row (approve_action, reject_action,
\* process_pending_action_escalations)
THEOREM AnswersHaveOneAuthor == OverlapSpec => AnswersReplacedOnlyByTheirAuthor
<1> DEFINE A == \A s \in Stages, u \in Users :
          acts[s][u] \in {"APPROVED", "REJECTED"} /\ acts'[s][u] # acts[s][u] =>
              \E p \in Requests : req'[p] # req[p] /\ HeldRows(p) = {<<s, u>>}
<1>1. OverlapTypeOK /\ [OverlapNext]_ovars => [A]_ovars
  <2> SUFFICES ASSUME OverlapTypeOK, OverlapNext PROVE A
    OBVIOUS
  <2>1. CASE \E p \in Requests : CommitApprove(p) \/ CommitReject(p) \/ CommitCancel(p)
    <3>1. PICK p \in Requests : CommitApprove(p) \/ CommitReject(p) \/ CommitCancel(p)
      BY <2>1
    <3>2. req'[p] = Done /\ req[p].pc = "tx"
      BY <3>1 DEF CommitApprove, CommitReject, CommitCancel, OverlapTypeOK
    <3>3. req'[p] # req[p]
      BY <3>2 DEF Done
    <3> QED BY <3>1, <3>3, CommitRows DEF Verdicts
  <2>2. CASE \E s \in Stages, u \in Users, t \in Users : EscalateNext(s, u, t)
    BY <2>2, EscalationRows DEF Verdicts
  <2>3. CASE OverlapCreate
    <3>1. 1 \in Stages /\ acts \in [Stages -> [Users -> ActionStatus]] /\ OpenStage(acts, 1, acts')
      BY <2>3, StagesAreNumbers DEF OverlapTypeOK, TypeOK, OverlapCreate, CreateRun
    <3>2. \A t \in Stages, v \in Users :
             acts'[t][v] = acts[t][v] \/ (acts[t][v] = "NONE" /\ acts'[t][v] = "PENDING")
      BY <3>1, OpenStageRows
    <3> QED BY <3>2
  <2>4. CASE UNCHANGED acts
    BY <2>4
  <2> QED BY <2>1, <2>2, <2>3, <2>4
      DEF OverlapNext, OverlapToggle, ToggleGuard, ReadAction, ReadForCancel, ReadRun, BeginDecision,
          BeginCancel, Rollback, ReadOverdue, database
<1> QED BY <1>1, OverlapTypeCorrect, PTL DEF OverlapSpec, AnswersReplacedOnlyByTheirAuthor

----------------------------------------------------------------------------
(* The order in which stages are opened, however requests overlap.         *)

\* Some approver of the stage was asked
Reached(s) == \E u \in Users : acts[s][u] # "NONE"

RowsInOrder == \A s \in Stages : Reached(s) => \A t \in 1..s : Reached(t)

\* A request is about a row that was created, and a stage that was reached, of a run
\* that was raised
Rooted(p) ==
    /\ req[p].pc \in {"action", "run", "tx"} /\ req[p].verb \in Verbs =>
          acts[req[p].row[1]][req[p].row[2]] # "NONE"
    /\ req[p].pc \in {"run", "tx"} /\ req[p].verb \in Verbs => Reached(req[p].stage)
    /\ req[p].pc \in {"run", "tx"} /\ req[p].verb = "cancel" => run.status # "NONE"

OrderInv ==
    /\ OverlapTypeOK
    /\ NothingBeforeCreation
    /\ RowsInOrder
    /\ run.status # "NONE" => Reached(run.stage)
    /\ run.status = "APPROVED" => Reached(NumStages)
    /\ \A p \in Requests : Rooted(p)

\* What a step may do to the order: rows are added to a stage that was reached, to the
\* first, or to the one after a stage that was reached
OrderFollows ==
    /\ \A s \in Stages : Reached(s)' =>
          Reached(s) \/ s = 1 \/ \E k \in Stages : s = k + 1 /\ Reached(k)
    /\ run'.status # "NONE" =>
          Reached(run.stage)' \/ (run.status # "NONE" /\ run'.stage = run.stage)
    /\ run'.status = "APPROVED" => run.status = "APPROVED" \/ Reached(NumStages)
    /\ run'.status = "NONE" =>
          run.status = "NONE" /\ run'.stage = run.stage /\ \A s \in Stages : ~Reached(s)'

\* What was reached stays reached
LEMMA ReachedStays ==
    ASSUME RowsStay
    PROVE  \A s \in Stages : Reached(s) => Reached(s)'
BY DEF RowsStay, Reached

\* Rows that do not change reach nothing, and a run that does not change asks for nothing
LEMMA UnchangedOrder ==
    ASSUME OrderInv, UNCHANGED <<run, acts>>
    PROVE  OrderFollows
<1>1. \A s \in Stages : Reached(s)' <=> Reached(s)
  BY DEF Reached
<1>2. run.status = "NONE" => \A s \in Stages : ~Reached(s)
  BY DEF OrderInv, NothingBeforeCreation, Reached
<1> QED BY <1>1, <1>2 DEF OrderFollows

\* Creating the run opens its first stage.
LEMMA CreateOrder ==
    ASSUME OrderInv, OverlapCreate
    PROVE  OrderFollows
<1>1. /\ run.status = "NONE" /\ run' = [run EXCEPT !.status = "PENDING"]
      /\ OpenStage(acts, 1, acts') /\ run.stage = 1 /\ 1 \in Stages
      /\ acts \in [Stages -> [Users -> ActionStatus]] /\ run \in [status : RunStatus, stage : Stages]
  BY StagesAreNumbers
     DEF OverlapCreate, CreateRun, OrderInv, NothingBeforeCreation, OverlapTypeOK, TypeOK
<1>2. run'.status = "PENDING" /\ run'.stage = 1
  BY <1>1
<1>3. /\ \E u \in Users : acts'[1][u] = "PENDING"
      /\ \A t \in Stages, v \in Users : acts'[t][v] = acts[t][v] \/ t = 1
  <2>1. /\ \E u \in Users : acts'[1][u] = "PENDING"
        /\ \A t \in Stages, v \in Users :
              acts'[t][v] = acts[t][v] \/ (t = 1 /\ acts[t][v] = "NONE" /\ acts'[t][v] = "PENDING")
    BY <1>1, OpenStageRows
  <2> QED BY <2>1
<1>4. Reached(1)'
  BY <1>3 DEF Reached
<1>5. \A s \in Stages : Reached(s)' => Reached(s) \/ s = 1
  BY <1>3 DEF Reached
<1>6. Reached(run.stage)'
  BY <1>2, <1>4 DEF Reached
<1> QED BY <1>2, <1>5, <1>6 DEF OrderFollows

\* Whoever escalates writes in the stage of the row that is escalated
LEMMA EscalateOrder ==
    ASSUME OrderInv, NEW s \in Stages, NEW u \in Users, NEW t \in Users, EscalateNext(s, u, t)
    PROVE  OrderFollows
<1>1. CASE UNCHANGED <<run, acts>>
  BY <1>1, UnchangedOrder
<1>2. CASE /\ acts[s][u] = "PENDING" /\ UNCHANGED run
           /\ acts' = [acts EXCEPT ![s][t] = "PENDING", ![s][u] = "CANCELLED"]
  <2>1. acts \in [Stages -> [Users -> ActionStatus]]
    BY DEF OrderInv, OverlapTypeOK, TypeOK
  <2>2. Reached(s) /\ \A k \in Stages \ {s} : acts'[k] = acts[k]
    BY <1>2, <2>1 DEF Reached
  <2>3. \A k \in Stages : Reached(k)' => Reached(k)
    BY <2>2 DEF Reached
  <2>4. run.status # "NONE"
    BY <1>2 DEF OrderInv, NothingBeforeCreation
  <2> QED BY <1>2, <2>3, <2>4 DEF OrderFollows
<1> QED BY <1>1, <1>2 DEF EscalateNext

\* Answering and settling only write rows that are there
LEMMA SettleReaches ==
    ASSUME NEW c \in [Stages -> [Users -> ActionStatus]], NEW s \in Stages, NEW u \in Users,
           c[s][u] # "NONE", NEW o, NEW status \in ActionStatus, NEW to \in ActionStatus,
           NEW t \in Stages, NEW v \in Users
    PROVE  /\ Answer(c, s, u, status)[t][v] # "NONE" => c[t][v] # "NONE"
           /\ Settle(c, o, to)[t][v] # "NONE" => c[t][v] # "NONE"
           /\ Settle(Answer(c, s, u, status), o, to)[t][v] # "NONE" => c[t][v] # "NONE"
<1> PICK b : b = Answer(c, s, u, status)
  OBVIOUS
<1>1. b[t][v] # "NONE" => c[t][v] # "NONE"
  BY DEF Answer
<1>2. Settle(b, o, to)[t][v] # "NONE" => b[t][v] # "NONE"
  BY DEF Settle
<1>3. Settle(c, o, to)[t][v] # "NONE" => c[t][v] # "NONE"
  BY DEF Settle
<1> QED BY <1>1, <1>2, <1>3

\* A commit writes rows that are there, and opens at most the stage after its copy's.
LEMMA CommitOrder ==
    ASSUME OrderInv, NEW p \in Requests, CommitApprove(p) \/ CommitReject(p) \/ CommitCancel(p)
    PROVE  OrderFollows
<1>1. acts \in [Stages -> [Users -> ActionStatus]] /\ run \in [status : RunStatus, stage : Stages]
  BY DEF OrderInv, OverlapTypeOK, TypeOK
<1>2. run.status # "NONE"
  <2>1. CASE CommitCancel(p)
    BY <2>1 DEF CommitCancel, OrderInv, Rooted
  <2>2. CASE CommitApprove(p) \/ CommitReject(p)
    <3>1. req[p].row \in Stages \X Users /\ acts[req[p].row[1]][req[p].row[2]] # "NONE"
      BY <2>2, RequestsHold DEF CommitApprove, CommitReject, OrderInv, Rooted, Verbs
    <3> QED BY <3>1 DEF OrderInv, NothingBeforeCreation
  <2> QED BY <2>1, <2>2
<1>3. CASE CommitCancel(p)
  <2>1. /\ acts' = Settle(acts, req[p].others, "CANCELLED")
        /\ run'.status = "CANCELLED" /\ run'.stage = run.stage
    BY <1>1, <1>3 DEF CommitCancel
  <2>2. \A t \in Stages, v \in Users : acts'[t][v] # "NONE" => acts[t][v] # "NONE"
    BY <2>1 DEF Settle
  <2>3. \A t \in Stages : Reached(t)' => Reached(t)
    BY <2>2 DEF Reached
  <2> QED BY <1>2, <2>1, <2>3 DEF OrderFollows
<1>4. CASE CommitReject(p) \/ CommitApprove(p)
  <2>1. PICK s \in Stages, u \in Users : req[p].row = <<s, u>> /\ acts[s][u] # "NONE"
    <3>1. PICK s \in Stages, u \in Users : req[p].row = <<s, u>>
      BY <1>4, RequestsHold DEF CommitApprove, CommitReject, OrderInv, Verbs
    <3>2. acts[req[p].row[1]][req[p].row[2]] # "NONE"
      BY <1>4 DEF CommitApprove, CommitReject, OrderInv, Rooted, Verbs
    <3> QED BY <3>1, <3>2
  <2>2. PICK k \in Stages : k = req[p].stage /\ Reached(k)
    BY <1>4, RequestsHold DEF CommitApprove, CommitReject, OrderInv, Rooted, Verbs
  <2> PICK o : o = req[p].others
    OBVIOUS
  <2>3. CASE CommitReject(p)
    <3>1. /\ acts' = Settle(Answer(acts, s, u, "REJECTED"), o, "CANCELLED")
          /\ run'.status = "REJECTED" /\ run'.stage = run.stage
      BY <1>1, <2>1, <2>3 DEF CommitReject
    <3>2. "REJECTED" \in ActionStatus /\ "CANCELLED" \in ActionStatus
      BY DEF ActionStatus
    <3>3. \A t \in Stages, v \in Users :
              Settle(Answer(acts, s, u, "REJECTED"), o, "CANCELLED")[t][v] # "NONE"
                  => acts[t][v] # "NONE"
      BY <1>1, <2>1, <3>2, SettleReaches
    <3>4. \A t \in Stages : Reached(t)' => Reached(t)
      BY <3>1, <3>3 DEF Reached
    <3> QED BY <1>2, <3>1, <3>4 DEF OrderFollows
  <2>4. CASE CommitApprove(p)
    <3> PICK a : a = AfterApproval(acts, s, u, o)
      OBVIOUS
    <3>1. "APPROVED" \in ActionStatus /\ "SKIPPED" \in ActionStatus
      BY DEF ActionStatus
    <3>2. \A t \in Stages, v \in Users : a[t][v] # "NONE" => acts[t][v] # "NONE"
      <4>1. CASE a = Answer(acts, s, u, "APPROVED")
        BY <1>1, <2>1, <3>1, <4>1 DEF Answer
      <4>2. CASE a = Settle(Answer(acts, s, u, "APPROVED"), o, "SKIPPED")
        BY <1>1, <2>1, <3>1, <4>2, SettleReaches
      <4> QED BY <4>1, <4>2 DEF AfterApproval
    <3>3. a \in [Stages -> [Users -> ActionStatus]]
      BY <1>1, <3>1 DEF AfterApproval, Settle, Answer
    <3>4. AdvanceOrComplete(a, k) \/ (acts' = a /\ UNCHANGED run)
      BY <2>1, <2>2, <2>4 DEF CommitApprove
    <3>5. CASE acts' = a /\ UNCHANGED run
      <4>1. \A t \in Stages : Reached(t)' => Reached(t)
        BY <3>2, <3>5 DEF Reached
      <4> QED BY <1>2, <3>5, <4>1 DEF OrderFollows
    <3>6. CASE k = NumStages /\ run' = [run EXCEPT !.status = "APPROVED"] /\ acts' = a
      <4>1. \A t \in Stages : Reached(t)' => Reached(t)
        BY <3>2, <3>6 DEF Reached
      <4>2. run'.status = "APPROVED" /\ run'.stage = run.stage /\ Reached(NumStages)
        BY <1>1, <2>2, <3>6
      <4> QED BY <1>2, <4>1, <4>2 DEF OrderFollows
    <3>7. CASE k < NumStages /\ run' = [run EXCEPT !.stage = k + 1] /\ OpenStage(a, k + 1, acts')
      <4>1. PICK n \in Stages : n = k + 1
        BY <3>7, ApprovalRunAssumption DEF Stages
      <4>2. OpenStage(a, n, acts')
        BY <3>7, <4>1
      <4>3. /\ \E v \in Users : acts'[n][v] = "PENDING"
            /\ \A t \in Stages, v \in Users :
                  acts'[t][v] = a[t][v] \/ (t = n /\ a[t][v] = "NONE" /\ acts'[t][v] = "PENDING")
        BY <3>3, <4>2, OpenStageRows
      <4>4. Reached(n)'
        BY <4>3 DEF Reached
      <4>5. \A t \in Stages : Reached(t)' => Reached(t) \/ t = n
        BY <3>2, <4>3 DEF Reached
      <4>6. run'.status = run.status /\ run'.stage = n
        BY <1>1, <3>7, <4>1
      <4>7. Reached(run.stage)'
        BY <4>4, <4>6 DEF Reached
      <4>8. \A t \in Stages : Reached(t)' => Reached(t) \/ (t = k + 1 /\ Reached(k))
        BY <2>2, <4>1, <4>5
      <4> QED BY <1>2, <4>6, <4>7, <4>8 DEF OrderFollows
    <3> QED BY <3>4, <3>5, <3>6, <3>7 DEF AdvanceOrComplete
  <2> QED BY <1>4, <2>3, <2>4
<1> QED BY <1>3, <1>4

\* No step, whoever takes it, jumps over a stage.
LEMMA EveryStepInOrder == OrderInv /\ [OverlapNext]_ovars => OrderFollows
<1> SUFFICES ASSUME OrderInv, [OverlapNext]_ovars PROVE OrderFollows
  OBVIOUS
<1>1. CASE UNCHANGED <<run, acts>>
  BY <1>1, UnchangedOrder
<1>2. CASE OverlapCreate
  BY <1>2, CreateOrder
<1>3. CASE \E p \in Requests : CommitApprove(p) \/ CommitReject(p) \/ CommitCancel(p)
  BY <1>3, CommitOrder
<1>4. CASE \E s \in Stages, u \in Users, t \in Users : EscalateNext(s, u, t)
  BY <1>4, EscalateOrder
<1> QED BY <1>1, <1>2, <1>3, <1>4
    DEF OverlapNext, OverlapToggle, ToggleGuard, ReadAction, ReadForCancel, ReadRun, BeginDecision,
        BeginCancel, Rollback, ReadOverdue, database, ovars

\* What a request is about stays as it read it: a row that is pending, a run that is there
RequestsFollow(p) ==
    /\ req'[p].pc \in {"action", "run", "tx"} /\ req'[p].verb \in Verbs =>
          \/ acts[req'[p].row[1]][req'[p].row[2]] = "PENDING"
          \/ /\ req[p].pc \in {"action", "run", "tx"} /\ req[p].verb \in Verbs
             /\ req'[p].row = req[p].row
    /\ req'[p].pc \in {"run", "tx"} /\ req'[p].verb = "cancel" =>
          \/ run.status = "PENDING"
          \/ req[p].pc \in {"run", "tx"} /\ req[p].verb = "cancel"
    /\ req'[p].pc \in {"run", "tx"} /\ req'[p].verb \in Verbs =>
          req[p].pc \in {"action", "run", "tx"} /\ req[p].verb \in Verbs

\* No step changes what a request is about.
LEMMA RowsFollow ==
    ASSUME OverlapTypeOK, [OverlapNext]_ovars, NEW p \in Requests
    PROVE  RequestsFollow(p)
<1>1. CASE req'[p] = req[p] \/ req'[p] = Done
  BY <1>1 DEF RequestsFollow, Done
<1>2. ASSUME NEW q \in Requests, NEW r, req' = [req EXCEPT ![q] = r], q # p
      PROVE  RequestsFollow(p)
  BY <1>1, <1>2 DEF OverlapTypeOK
<1>3. ASSUME NEW verb \in Verbs, NEW s \in Stages, NEW u \in Users, ReadAction(p, verb, s, u)
      PROVE  RequestsFollow(p)
  <2>1. req'[p] = [pc |-> "action", verb |-> verb, row |-> <<s, u>>] /\ acts[s][u] = "PENDING"
    BY <1>3 DEF ReadAction, OverlapTypeOK
  <2> QED BY <2>1 DEF RequestsFollow
<1>4. ASSUME NEW status \in CancelAs, ReadForCancel(p, status)
      PROVE  RequestsFollow(p)
  <2>1. req'[p] = [pc |-> "run", verb |-> "cancel", status |-> status] /\ run.status = "PENDING"
    BY <1>4 DEF ReadForCancel, OverlapTypeOK
  <2> QED BY <2>1 DEF RequestsFollow, Verbs
<1>5. CASE ReadRun(p)
  <2>1. \/ req'[p] = Done
        \/ req'[p] = [pc |-> "run", verb |-> req[p].verb, row |-> req[p].row, stage |-> run.stage]
    BY <1>5 DEF ReadRun, OverlapTypeOK
  <2>2. req[p].pc = "action" /\ req[p].verb \in Verbs
    BY <1>5, RequestsHold DEF ReadRun
  <2> QED BY <1>1, <2>1, <2>2 DEF RequestsFollow, Verbs
<1>6. CASE BeginDecision(p)
  <2>1. PICK o : req'[p] = [pc |-> "tx", verb |-> req[p].verb, row |-> req[p].row,
                            stage |-> req[p].stage, others |-> o]
    BY <1>6 DEF BeginDecision, OverlapTypeOK
  <2>2. req[p].pc = "run" /\ req[p].verb \in Verbs
    BY <1>6 DEF BeginDecision
  <2> QED BY <2>1, <2>2 DEF RequestsFollow, Verbs
<1>7. CASE BeginCancel(p)
  <2>1. req'[p] = [pc |-> "tx", verb |-> "cancel", status |-> req[p].status, others |-> PendingRows]
    BY <1>7 DEF BeginCancel, OverlapTypeOK
  <2>2. req[p].pc = "run" /\ req[p].verb = "cancel"
    BY <1>7 DEF BeginCancel
  <2> QED BY <2>1, <2>2 DEF RequestsFollow, Verbs
<1>8. CASE CommitApprove(p) \/ CommitReject(p) \/ CommitCancel(p) \/ Rollback(p)
  BY <1>1, <1>8 DEF CommitApprove, CommitReject, CommitCancel, Rollback, OverlapTypeOK
<1>9. CASE UNCHANGED req
  BY <1>1, <1>9
<1>10. ASSUME NEW q \in Requests,
              \/ \E verb \in Verbs, s \in Stages, u \in Users : ReadAction(q, verb, s, u)
              \/ \E status \in CancelAs : ReadForCancel(q, status)
              \/ ReadRun(q) \/ BeginDecision(q) \/ BeginCancel(q)
              \/ CommitApprove(q) \/ CommitReject(q) \/ CommitCancel(q) \/ Rollback(q)
       PROVE  RequestsFollow(p)
  <2>1. CASE q = p
    BY <1>3, <1>4, <1>5, <1>6, <1>7, <1>8, <1>10, <2>1
  <2>2. CASE q # p
    <3>1. PICK r : req' = [req EXCEPT ![q] = r]
      BY <1>10 DEF ReadAction, ReadForCancel, ReadRun, BeginDecision, BeginCancel, CommitApprove,
                   CommitReject, CommitCancel, Rollback
    <3> QED BY <1>2, <2>2, <3>1
  <2> QED BY <2>1, <2>2
<1> QED BY <1>9, <1>10
    DEF OverlapNext, OverlapCreate, OverlapToggle, ReadOverdue, EscalateNext, ovars

\* A request that is at work reads a row that is pending, a run at a stage that was
\* reached, and keeps what it read
LEMMA RootedStep ==
    ASSUME OrderInv, [OverlapNext]_ovars, NEW p \in Requests
    PROVE  Rooted(p)'
<1>1. RowsStay /\ CopiesFollow /\ OverlapTypeOK'
  BY EveryStepFollows DEF OrderInv, StepFollows
<1>2. \A s \in Stages : Reached(s) => Reached(s)'
  BY <1>1, ReachedStays
<1>3. run.status # "NONE" => run'.status # "NONE"
  BY EveryStepInOrder DEF OrderFollows
<1>4. Rooted(p) /\ RequestsFollow(p)
  BY RowsFollow DEF OrderInv
<1>5. /\ req'[p].pc \in {"action", "run", "tx"} /\ req'[p].verb \in Verbs =>
            req'[p].row \in Stages \X Users
      /\ req'[p].pc \in {"run", "tx"} /\ req'[p].verb \in Verbs => req'[p].stage \in Stages
  <2>1. req'[p] \in {Idle, Done} \cup ActionRead \cup RunRead \cup InTx
    BY <1>1 DEF OverlapTypeOK
  <2> QED BY <2>1 DEF Idle, Done, ActionRead, RunRead, InTx, Verbs
<1>6. req'[p].pc \in {"action", "run", "tx"} /\ req'[p].verb \in Verbs =>
          acts'[req'[p].row[1]][req'[p].row[2]] # "NONE"
  BY <1>1, <1>4, <1>5 DEF RowsStay, Rooted, RequestsFollow
<1>7. req'[p].pc \in {"run", "tx"} /\ req'[p].verb = "cancel" => run'.status # "NONE"
  BY <1>3, <1>4 DEF Rooted, RequestsFollow
<1>8. req'[p].pc \in {"run", "tx"} /\ req'[p].verb \in Verbs => Reached(req[p].stage)'
  <2> SUFFICES ASSUME req'[p].pc \in {"run", "tx"}, req'[p].verb \in Verbs
               PROVE  Reached(req[p].stage)'
    OBVIOUS
  <2>1. PICK k \in Stages : k = req'[p].stage
    BY <1>5
  <2>2. run.status # "NONE"
    <3>1. req[p].row \in Stages \X Users /\ acts[req[p].row[1]][req[p].row[2]] # "NONE"
      BY <1>4, RequestsHold DEF Rooted, RequestsFollow, OrderInv
    <3> QED BY <3>1 DEF OrderInv, NothingBeforeCreation
  <2>3. k = run.stage \/ Reached(k)
    BY <1>1, <1>4, <2>1 DEF CopiesFollow, Rooted
  <2>4. Reached(k)
    BY <2>2, <2>3 DEF OrderInv
  <2>5. Reached(k)'
    BY <1>2, <2>4
  <2> QED BY <2>1, <2>5 DEF Reached
<1> QED BY <1>6, <1>7, <1>8 DEF Rooted

\* The order is inductive.
LEMMA OrderStep == OrderInv /\ [OverlapNext]_ovars => OrderInv'
<1> SUFFICES ASSUME OrderInv, [OverlapNext]_ovars PROVE OrderInv'
  OBVIOUS
<1>1. RowsStay /\ OverlapTypeOK' /\ OrderFollows
  BY EveryStepFollows, EveryStepInOrder DEF OrderInv, StepFollows
<1>2. \A s \in Stages : Reached(s) => Reached(s)'
  BY <1>1, ReachedStays
<1>3. NothingBeforeCreation'
  BY <1>1 DEF OrderFollows, OrderInv, NothingBeforeCreation, Reached
<1>4. RowsInOrder'
  <2> SUFFICES ASSUME NEW s \in Stages, Reached(s)', NEW t \in 1..s PROVE Reached(t)'
    BY DEF RowsInOrder
  <2>1. t \in Stages /\ s \in Nat /\ t \in Nat /\ 1 =< t /\ t =< s
    BY StagesAreNumbers DEF Stages
  <2>2. CASE t = s
    BY <2>2
  <2>3. CASE t # s
    <3>1. Reached(s) \/ s = 1 \/ \E k \in Stages : s = k + 1 /\ Reached(k)
      BY <1>1 DEF OrderFollows
    <3>2. CASE Reached(s)
      BY <1>2, <2>1, <3>2 DEF OrderInv, RowsInOrder
    <3>3. CASE s = 1
      BY <2>1, <2>3, <3>3
    <3>4. CASE \E k \in Stages : s = k + 1 /\ Reached(k)
      <4>1. PICK k \in Stages : s = k + 1 /\ Reached(k)
        BY <3>4
      <4>2. t \in 1..k
        BY <2>1, <2>3, <4>1, StagesAreNumbers
      <4>3. Reached(t)
        BY <4>1, <4>2 DEF OrderInv, RowsInOrder
      <4> QED BY <1>2, <2>1, <4>3
    <3> QED BY <3>1, <3>2, <3>3, <3>4
  <2> QED BY <2>2, <2>3
<1>5. run'.status # "NONE" => Reached(run.stage)'
  <2> SUFFICES ASSUME run'.status # "NONE" PROVE Reached(run.stage)'
    OBVIOUS
  <2>1. CASE run.status # "NONE" /\ run'.stage = run.stage
    <3>1. PICK k \in Stages : k = run.stage
      BY DEF OrderInv, OverlapTypeOK, TypeOK
    <3>2. Reached(k)
      BY <2>1, <3>1 DEF OrderInv
    <3>3. Reached(k)'
      BY <1>2, <3>2
    <3> QED BY <2>1, <3>1, <3>3 DEF Reached
  <2> QED BY <1>1, <2>1 DEF OrderFollows
<1>6. run'.status = "APPROVED" => Reached(NumStages)'
  BY <1>1, <1>2, StagesAreNumbers DEF OrderFollows, OrderInv
<1>7. \A p \in Requests : Rooted(p)'
  BY RootedStep
<1> QED BY <1>1, <1>3, <1>4, <1>5, <1>6, <1>7 DEF OrderInv

\* However requests and the task overlap, the stages are opened in order and an approved
\* run opened them all, whether or not two resolutions of a stage have an approver in
\* common: a request whose copy of the run is old repeats a stage at worst
\* (_advance_or_complete_run).
THEOREM StagesOpenInOrder == OverlapSpec => []OpenedInOrder
<1>1. OverlapInit => OrderInv
  <2> SUFFICES ASSUME OverlapInit PROVE OrderInv
    OBVIOUS
  <2>1. OverlapTypeOK
    BY StageInvInit DEF StageInv
  <2>2. \A s \in Stages : ~Reached(s)
    BY DEF OverlapInit, Init, Reached
  <2>3. run.status = "NONE" /\ NothingBeforeCreation
    BY DEF OverlapInit, Init, NothingBeforeCreation
  <2>4. \A p \in Requests : Rooted(p)
    BY DEF OverlapInit, Idle, Rooted
  <2> QED BY <2>1, <2>2, <2>3, <2>4 DEF OrderInv, RowsInOrder
<1>2. OrderInv /\ [OverlapNext]_ovars => OrderInv'
  BY OrderStep
<1>3. OrderInv => OpenedInOrder
  BY DEF OrderInv, RowsInOrder, Reached, OpenedInOrder
<1> QED BY <1>1, <1>2, <1>3, PTL DEF OverlapSpec
============================================================================
