-------------------------- MODULE ApprovalDecision --------------------------
(***************************************************************************)
(* What the approval engine promises the module that raises a request: the *)
(* request is granted stage by stage, it ends in at most one way, and the  *)
(* subject is told that end, once, in the step that reaches it.            *)
(***************************************************************************)
EXTENDS Integers, Sequences

CONSTANTS
    NumStages,     \* stages that must be granted before the request is approved
    CancelAs       \* how a caller may have a withdrawal recorded on the subject

VARIABLES
    outcome,       \* "NONE" before the request is raised, then "PENDING", then its end
    granted,       \* number of stages granted so far
    heard          \* what the subject has been told, oldest first

dvars == <<outcome, granted, heard>>

DInit == outcome = "NONE" /\ granted = 0 /\ heard = <<>>

Raise == outcome = "NONE" /\ outcome' = "PENDING" /\ UNCHANGED <<granted, heard>>

GrantStage ==
    /\ outcome = "PENDING"
    /\ granted + 1 < NumStages
    /\ granted' = granted + 1
    /\ UNCHANGED <<outcome, heard>>

GrantLast ==
    /\ outcome = "PENDING"
    /\ granted + 1 = NumStages
    /\ granted' = NumStages
    /\ outcome' = "APPROVED"
    /\ heard' = <<"APPROVED">>

Refuse ==
    /\ outcome = "PENDING"
    /\ outcome' = "REJECTED"
    /\ heard' = <<"REJECTED">>
    /\ UNCHANGED granted

Withdraw ==
    /\ outcome = "PENDING"
    /\ outcome' = "CANCELLED"
    /\ \/ "KEEP" \in CancelAs /\ heard' = <<>>
       \/ \E status \in CancelAs \ {"KEEP"} : heard' = <<status>>
    /\ UNCHANGED granted

DNext == Raise \/ GrantStage \/ GrantLast \/ Refuse \/ Withdraw

DSpec == DInit /\ [][DNext]_dvars
=============================================================================
