--------------------------- MODULE MCApprovalRun ---------------------------
(***************************************************************************)
(* Small instances of ApprovalRun for TLC.                                 *)
(***************************************************************************)
EXTENDS ApprovalRun

CONSTANTS u1, u2, u3

MCUsers == {u1, u2, u3}

\* An ALL stage with two possible resolutions, then an ANY stage; both escalate
MCMode == <<"ALL", "ANY">>
MCResolvable == <<{{u1, u2}, {u2}}, {{u1, u3}, {u1, u2, u3}}>>
MCTargets == <<{u2, u3}, {u3}>>
MCCancelAs == {"CANCELLED", "WITHDRAWN", "KEEP"}
============================================================================
