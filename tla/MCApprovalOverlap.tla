------------------------- MODULE MCApprovalOverlap -------------------------
(***************************************************************************)
(* Small instances of ApprovalOverlap for TLC.                             *)
(***************************************************************************)
EXTENDS ApprovalOverlap, TLC

CONSTANTS u1, u2, u3, r1, r2, r3

MCUsers == {u1, u2, u3}
MCRequests == {r1, r2, r3}
MCSymmetry == Permutations(Requests)

\* An ANY stage of two approvers that escalates, then an ALL stage, then a last one
MCMode == <<"ANY", "ALL">>
MCResolvable == <<{{u1, u2}}, {{u1, u2}}>>
MCTargets == <<{u3}, {}>>
MCCancelAs == {"CANCELLED"}

\* Three stages, the first with an SLA policy.  Each time the second is opened it may
\* resolve differently, but never to other approvers alone.
MCMode3 == <<"ANY", "ANY", "ALL">>
MCResolvable3 == <<{{u1, u2}}, {{u2}, {u2, u3}}, {{u1}}>>
MCTargets3 == <<{u3}, {}, {}>>

\* A single ALL stage
MCMode1 == <<"ALL">>
MCResolvable1 == <<{{u1, u2}}>>
MCTargets1 == <<{}>>
============================================================================
