------------------------------ MODULE MCPayRun ------------------------------
(* Small instances of PayRun.  Runs, claims and approval runs are alike.   *)
EXTENDS PayRun, TLC

Symmetry == Permutations(Runs) \cup Permutations(Claims) \cup Permutations(Approvals)
=============================================================================
