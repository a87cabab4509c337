SPECIFICATION OverlapSpec
CONSTANTS
    u1 = u1
    u2 = u2
    u3 = u3
    r1 = r1
    r2 = r2
    r3 = r3
    Users <- MCUsers
    NumStages = 3
    Mode <- MCMode3
    Resolvable <- MCResolvable3
    Targets <- MCTargets3
    CancelAs <- MCCancelAs
    Requests <- MCRequests
    Serial = FALSE
SYMMETRY MCSymmetry
CHECK_DEADLOCK FALSE
INVARIANTS
    RunAndSubjectAgree
    
PROPERTIES
    RunNeverGoesBack
