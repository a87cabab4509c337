SPECIFICATION Spec
CONSTANTS
    Runs = {july, august}
    Claims = {taxi}
    Approvals = {first}
    NoApproval = NoApproval
    NoRun = NoRun
    MaxCalcs = 2
    MaxPosts = 1
    Serial = FALSE
    Crashes = TRUE
SYMMETRY Symmetry
CHECK_DEADLOCK FALSE
INVARIANTS IncludedIsOwed
