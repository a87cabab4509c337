SPECIFICATION Spec
CONSTANTS
    Runs = {july, august}
    Claims = {taxi, hotel}
    Approvals = {first, second, third}
    NoApproval = NoApproval
    NoRun = NoRun
    MaxCalcs = 3
    MaxPosts = 1
    Serial = TRUE
    Crashes = FALSE
SYMMETRY Symmetry
CHECK_DEADLOCK FALSE
INVARIANTS  PaidOnce PaidIsOnPayslip PayFollowsApproval ApprovedAsShown AnswerCounts
PROPERTY    ImplementsReimbursement
