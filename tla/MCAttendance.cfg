SPECIFICATION Spec
CONSTANTS
    Workers = {w1}
    Viewers = {v1}
    NDays = 2
    DayLength = 3
    Overnight = {1}
    Opens = 1
    Closes = 5
    HalfDay = 1
    FullDay = 2
    Off <- TwoDays
    Requests <- SomeRequests
    Scans <- SomeScans
    Taps <- SomeTaps
    Slack = 1
    Regs = {q1}
    Edits <- SomeEdits
    MaxEvents = 2
    StaffAlone = TRUE
CHECK_DEADLOCK FALSE
INVARIANTS
    DayShowsItsScans
    RegularizationHolds
    StatusTellsPay
 
