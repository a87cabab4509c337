SPECIFICATION Spec
CONSTANTS
    l1 = l1
    l2 = l2
    e1 = e1
    e2 = e2
    Leaves <- OneLeave
    Total <- SumOfDays
    Encashments <- OneEncashment
    Debited <- OneDayEach
    Rate = 1
    PeriodsPerYear = 2
    LastPeriod = 3
    Carried = 1
    MaxBalance = 3
    CarryMode = "NONE"
    CarryCap = 0
    MaxSweeps = 2
    Serial = FALSE
CHECK_DEADLOCK FALSE
INVARIANTS
    DebitedOnce
    TakenByVerdict
    
