SPECIFICATION Spec
CONSTANTS
    l1 = l1
    l2 = l2
    e1 = e1
    e2 = e2
    Leaves <- TwoLeaves
    Total <- SumOfDays
    Encashments <- OneEncashment
    Debited <- OneDayEach
    Rate = 2
    PeriodsPerYear = 2
    LastPeriod = 3
    Carried = 1
    MaxBalance = 4
    CarryMode = "NONE"
    CarryCap = 0
    MaxSweeps = 1
    Serial = TRUE
CHECK_DEADLOCK FALSE
INVARIANT EncashedDaysAreSpent
