SPECIFICATION Spec
CONSTANTS
    l1 = l1
    l2 = l2
    e1 = e1
    e2 = e2
    Leaves <- TwoLeaves
    Total <- SumOfDays
    Encashments <- TwoEncashments
    Debited <- OneDayEach
    Rate = 1
    PeriodsPerYear = 2
    LastPeriod = 3
    Carried = 1
    MaxBalance = 2
    CarryMode = "CAPPED"
    CarryCap = 1
    MaxSweeps = 2
    Serial = TRUE
CHECK_DEADLOCK FALSE
INVARIANT WithdrawnStays
PROPERTIES
    CarriedIsWhatIsLeft
    ImplementsEntitlement
