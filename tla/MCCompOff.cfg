SPECIFICATION Spec
CONSTANTS
    l1 = l1
    l2 = l2
    l3 = l3
    Accruals <- Accruals3
    Units <- Units3
    Expires <- Expires3
    Leaves <- Leaves3
    Asked <- Asked3
    LastDay = 2
    Serial = TRUE
CHECK_DEADLOCK FALSE
INVARIANTS
    NeverOverTaken
    ApprovedIsCovered
    RefusedGivesBack
    ShortOnlyByMidnight
