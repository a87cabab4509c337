SPECIFICATION Spec
CONSTANTS
    emp = emp
    mgr = mgr
    adm = adm
    Nobody = Nobody
    People <- People3
    Admin = adm
    Rows = {r1, r2, r3}
    Calls = {c1, c2}
    Stages <- SomeStages
    Serial = TRUE
SYMMETRY Alike
INVARIANTS
    NoLoops
    OwnRequestOnlyByFallback
PROPERTY HandedOnOnce
