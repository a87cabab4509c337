SPECIFICATION FairSpec
CONSTANTS
    u1 = u1
    u2 = u2
    u3 = u3
    Users <- MCUsers
    NumStages = 2
    Mode <- MCMode
    Resolvable <- MCResolvable
    Targets <- MCTargets
    CancelAs <- MCCancelAs
INVARIANTS
    PendingRunIsAskable
    AskedOnlyAboutCurrentStage
    LeftStagesAreDischarged
PROPERTIES
    AnswersAreFinal
    EventuallyDecided
    ImplementsDecision
