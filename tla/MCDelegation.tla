---------------------------- MODULE MCDelegation ----------------------------
EXTENDS Delegation, TLC

\* An employee, a manager and an administrator, and stages that name one or two
\* of them with every kind of fallback
CONSTANTS emp, mgr, adm
People3 == {emp, mgr, adm}

Stage(named, orphan, admin, fallback, own) ==
    [named |-> named, orphan |-> orphan, admin |-> admin, fallback |-> fallback, own |-> own]
SomeStages ==
    { Stage({mgr}, FALSE, FALSE, adm, FALSE),
      Stage({mgr, adm}, FALSE, TRUE, "ADMIN", FALSE),
      Stage({emp}, TRUE, FALSE, mgr, FALSE),
      Stage({mgr}, FALSE, FALSE, "NONE", TRUE) }

\* Rows and calls are interchangeable
Alike == Permutations(Rows) \cup Permutations(Calls)
=============================================================================
