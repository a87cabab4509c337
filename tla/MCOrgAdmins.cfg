SPECIFICATION Spec
CONSTANTS
    boot1 = boot1
    other = other
    People <- People2
    Boot = boot1
    Nobody = Nobody
    Invites = {i1, i2, i3, i4}
CHECK_DEADLOCK FALSE
INVARIANTS
    MembershipFollowsInvitation
    AcceptedMeansOpened
PROPERTY AnAdminRemains
