----------------------------- MODULE MCOrgAdmins -----------------------------
EXTENDS OrgAdmins
CONSTANTS boot1, other
People2 == {boot1, other}
=============================================================================
