------------------------------ MODULE OrgAdmins ------------------------------
(***************************************************************************)
(* One organisation of backend/apps/organisations, the memberships of its  *)
(* administrators and the invitations of backend/apps/invitations by which *)
(* they get in.  The organisation is PAID when money is said to have come, *)
(* and opens (ACTIVE) when an administrator accepts an invitation.  Each   *)
(* operation is served alone; an invitation, though, is answered long      *)
(* after it was sent, when the rest may have changed.                      *)
(***************************************************************************)
EXTENDS Naturals, FiniteSets

CONSTANTS
    People,   \* workforce users that may administer the organisation
    Boot,     \* the person the bootstrap admin row names
    Nobody,   \* primary_admin_user when it is NULL
    Invites   \* rows the invitations table may get: a bound on invitations

ASSUME AdminsAssumption ==
    /\ Boot \in People
    /\ Nobody \notin People

VARIABLES
    org,      \* status of the organisation
    boot,     \* status of its OrganisationBootstrapAdmin
    account,  \* account[p]: is_active of p's user
    member,   \* member[p]: status of p's membership with is_org_admin
    primary,  \* primary_admin_user
    invite    \* invite[i]: the invitation row, and whether its 48 hours are over

vars == <<org, boot, account, member, primary, invite>>

OrgStatus == {"PENDING", "PAID", "ACTIVE", "SUSPENDED"}
BootStatus == {"DRAFT", "INVITE_PENDING", "INVITE_ACCEPTED"}
MemberStatus == {"NONE", "INVITED", "ACTIVE", "INACTIVE", "REVOKED"}
InviteStatus == {"NONE", "PENDING", "ACCEPTED", "REVOKED"}

TypeOK ==
    /\ org \in OrgStatus
    /\ boot \in BootStatus
    /\ account \in [People -> BOOLEAN]
    /\ member \in [People -> MemberStatus]
    /\ primary \in People \cup {Nobody}
    /\ invite \in [Invites -> [to : People, status : InviteStatus, expired : BOOLEAN]]

Init ==
    /\ org = "PENDING" /\ boot = "DRAFT"
    /\ account \in [People -> BOOLEAN]
    /\ member = [p \in People |-> "NONE"]
    /\ primary = Nobody
    /\ invite = [i \in Invites |-> [to |-> Boot, status |-> "NONE", expired |-> FALSE]]

----------------------------------------------------------------------------
(* Invitations.                                                            *)

PendingFor(p) == {i \in Invites : invite[i].to = p /\ invite[i].status = "PENDING"}

\* Mutant: the pending invitations are left as they are
KeptFor(p) == invite

RevokedFor(p) ==
    [i \in Invites |-> IF i \in PendingFor(p) THEN [invite[i] EXCEPT !.status = "REVOKED"]
                                              ELSE invite[i]]

\* create_org_admin_invitation: a person whose account is active is an
\* administrator at once, whatever the invitation becomes
Invite(p) ==
    \E i \in Invites :
        /\ invite[i].status = "NONE"
        /\ invite' = [RevokedFor(p) EXCEPT ![i] =
                          [to |-> p, status |-> "PENDING", expired |-> FALSE]]
        /\ member' = [member EXCEPT ![p] = IF account[p] THEN "ACTIVE" ELSE "INVITED"]
        /\ primary' = p
        /\ boot' = IF p = Boot THEN "INVITE_PENDING" ELSE boot
        /\ UNCHANGED account

\* InviteOrgAdminView; ResendOrgAdminInviteView asks for a membership alone
InviteAdmin(p) ==
    /\ org \in {"PAID", "ACTIVE"} \/ member[p] # "NONE"
    /\ Invite(p)
    /\ UNCHANGED org

\* Mutant: the bootstrap admin is made active without a look at the organisation
AcceptWithoutOpening(i) ==
    LET p == invite[i].to IN
    /\ invite[i].status = "PENDING" /\ ~invite[i].expired
    /\ invite' = [invite EXCEPT ![i].status = "ACCEPTED"]
    /\ account' = [account EXCEPT ![p] = TRUE]
    /\ member' = [member EXCEPT ![p] = "ACTIVE"]
    /\ boot' = IF p = Boot THEN "INVITE_ACCEPTED" ELSE boot
    /\ primary' = p
    /\ org' = IF org = "PAID" /\ p # Boot THEN "ACTIVE" ELSE org

\* accept_invitation, of an invitation validate_invite_token lets through
Accept(i) ==
    LET p == invite[i].to IN
    /\ invite[i].status = "PENDING" /\ ~invite[i].expired
    /\ account' = [account EXCEPT ![p] = TRUE]
    /\ invite' = [invite EXCEPT ![i].status = "ACCEPTED"]
    /\ member' = [member EXCEPT ![p] = "ACTIVE"]
    /\ boot' = IF p = Boot THEN "INVITE_ACCEPTED" ELSE boot
    /\ org' = IF org = "PAID" THEN "ACTIVE" ELSE org
    /\ primary' = p

\* The same function answers the invitations p gets as an employee or from
\* another organisation: here they only activate the account
ActivateAccount(p) ==
    /\ ~account[p]
    /\ account' = [account EXCEPT ![p] = TRUE]
    /\ UNCHANGED <<org, boot, member, primary, invite>>

Expire(i) ==
    /\ invite[i].status = "PENDING" /\ ~invite[i].expired
    /\ invite' = [invite EXCEPT ![i].expired = TRUE]
    /\ UNCHANGED <<org, boot, account, member, primary>>

----------------------------------------------------------------------------
(* Memberships.                                                            *)

ActiveAdmins == {p \in People : member[p] = "ACTIVE"}

\* Mutant: only the primary administrator is kept
DeactivateAnyButPrimary(p) ==
    /\ member[p] = "ACTIVE"
    /\ primary # p
    /\ member' = [member EXCEPT ![p] = "INACTIVE"]
    /\ UNCHANGED <<org, boot, account, primary, invite>>

\* deactivate_org_admin_membership
Deactivate(p) ==
    /\ member[p] = "ACTIVE"
    /\ primary # p
    /\ ActiveAdmins \ {p} # {}
    /\ member' = [member EXCEPT ![p] = "INACTIVE"]
    /\ UNCHANGED <<org, boot, account, primary, invite>>

Reactivate(p) ==
    /\ member[p] = "INACTIVE"
    /\ account[p]
    /\ member' = [member EXCEPT ![p] = "ACTIVE"]
    /\ UNCHANGED <<org, boot, account, primary, invite>>

\* revoke_org_admin_membership_invitation: only the bootstrap admin stops being primary
Revoke(p) ==
    /\ member[p] = "INVITED"
    /\ invite' = RevokedFor(p)
    /\ member' = [member EXCEPT ![p] = "REVOKED"]
    /\ boot' = IF p = Boot THEN "DRAFT" ELSE boot
    /\ primary' = IF p = Boot /\ primary = p THEN Nobody ELSE primary
    /\ UNCHANGED <<org, account>>

----------------------------------------------------------------------------
(* The organisation: transition_organisation_state and its callers.        *)

\* OrganisationActivateView
MarkOrgPaid ==
    /\ org = "PENDING"
    /\ org' = "PAID"
    /\ UNCHANGED <<boot, account, member, primary, invite>>

\* invite_bootstrap_admin
InviteBootstrapAdmin ==
    IF boot = "INVITE_ACCEPTED" THEN UNCHANGED <<boot, account, member, primary, invite>>
                                ELSE Invite(Boot)

\* What mark_licence_batch_paid does of the organisation, here a step of its
\* environment and an operator for the module that pays
BatchPaid ==
    IF org = "PENDING" THEN org' = "PAID" /\ InviteBootstrapAdmin ELSE UNCHANGED vars

Suspend ==
    /\ org = "ACTIVE"
    /\ org' = "SUSPENDED"
    /\ UNCHANGED <<boot, account, member, primary, invite>>

\* OrganisationRestoreView: every transition to ACTIVE that the table allows
Restore ==
    /\ org \in {"PAID", "SUSPENDED"}
    /\ org' = "ACTIVE"
    /\ UNCHANGED <<boot, account, member, primary, invite>>

Next ==
    \/ \E p \in People : \/ InviteAdmin(p) \/ ActivateAccount(p)
                         \/ Deactivate(p) \/ Reactivate(p) \/ Revoke(p)
    \/ \E i \in Invites : Accept(i) \/ Expire(i)
    \/ MarkOrgPaid \/ BatchPaid \/ Suspend \/ Restore

Spec == Init /\ [][Next]_vars

----------------------------------------------------------------------------
(* Properties.                                                             *)

\* Whoever is INVITED has one invitation that waits for the answer, and only the
\* newest mail's link is live; nobody who was REVOKED can still come in by an old
\* one (create_org_admin_invitation, accept_invitation,
\* revoke_org_admin_membership_invitation).
MembershipFollowsInvitation ==
    \A p \in People :
        /\ member[p] = "INVITED" => PendingFor(p) # {}
        /\ member[p] \in {"NONE", "REVOKED"} => PendingFor(p) = {}
        /\ \A i, j \in PendingFor(p) : i = j

\* An organisation one of whose administrators has accepted is open, or was
\* suspended after it was: it never stays behind, PAID, with nobody left whose
\* answer would open it (accept_invitation, transition_organisation_state).
AcceptedMeansOpened ==
    (\E i \in Invites : invite[i].status = "ACCEPTED") => org \in {"ACTIVE", "SUSPENDED"}

\* The bootstrap row and the membership of the person it names tell one story,
\* though five functions write the one or the other (invite_bootstrap_admin,
\* mark_bootstrap_admin_accepted, ensure_org_admin_membership and its callers).
BootstrapFollowsMembership ==
    /\ boot = "DRAFT" => member[Boot] \in {"NONE", "REVOKED"}
    /\ boot = "INVITE_PENDING" => member[Boot] \in {"INVITED", "ACTIVE", "INACTIVE"}
    /\ boot = "INVITE_ACCEPTED" => member[Boot] \in {"ACTIVE", "INACTIVE"} /\ account[Boot]

\* An organisation that has an active administrator never loses the last one,
\* by whatever sequence of invitations, answers and deactivations
\* (deactivate_org_admin_membership).
AnAdminRemains == [][ActiveAdmins # {} => ActiveAdmins' # {}]_vars
=============================================================================
