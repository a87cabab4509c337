--------------------------- MODULE OrgAdminsProofs ---------------------------
(***************************************************************************)
(* Proofs about OrgAdmins, for every set of people and of invitations.     *)
(***************************************************************************)
EXTENDS OrgAdmins, TLAPS

(***************************************************************************)
(* The inductive invariant.  To the properties it adds what an answer may  *)
(* rely on: nobody has been invited before there is money, and whoever is  *)
(* or was an administrator has an active account.                          *)
(***************************************************************************)

NobodyBeforeMoney == org = "PENDING" => \A p \in People : member[p] = "NONE"

AdminsHaveAccounts == \A p \in People : member[p] \in {"ACTIVE", "INACTIVE"} => account[p]

IInv ==
    /\ TypeOK
    /\ NobodyBeforeMoney
    /\ AdminsHaveAccounts
    /\ MembershipFollowsInvitation
    /\ AcceptedMeansOpened
    /\ BootstrapFollowsMembership

----------------------------------------------------------------------------
LEMMA InitInv == Init => IInv
BY AdminsAssumption
   DEF Init, IInv, TypeOK, OrgStatus, BootStatus, MemberStatus, InviteStatus, NobodyBeforeMoney,
       AdminsHaveAccounts, MembershipFollowsInvitation, PendingFor, AcceptedMeansOpened,
       BootstrapFollowsMembership

\* Revoking what is pending for p leaves no invitation of p pending, and touches no other.
LEMMA RevokedRows ==
    ASSUME TypeOK, NEW p \in People
    PROVE  /\ RevokedFor(p) \in [Invites -> [to : People, status : InviteStatus, expired : BOOLEAN]]
           /\ \A i \in Invites :
                 /\ RevokedFor(p)[i].to = invite[i].to
                 /\ invite[i].to = p => RevokedFor(p)[i].status # "PENDING"
                 /\ \/ RevokedFor(p)[i].status = invite[i].status
                    \/ invite[i].to = p /\ invite[i].status = "PENDING"
                          /\ RevokedFor(p)[i].status = "REVOKED"
BY DEF TypeOK, RevokedFor, PendingFor, InviteStatus

\* An invitation keeps the invariant wherever the organisation is not, or no
\* longer, without money.
LEMMA InviteKeeps ==
    ASSUME IInv, NEW p \in People, Invite(p), org' \in OrgStatus \ {"PENDING"},
           \/ org' = org
           \/ \A i \in Invites : invite[i].status # "ACCEPTED"
    PROVE  IInv'
<1>1. PICK k \in Invites :
         /\ invite[k].status = "NONE"
         /\ invite' = [RevokedFor(p) EXCEPT ![k] = [to |-> p, status |-> "PENDING", expired |-> FALSE]]
  BY DEF Invite
<1>2. /\ member' = [member EXCEPT ![p] = IF account[p] THEN "ACTIVE" ELSE "INVITED"]
      /\ primary' = p /\ boot' = (IF p = Boot THEN "INVITE_PENDING" ELSE boot) /\ account' = account
  BY DEF Invite
<1>3. TypeOK
  BY DEF IInv
<1>4. /\ \A i \in Invites : i # k => invite'[i] = RevokedFor(p)[i]
      /\ invite'[k].to = p /\ invite'[k].status = "PENDING"
  BY <1>1, <1>3, RevokedRows
<1>5. PendingFor(p)' = {k}
  BY <1>3, <1>4, RevokedRows DEF PendingFor
<1>6. \A q \in People : q # p => PendingFor(q)' = PendingFor(q)
  BY <1>1, <1>3, <1>4, RevokedRows DEF PendingFor
<1>7. TypeOK'
  BY <1>1, <1>2, <1>3, RevokedRows DEF TypeOK, BootStatus, MemberStatus, InviteStatus
<1>8. NobodyBeforeMoney'
  BY DEF NobodyBeforeMoney
<1>9. AdminsHaveAccounts'
  BY <1>2, <1>3 DEF IInv, AdminsHaveAccounts, TypeOK
<1>10. MembershipFollowsInvitation'
  <2> SUFFICES ASSUME NEW q \in People
               PROVE  /\ member'[q] = "INVITED" => PendingFor(q)' # {}
                      /\ member'[q] \in {"NONE", "REVOKED"} => PendingFor(q)' = {}
                      /\ \A i, j \in PendingFor(q)' : i = j
    BY DEF MembershipFollowsInvitation
  <2>1. CASE q = p
    BY <2>1, <1>2, <1>3, <1>5 DEF TypeOK
  <2>2. CASE q # p
    BY <2>2, <1>2, <1>3, <1>6 DEF TypeOK, IInv, MembershipFollowsInvitation
  <2> QED
    BY <2>1, <2>2
<1>11. AcceptedMeansOpened'
  <2>1. \A i \in Invites : invite'[i].status = "ACCEPTED" => invite[i].status = "ACCEPTED"
    <3> SUFFICES ASSUME NEW i \in Invites, invite'[i].status = "ACCEPTED"
                 PROVE  invite[i].status = "ACCEPTED"
      OBVIOUS
    <3>1. i # k
      BY <1>4
    <3>2. RevokedFor(p)[i].status = "ACCEPTED"
      BY <1>4, <3>1
    <3> QED
      BY <1>3, <3>2, RevokedRows
  <2> QED
    BY <2>1 DEF IInv, AcceptedMeansOpened
<1>12. BootstrapFollowsMembership'
  BY <1>2, <1>3, AdminsAssumption DEF IInv, BootstrapFollowsMembership, TypeOK, BootStatus
<1> QED
  BY <1>7, <1>8, <1>9, <1>10, <1>11, <1>12 DEF IInv

\* A step that leaves people and invitations alone may only move the organisation
\* forward.
LEMMA OrganisationKeeps ==
    ASSUME IInv, UNCHANGED <<boot, account, member, primary, invite>>,
           org' \in OrgStatus,
           org' = "PENDING" => org = "PENDING",
           org \in {"ACTIVE", "SUSPENDED"} => org' \in {"ACTIVE", "SUSPENDED"}
    PROVE  IInv'
<1>1. \A p \in People : PendingFor(p)' = PendingFor(p)
  BY DEF PendingFor
<1>2. TypeOK'
  BY DEF IInv, TypeOK
<1>3. NobodyBeforeMoney' /\ AdminsHaveAccounts'
  BY DEF IInv, NobodyBeforeMoney, AdminsHaveAccounts
<1>4. MembershipFollowsInvitation'
  BY <1>1 DEF IInv, MembershipFollowsInvitation
<1>5. AcceptedMeansOpened' /\ BootstrapFollowsMembership'
  BY DEF IInv, AcceptedMeansOpened, BootstrapFollowsMembership
<1> QED
  BY <1>2, <1>3, <1>4, <1>5 DEF IInv

LEMMA AcceptKeeps ==
    ASSUME IInv, NEW k \in Invites, Accept(k)
    PROVE  IInv'
<1> DEFINE p == invite[k].to
<1>1. TypeOK /\ p \in People
  BY DEF IInv, TypeOK
<1>2. /\ invite[k].status = "PENDING"
      /\ account' = [account EXCEPT ![p] = TRUE]
      /\ invite' = [invite EXCEPT ![k].status = "ACCEPTED"]
      /\ member' = [member EXCEPT ![p] = "ACTIVE"]
      /\ boot' = (IF p = Boot THEN "INVITE_ACCEPTED" ELSE boot)
      /\ org' = (IF org = "PAID" THEN "ACTIVE" ELSE org)
      /\ primary' = p
  BY DEF Accept
<1> HIDE DEF p
<1>3. org # "PENDING"
  BY <1>1, <1>2 DEF IInv, NobodyBeforeMoney, MembershipFollowsInvitation, PendingFor, p
<1>4. TypeOK'
  BY <1>1, <1>2 DEF TypeOK, OrgStatus, BootStatus, MemberStatus, InviteStatus
<1>5. NobodyBeforeMoney' /\ AdminsHaveAccounts'
  BY <1>1, <1>2, <1>3 DEF IInv, NobodyBeforeMoney, AdminsHaveAccounts, TypeOK
<1>6. \A i \in Invites : invite'[i].to = invite[i].to
                           /\ invite'[i].status = IF i = k THEN "ACCEPTED" ELSE invite[i].status
  BY <1>1, <1>2 DEF TypeOK
<1>7. \A q \in People : PendingFor(q)' = PendingFor(q) \ {k}
  BY <1>6 DEF PendingFor
<1>8. k \in PendingFor(p)
  BY <1>2 DEF PendingFor, p
<1>9. MembershipFollowsInvitation'
  <2> SUFFICES ASSUME NEW q \in People
               PROVE  /\ member'[q] = "INVITED" => PendingFor(q)' # {}
                      /\ member'[q] \in {"NONE", "REVOKED"} => PendingFor(q)' = {}
                      /\ \A i, j \in PendingFor(q)' : i = j
    BY DEF MembershipFollowsInvitation
  <2>1. CASE q = p
    BY <2>1, <1>1, <1>2, <1>7, <1>8 DEF TypeOK, IInv, MembershipFollowsInvitation
  <2>2. CASE q # p
    <3>1. k \notin PendingFor(q)
      BY <2>2 DEF PendingFor, p
    <3> QED
      BY <2>2, <3>1, <1>1, <1>2, <1>7 DEF TypeOK, IInv, MembershipFollowsInvitation
  <2> QED
    BY <2>1, <2>2
<1>10. AcceptedMeansOpened'
  BY <1>1, <1>2, <1>3 DEF AcceptedMeansOpened, TypeOK, OrgStatus
<1>11. BootstrapFollowsMembership'
  BY <1>1, <1>2, AdminsAssumption DEF IInv, BootstrapFollowsMembership, TypeOK, BootStatus
<1> QED
  BY <1>4, <1>5, <1>9, <1>10, <1>11 DEF IInv

LEMMA RevokeKeeps ==
    ASSUME IInv, NEW p \in People, Revoke(p)
    PROVE  IInv'
<1>1. TypeOK
  BY DEF IInv
<1>2. /\ member[p] = "INVITED" /\ invite' = RevokedFor(p)
      /\ member' = [member EXCEPT ![p] = "REVOKED"]
      /\ boot' = (IF p = Boot THEN "DRAFT" ELSE boot)
      /\ primary' \in {primary, Nobody} /\ org' = org /\ account' = account
  BY DEF Revoke
<1>3. TypeOK'
  BY <1>1, <1>2, RevokedRows DEF TypeOK, BootStatus, MemberStatus
<1>4. NobodyBeforeMoney' /\ AdminsHaveAccounts'
  BY <1>1, <1>2 DEF IInv, NobodyBeforeMoney, AdminsHaveAccounts, TypeOK
<1>5. PendingFor(p)' = {}
  BY <1>1, <1>2, RevokedRows DEF PendingFor
<1>6. \A q \in People : q # p => PendingFor(q)' = PendingFor(q)
  BY <1>1, <1>2, RevokedRows DEF PendingFor
<1>7. MembershipFollowsInvitation'
  BY <1>1, <1>2, <1>5, <1>6 DEF TypeOK, IInv, MembershipFollowsInvitation
<1>8. AcceptedMeansOpened'
  BY <1>1, <1>2, RevokedRows DEF IInv, AcceptedMeansOpened
<1>9. BootstrapFollowsMembership'
  BY <1>1, <1>2, AdminsAssumption DEF IInv, BootstrapFollowsMembership, TypeOK
<1> QED
  BY <1>3, <1>4, <1>7, <1>8, <1>9 DEF IInv

\* An account that is activated elsewhere, and a membership that is switched off or on.
LEMMA MembershipKeeps ==
    ASSUME IInv, NEW p \in People, ActivateAccount(p) \/ Deactivate(p) \/ Reactivate(p)
    PROVE  IInv'
<1>1. TypeOK
  BY DEF IInv
<1>2. UNCHANGED <<org, boot, primary, invite>>
  BY DEF ActivateAccount, Deactivate, Reactivate
<1>3. \A q \in People : PendingFor(q)' = PendingFor(q)
  BY <1>2 DEF PendingFor
<1>4. CASE ActivateAccount(p)
  <2>1. member' = member /\ account' = [account EXCEPT ![p] = TRUE]
    BY <1>4 DEF ActivateAccount
  <2> QED
    BY <1>1, <1>2, <1>3, <2>1, AdminsAssumption
       DEF IInv, TypeOK, NobodyBeforeMoney, AdminsHaveAccounts, MembershipFollowsInvitation,
           AcceptedMeansOpened, BootstrapFollowsMembership
<1>5. CASE Deactivate(p) \/ Reactivate(p)
  <2>1. /\ member[p] \in {"ACTIVE", "INACTIVE"}
        /\ \E new \in {"ACTIVE", "INACTIVE"} : member' = [member EXCEPT ![p] = new]
        /\ account' = account
    BY <1>5 DEF Deactivate, Reactivate
  <2>2. TypeOK' /\ NobodyBeforeMoney' /\ AdminsHaveAccounts'
    BY <1>1, <1>2, <2>1 DEF IInv, TypeOK, NobodyBeforeMoney, AdminsHaveAccounts, MemberStatus
  <2>3. MembershipFollowsInvitation'
    BY <1>1, <1>3, <2>1 DEF IInv, TypeOK, MembershipFollowsInvitation
  <2>4. AcceptedMeansOpened' /\ BootstrapFollowsMembership'
    BY <1>1, <1>2, <2>1, AdminsAssumption
       DEF IInv, TypeOK, AcceptedMeansOpened, BootstrapFollowsMembership
  <2> QED
    BY <2>2, <2>3, <2>4 DEF IInv
<1> QED
  BY <1>4, <1>5

LEMMA ExpireKeeps ==
    ASSUME IInv, NEW k \in Invites, Expire(k)
    PROVE  IInv'
<1>1. TypeOK
  BY DEF IInv
<1>2. /\ invite' = [invite EXCEPT ![k].expired = TRUE]
      /\ UNCHANGED <<org, boot, account, member, primary>>
  BY DEF Expire
<1>3. \A i \in Invites : invite'[i].to = invite[i].to /\ invite'[i].status = invite[i].status
  BY <1>1, <1>2 DEF TypeOK
<1>4. \A q \in People : PendingFor(q)' = PendingFor(q)
  BY <1>3 DEF PendingFor
<1>5. TypeOK'
  BY <1>1, <1>2 DEF TypeOK
<1>6. NobodyBeforeMoney' /\ AdminsHaveAccounts' /\ BootstrapFollowsMembership'
  BY <1>2 DEF IInv, NobodyBeforeMoney, AdminsHaveAccounts, BootstrapFollowsMembership
<1>7. MembershipFollowsInvitation' /\ AcceptedMeansOpened'
  BY <1>2, <1>3, <1>4 DEF IInv, MembershipFollowsInvitation, AcceptedMeansOpened
<1> QED
  BY <1>5, <1>6, <1>7 DEF IInv

LEMMA BatchPaidKeeps ==
    ASSUME IInv, BatchPaid
    PROVE  IInv'
<1>1. CASE org = "PENDING"
  <2>1. org' = "PAID" /\ InviteBootstrapAdmin
    BY <1>1 DEF BatchPaid
  <2>2. CASE boot = "INVITE_ACCEPTED"
    <3>1. UNCHANGED <<boot, account, member, primary, invite>>
      BY <2>1, <2>2 DEF InviteBootstrapAdmin
    <3> QED
      BY <1>1, <2>1, <3>1, OrganisationKeeps DEF OrgStatus
  <2>3. CASE boot # "INVITE_ACCEPTED"
    <3>1. Invite(Boot)
      BY <2>1, <2>3 DEF InviteBootstrapAdmin
    <3>2. \A i \in Invites : invite[i].status # "ACCEPTED"
      BY <1>1 DEF IInv, AcceptedMeansOpened
    <3> QED
      BY <2>1, <3>1, <3>2, InviteKeeps, AdminsAssumption DEF OrgStatus
  <2> QED
    BY <2>2, <2>3
<1>2. CASE org # "PENDING"
  BY <1>2, OrganisationKeeps DEF BatchPaid, vars, IInv, TypeOK
<1> QED
  BY <1>1, <1>2

LEMMA NextInv == IInv /\ [Next]_vars => IInv'
<1> SUFFICES ASSUME IInv, [Next]_vars PROVE IInv'
  OBVIOUS
<1>1. ASSUME NEW p \in People, InviteAdmin(p) PROVE IInv'
  <2>1. Invite(p) /\ org' = org
    BY <1>1 DEF InviteAdmin
  <2>2. org \in OrgStatus \ {"PENDING"}
    BY <1>1 DEF InviteAdmin, IInv, TypeOK, NobodyBeforeMoney, OrgStatus
  <2> QED
    BY <2>1, <2>2, InviteKeeps
<1>2. ASSUME NEW p \in People, ActivateAccount(p) \/ Deactivate(p) \/ Reactivate(p) PROVE IInv'
  BY <1>2, MembershipKeeps
<1>3. ASSUME NEW p \in People, Revoke(p) PROVE IInv'
  BY <1>3, RevokeKeeps
<1>4. ASSUME NEW i \in Invites, Accept(i) PROVE IInv'
  BY <1>4, AcceptKeeps
<1>5. ASSUME NEW i \in Invites, Expire(i) PROVE IInv'
  BY <1>5, ExpireKeeps
<1>6. CASE MarkOrgPaid \/ Suspend \/ Restore
  BY <1>6, OrganisationKeeps DEF MarkOrgPaid, Suspend, Restore, OrgStatus
<1>7. CASE BatchPaid
  BY <1>7, BatchPaidKeeps
<1>8. CASE UNCHANGED vars
  BY <1>8, OrganisationKeeps DEF vars, IInv, TypeOK
<1> QED
  BY <1>1, <1>2, <1>3, <1>4, <1>5, <1>6, <1>7, <1>8 DEF Next

\* IInv holds in every reachable state.
THEOREM Invariance == Spec => []IInv
BY InitInv, NextInv, PTL DEF Spec

----------------------------------------------------------------------------
(* The theorems.                                                           *)

\* The variables keep their types.
THEOREM TypeCorrect == Spec => []TypeOK
<1>1. IInv => TypeOK
  BY DEF IInv
<1> QED
  BY <1>1, Invariance, PTL

\* One invitation waits for whoever is invited, and none for whoever was revoked
\* (invitations/services.py, organisations/services.py).
THEOREM OneLinkIsLive == Spec => []MembershipFollowsInvitation
<1>1. IInv => MembershipFollowsInvitation
  BY DEF IInv
<1> QED
  BY <1>1, Invariance, PTL

\* An organisation one of whose administrators accepted has been opened.
THEOREM AcceptanceOpens == Spec => []AcceptedMeansOpened
<1>1. IInv => AcceptedMeansOpened
  BY DEF IInv
<1> QED
  BY <1>1, Invariance, PTL

\* The bootstrap row and the membership of its person agree.
THEOREM BootstrapAgrees == Spec => []BootstrapFollowsMembership
<1>1. IInv => BootstrapFollowsMembership
  BY DEF IInv
<1> QED
  BY <1>1, Invariance, PTL

\* Once there is an active administrator there is always one: only a deactivation
\* ends the membership of an active one, and an account that is active stays so.
THEOREM NeverWithoutAdmin == Spec => AnAdminRemains
<1>1. ASSUME IInv, [Next]_vars, ActiveAdmins # {} PROVE ActiveAdmins' # {}
  <2>1. PICK p \in People : member[p] = "ACTIVE"
    BY <1>1 DEF ActiveAdmins
  <2>2. TypeOK /\ account[p]
    BY <1>1, <2>1 DEF IInv, AdminsHaveAccounts
  <2>3. SUFFICES \E q \in People : member'[q] = "ACTIVE"
    BY DEF ActiveAdmins
  <2>4. ASSUME NEW q \in People, Invite(q) PROVE member'[p] = "ACTIVE"
    BY <2>1, <2>2, <2>4 DEF Invite, TypeOK
  <2>5. ASSUME NEW q \in People, Deactivate(q) PROVE \E r \in People : member'[r] = "ACTIVE"
    <3>1. PICK r \in ActiveAdmins : r # q
      BY <2>5 DEF Deactivate
    <3> QED
      BY <2>2, <2>5, <3>1 DEF Deactivate, ActiveAdmins, TypeOK
  <2>6. ASSUME NEW q \in People, Revoke(q) \/ Reactivate(q) PROVE member'[p] = "ACTIVE"
    BY <2>1, <2>2, <2>6 DEF Revoke, Reactivate, TypeOK
  <2>7. ASSUME NEW i \in Invites, Accept(i) PROVE member'[p] = "ACTIVE"
    BY <2>1, <2>2, <2>7 DEF Accept, TypeOK
  <2>8. CASE UNCHANGED member
    BY <2>1, <2>8
  <2>9. CASE BatchPaid
    BY <2>1, <2>4, <2>9, AdminsAssumption DEF BatchPaid, InviteBootstrapAdmin, vars
  <2> QED
    BY <1>1, <2>4, <2>5, <2>6, <2>7, <2>8, <2>9
       DEF Next, vars, InviteAdmin, ActivateAccount, Expire, MarkOrgPaid, Suspend, Restore
<1>2. IInv /\ [Next]_vars => [ActiveAdmins # {} => ActiveAdmins' # {}]_vars
  BY <1>1
<1> QED
  BY <1>2, Invariance, PTL DEF Spec, AnAdminRemains
=============================================================================
