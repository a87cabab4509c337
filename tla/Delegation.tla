----------------------------- MODULE Delegation -----------------------------
(***************************************************************************)
(* Who is asked when a stage opens: the delegations employees leave when   *)
(* they are away, kept free of loops by upsert_approval_delegation, and    *)
(* _resolve_stage_approvers of backend/apps/approvals/services.py, which   *)
(* turns the approvers a stage names into the users asked.  A delegation   *)
(* is checked against the others and saved afterwards, without a lock.     *)
(* ApprovalRun takes the users asked as given; this is where they come     *)
(* from.                                                                   *)
(***************************************************************************)
EXTENDS FiniteSets

CONSTANTS
    People,     \* employees of the organisation, each with a user
    Admin,      \* its primary_admin_user, who is asked as a user, not as an employee
    Nobody,
    Rows,       \* approval_delegations rows there may be
    Calls,      \* requests that save a delegation
    Stages,     \* stages of workflows, as their requester finds them
    Serial      \* TRUE: requests are served one after the other

ASSUME DelegationAssumption ==
    /\ Admin \in People /\ Nobody \notin People \cup Rows
    /\ Serial \in BOOLEAN
    /\ \A s \in Stages :
        /\ s.named \subseteq People          \* employees its approvers resolve to
        /\ s.orphan \in BOOLEAN              \* a REPORTING_MANAGER the requester lacks
        /\ s.own \in BOOLEAN                 \* a kind of payroll, its requester may decide
        /\ s.admin \in BOOLEAN               \* PRIMARY_ORG_ADMIN is an approver
        /\ s.fallback \in People \cup {"NONE", "ADMIN"}

VARIABLES
    row,        \* row[r]: the delegation, or NoRow
    call,       \* call[c]: the delegation c has checked and is about to save
    asked       \* the stage the last step opened and the actions it created

vars == <<row, call, asked>>

\* serves: its dates take in today and its request_kinds the request at hand
Delegations == [by : People, to : People, active : BOOLEAN, serves : BOOLEAN]
NoRow == [by |-> Nobody]
Idle == [row |-> Nobody]
NoRun == [by |-> Nobody]

Action == [user : People, source : {"DIRECT", "DELEGATED"}, original : People \cup {Nobody}]

TypeOK ==
    /\ row \in [Rows -> Delegations \cup {NoRow}]
    /\ call \in [Calls -> [row : Rows, of : Delegations] \cup {Idle}]
    /\ asked \in [by : People, stage : Stages, actions : SUBSET Action]
                     \cup {NoRun}

Init ==
    /\ row = [r \in Rows |-> NoRow]
    /\ call = [c \in Calls |-> Idle]
    /\ asked = NoRun

----------------------------------------------------------------------------
(* Saving a delegation.                                                    *)

\* Active rows count whatever their dates and kinds
EdgesOf(R) == {<<row[r].by, row[r].to>> : r \in {q \in R : row[q] # NoRow /\ row[q].active}}

\* Mutant: only the delegate's own delegations are looked at
FindsNext(E, start, target) == <<start, target>> \in E

\* The search of _validate_delegation_loop visits all that start leads to
Finds(E, start, target) ==
    \A S \in SUBSET People :
        start \in S /\ (\A e \in E : e[1] \in S => e[2] \in S) => target \in S

\* upsert_approval_delegation up to its write: a row that is there is updated,
\* and its old self left out of the search; is_active is not looked at
Check(c, r, d) ==
    /\ call[c] = Idle
    /\ Serial => \A b \in Calls : call[b] = Idle
    /\ row[r] = NoRow => \A b \in Calls : call[b] # Idle => call[b].row # r
    /\ d.by # d.to
    /\ ~ Finds(EdgesOf(Rows \ {r}) \cup {<<d.by, d.to>>}, d.to, d.by)
    /\ call' = [call EXCEPT ![c] = [row |-> r, of |-> d]]
    /\ asked' = NoRun
    /\ UNCHANGED row

Save(c) ==
    /\ call[c] # Idle
    /\ row' = [row EXCEPT ![call[c].row] = call[c].of]
    /\ call' = [call EXCEPT ![c] = Idle]
    /\ asked' = NoRun

\* A start or an end date passes, or the request is one of another kind
Turn(r) ==
    /\ row[r] # NoRow
    /\ row' = [row EXCEPT ![r] = [by |-> row[r].by, to |-> row[r].to,
                                  active |-> row[r].active, serves |-> ~ row[r].serves]]
    /\ asked' = NoRun
    /\ UNCHANGED call

----------------------------------------------------------------------------
(* Opening a stage.  away[e] is the delegation get_active_approval_delegation *)
(* finds for e: the latest by start date and creation, which is left open.    *)

ServesFor(e) == {r \in Rows : row[r] # NoRow /\ row[r].by = e /\ row[r].active /\ row[r].serves}

Choices ==
    {away \in [People -> Rows \cup {Nobody}] :
        \A e \in People : IF ServesFor(e) = {} THEN away[e] = Nobody
                                               ELSE away[e] \in ServesFor(e)}

AsUser(u) == [user |-> u, source |-> "DIRECT", original |-> Nobody]

\* One delegation is followed, not the delegate's own
Assign(e, away) ==
    IF away[e] = Nobody THEN AsUser(e)
    ELSE [user |-> row[away[e]].to, source |-> "DELEGATED", original |-> e]

\* Mutant: the fallback is asked though away
FallbackAtDesk(s, away) ==
    IF s.fallback = "NONE" THEN {}
    ELSE {AsUser(IF s.fallback = "ADMIN" THEN Admin ELSE s.fallback)}

Fallback(s, away) ==
    CASE s.fallback = "NONE" -> {}
      [] s.fallback = "ADMIN" -> {AsUser(Admin)}
      [] OTHER -> {Assign(s.fallback, away)}

Resolved(s, away) ==
    {Assign(e, away) : e \in s.named}
        \cup (IF s.orphan THEN Fallback(s, away) ELSE {})
        \cup (IF s.admin THEN {AsUser(Admin)} ELSE {})

\* Mutant: the requester is only taken off when somebody else is left
FilteredLate(s, by, away) ==
    LET others == {a \in Resolved(s, away) : a.user # by}
    IN IF others = {} THEN Resolved(s, away) ELSE others

\* The requester does not decide: the fallback takes the place, were it the
\* requester again
Filtered(s, by, away) ==
    {a \in Resolved(s, away) : a.user # by}
        \cup (IF \E a \in Resolved(s, away) : a.user = by THEN Fallback(s, away) ELSE {})

Approvers(s, by, away) ==
    LET found == IF s.own THEN Resolved(s, away) ELSE Filtered(s, by, away)
    IN IF found = {} THEN Fallback(s, away) ELSE found

\* Of the actions for one user the first is kept; with none the run is refused
OpenStage(s, by) ==
    /\ Serial => \A b \in Calls : call[b] = Idle
    /\ \E away \in Choices :
        \E K \in SUBSET Approvers(s, by, away) :
            /\ K # {}
            /\ \A a \in Approvers(s, by, away) : \E k \in K : k.user = a.user
            /\ \A j, k \in K : j.user = k.user => j = k
            /\ asked' = [by |-> by, stage |-> s, actions |-> K]
    /\ UNCHANGED <<row, call>>

Next ==
    \/ \E c \in Calls, r \in Rows, d \in Delegations : Check(c, r, d)
    \/ \E c \in Calls : Save(c)
    \/ \E r \in Rows : Turn(r)
    \/ \E s \in Stages, by \in People : OpenStage(s, by)

Spec == Init /\ [][Next]_vars

----------------------------------------------------------------------------
(* Properties.                                                             *)

LoopFree(E) ==
    ~ \E S \in SUBSET People : S # {} /\ \A x \in S : \E y \in S : <<x, y>> \in E

\* Delegations saved one after the other never close a loop, through however
\* many people, and whichever row was changed (_validate_delegation_loop)
NoLoops == LoopFree(EdgesOf(Rows))

\* A requester is asked to decide the own request only where the fallback is the
\* requester, or has delegated to the requester (_resolve_stage_approvers)
OwnRequestOnlyByFallback ==
    asked # NoRun /\ ~ asked.stage.own =>
        \A a \in asked.actions : a.user = asked.by =>
            \/ asked.stage.fallback = asked.by
            \/ asked.stage.fallback = "ADMIN" /\ Admin = asked.by
            \/ a.source = "DELEGATED" /\ a.original = asked.stage.fallback

\* Whoever is asked is on duty or stands in, by a delegation in force, for someone
\* the stage asks, whose name the action keeps; only an administrator is asked as
\* a user, whatever was delegated (_resolve_assignment_with_delegation)
HandedOnOnce ==
    [][asked' # NoRun =>
        \A a \in asked'.actions :
            LET s == asked'.stage
            IN IF a.source = "DELEGATED"
               THEN /\ a.original \in s.named \cup {s.fallback}
                    /\ \E r \in ServesFor(a.original) : row[r].to = a.user
               ELSE \/ a.user \in s.named \cup {s.fallback} /\ ServesFor(a.user) = {}
                    \/ a.user = Admin /\ (s.admin \/ s.fallback = "ADMIN")]_vars
=============================================================================
