-------------------------- MODULE DelegationProofs --------------------------
(***************************************************************************)
(* For any number of employees and rows, delegations saved one after the   *)
(* other close no loop.  A loop is a set of people of whom each delegates  *)
(* within the set.  The search that a save rests on yields a set closed    *)
(* under the delegations that holds the delegate and not the delegator;    *)
(* what of a loop lies in it, or the whole loop when nothing does, was a   *)
(* loop before.                                                            *)
(***************************************************************************)
EXTENDS Delegation, TLAPS

\* What is about to be saved has been checked against the rows as they are
Checked(c) ==
    LET r == call[c].row
        d == call[c].of
    IN ~ Finds(EdgesOf(Rows \ {r}) \cup {<<d.by, d.to>>}, d.to, d.by)

Alone == \A b, c \in Calls : call[b] # Idle /\ call[c] # Idle => b = c

Shape ==
    /\ row \in [Rows -> Delegations \cup {NoRow}]
    /\ call \in [Calls -> [row : Rows, of : Delegations] \cup {Idle}]

IInv ==
    /\ Shape
    /\ Alone
    /\ \A c \in Calls : call[c] # Idle => Checked(c)
    /\ NoLoops

\* A graph with fewer edges has no more loops
LEMMA FewerEdges ==
    ASSUME NEW E, NEW F, E \subseteq F, LoopFree(F)
    PROVE  LoopFree(E)
  BY DEF LoopFree

\* An edge whose end does not lead back to its start closes no loop
LEMMA NewEdge ==
    ASSUME NEW E, NEW x \in People, NEW y \in People, LoopFree(E),
           ~ Finds(E \cup {<<x, y>>}, y, x)
    PROVE  LoopFree(E \cup {<<x, y>>})
  <1>. DEFINE F == E \cup {<<x, y>>}
  <1>1. PICK T \in SUBSET People : /\ y \in T /\ x \notin T
                                   /\ \A e \in F : e[1] \in T => e[2] \in T
    BY DEF Finds
  <1>. SUFFICES ASSUME NEW S \in SUBSET People, S # {},
                       \A u \in S : \E v \in S : <<u, v>> \in F
                PROVE  FALSE
    BY DEF LoopFree
  <1>2. CASE S \cap T = {}
    <2>1. \A u \in S : \E v \in S : <<u, v>> \in E
      BY <1>1, <1>2
    <2>. QED BY <2>1 DEF LoopFree
  <1>3. CASE S \cap T # {}
    <2>1. ASSUME NEW u \in S \cap T PROVE \E v \in S \cap T : <<u, v>> \in E
      <3>1. PICK v \in S : <<u, v>> \in F
        OBVIOUS
      <3>2. v \in T
        BY <1>1, <3>1
      <3>3. <<u, v>> # <<x, y>>
        BY <1>1
      <3>. QED BY <3>1, <3>2, <3>3
    <2>. QED BY <1>3, <2>1 DEF LoopFree
  <1>. QED BY <1>2, <1>3

LEMMA InitInv == Init => IInv
  <1>. SUFFICES ASSUME Init PROVE IInv
    OBVIOUS
  <1>1. EdgesOf(Rows) = {}
    BY DEF Init, EdgesOf
  <1>. QED BY <1>1 DEF Init, IInv, Shape, Alone, NoLoops, LoopFree

LEMMA CheckStep ==
    ASSUME Serial, IInv, NEW c \in Calls, NEW r \in Rows, NEW d \in Delegations, Check(c, r, d)
    PROVE  IInv'
  <1>. USE DEF IInv
  <1>1. row' = row /\ call' = [call EXCEPT ![c] = [row |-> r, of |-> d]]
    BY DEF Check
  <1>2. Shape'
    BY <1>1 DEF Shape
  <1>3. \A b \in Calls : b # c => call'[b] = Idle
    BY <1>1 DEF Check, Shape
  <1>4. Alone'
    BY <1>3 DEF Alone
  <1>5. Checked(c)'
    BY <1>1 DEF Check, Checked, Shape, EdgesOf, Finds
  <1>6. NoLoops'
    BY <1>1 DEF NoLoops, EdgesOf, LoopFree
  <1>. QED BY <1>2, <1>3, <1>4, <1>5, <1>6

LEMMA SaveStep ==
    ASSUME IInv, NEW c \in Calls, Save(c)
    PROVE  IInv'
  <1>. USE DEF IInv
  <1>. DEFINE r == call[c].row
              d == call[c].of
              E == EdgesOf(Rows \ {r})
  <1>1. r \in Rows /\ d \in Delegations /\ call[c] # Idle
    BY DEF Save, Shape, Idle
  <1>2. row' = [row EXCEPT ![r] = d] /\ call' = [call EXCEPT ![c] = Idle]
    BY DEF Save
  <1>3. Shape'
    BY <1>1, <1>2 DEF Shape
  <1>4. \A b \in Calls : call'[b] = Idle
    BY <1>1, <1>2 DEF Alone, Shape
  <1>5. NoLoops'
    <2>1. LoopFree(E)
      BY FewerEdges, E \subseteq EdgesOf(Rows) DEF NoLoops, EdgesOf
    <2>2. d.by \in People /\ d.to \in People
      BY <1>1 DEF Delegations
    <2>3. LoopFree(E \cup {<<d.by, d.to>>})
      BY <1>1, <2>1, <2>2, NewEdge DEF Checked
    <2>4. EdgesOf(Rows)' \subseteq E \cup {<<d.by, d.to>>}
      BY <1>1, <1>2 DEF EdgesOf, Shape
    <2>. QED BY <2>3, <2>4, FewerEdges DEF NoLoops
  <1>. QED BY <1>3, <1>4, <1>5 DEF Alone

LEMMA TurnStep ==
    ASSUME IInv, NEW r \in Rows, Turn(r)
    PROVE  IInv'
  <1>. USE DEF IInv
  <1>1. call' = call
    BY DEF Turn
  <1>2. Shape'
    BY DEF Shape, Turn, Delegations, NoRow
  <1>3. \A q \in Rows : /\ (row'[q] = NoRow) <=> (row[q] = NoRow)
                        /\ row[q] # NoRow => /\ row'[q].by = row[q].by
                                             /\ row'[q].to = row[q].to
                                             /\ row'[q].active = row[q].active
    BY DEF Shape, Turn, Delegations, NoRow
  <1>4. \A R \in SUBSET Rows : EdgesOf(R)' = EdgesOf(R)
    BY <1>3 DEF EdgesOf
  <1>. QED BY <1>1, <1>2, <1>4 DEF Alone, Checked, NoLoops

LEMMA NextInv == Serial /\ IInv /\ [Next]_vars => IInv'
  <1>. SUFFICES ASSUME Serial, IInv, [Next]_vars PROVE IInv'
    OBVIOUS
  <1>1. ASSUME NEW c \in Calls, NEW r \in Rows, NEW d \in Delegations, Check(c, r, d) PROVE IInv'
    BY <1>1, CheckStep
  <1>2. ASSUME NEW c \in Calls, Save(c) PROVE IInv'
    BY <1>2, SaveStep
  <1>3. ASSUME NEW r \in Rows, Turn(r) PROVE IInv'
    BY <1>3, TurnStep
  <1>4. CASE \/ \E s \in Stages, by \in People : OpenStage(s, by)
             \/ UNCHANGED vars
    <2>1. row' = row /\ call' = call
      BY <1>4 DEF OpenStage, vars
    <2>. QED BY <2>1 DEF IInv, Shape, Alone, Checked, NoLoops, EdgesOf, LoopFree, Finds
  <1>. QED BY <1>1, <1>2, <1>3, <1>4 DEF Next

\* Where delegations are saved one after the other, no chain of them ever comes
\* back to its start, whatever the number of people (_validate_delegation_loop)
THEOREM NeverALoop == ASSUME Serial PROVE Spec => []NoLoops
  <1>1. IInv => NoLoops
    BY DEF IInv
  <1>2. IInv /\ [Next]_vars => IInv'
    BY NextInv
  <1>. QED BY <1>1, <1>2, InitInv, PTL DEF Spec

----------------------------------------------------------------------------
(* Who is asked.                                                           *)

\* The fallback, if there is one, asks its own person or the one it delegated to
LEMMA FallbackAsks ==
    ASSUME NEW s \in Stages, NEW away \in Choices, NEW a \in Fallback(s, away)
    PROVE  \/ s.fallback = "ADMIN" /\ a = AsUser(Admin)
           \/ s.fallback # "NONE" /\ a = Assign(s.fallback, away)
  BY DEF Fallback

\* A requester who is among those asked has come in by the fallback
LEMMA OwnRequestStep ==
    ASSUME NEW s \in Stages, NEW by \in People, OpenStage(s, by)
    PROVE  OwnRequestOnlyByFallback'
  <1>1. PICK away \in Choices : \E K \in SUBSET Approvers(s, by, away) :
                                    asked' = [by |-> by, stage |-> s, actions |-> K]
    BY DEF OpenStage
  <1>2. PICK K \in SUBSET Approvers(s, by, away) :
                asked' = [by |-> by, stage |-> s, actions |-> K]
    BY <1>1
  <1>. SUFFICES ASSUME ~ s.own, NEW a \in K, a.user = by
                PROVE  \/ s.fallback = by
                       \/ s.fallback = "ADMIN" /\ Admin = by
                       \/ a.source = "DELEGATED" /\ a.original = s.fallback
    BY <1>2 DEF OwnRequestOnlyByFallback
  <1>3. a \in Fallback(s, away)
    BY DEF Approvers, Filtered
  <1>. QED BY <1>3, FallbackAsks DEF Assign, AsUser

\* No request is ever put before its own requester, but by the fallback of the
\* stage, for any employees, stages and delegations (_resolve_stage_approvers)
THEOREM NobodyDecidesTheirOwn == Spec => []OwnRequestOnlyByFallback
  <1>1. Init => OwnRequestOnlyByFallback
    BY DEF Init, OwnRequestOnlyByFallback
  <1>2. OwnRequestOnlyByFallback /\ [Next]_vars => OwnRequestOnlyByFallback'
    <2>. SUFFICES ASSUME OwnRequestOnlyByFallback, [Next]_vars PROVE OwnRequestOnlyByFallback'
      OBVIOUS
    <2>1. ASSUME NEW s \in Stages, NEW by \in People, OpenStage(s, by)
          PROVE  OwnRequestOnlyByFallback'
      BY <2>1, OwnRequestStep
    <2>2. CASE \/ \E c \in Calls, r \in Rows, d \in Delegations : Check(c, r, d)
               \/ \E c \in Calls : Save(c)
               \/ \E r \in Rows : Turn(r)
      BY <2>2 DEF Check, Save, Turn, OwnRequestOnlyByFallback
    <2>3. CASE UNCHANGED vars
      BY <2>3 DEF vars, OwnRequestOnlyByFallback
    <2>. QED BY <2>1, <2>2, <2>3 DEF Next
  <1>. QED BY <1>1, <1>2, PTL DEF Spec

\* An employee is asked in person only when nobody stands in
LEMMA AssignHandsOn ==
    ASSUME NEW e \in People, NEW away \in Choices, NEW a, a = Assign(e, away)
    PROVE  \/ /\ a.source = "DELEGATED" /\ a.original = e
              /\ \E r \in ServesFor(e) : row[r].to = a.user
           \/ a.source = "DIRECT" /\ a.user = e /\ ServesFor(e) = {}
  <1>1. CASE ServesFor(e) = {}
    BY <1>1 DEF Assign, AsUser, Choices
  <1>2. CASE ServesFor(e) # {}
    <2>1. away[e] \in ServesFor(e) /\ away[e] # Nobody
      BY <1>2, DelegationAssumption DEF Choices, ServesFor
    <2>. QED BY <2>1 DEF Assign
  <1>. QED BY <1>1, <1>2

\* What HandedOnOnce says of one step
Answerable ==
    asked' # NoRun =>
        \A a \in asked'.actions :
            LET s == asked'.stage
            IN IF a.source = "DELEGATED"
               THEN /\ a.original \in s.named \cup {s.fallback}
                    /\ \E r \in ServesFor(a.original) : row[r].to = a.user
               ELSE \/ a.user \in s.named \cup {s.fallback} /\ ServesFor(a.user) = {}
                    \/ a.user = Admin /\ (s.admin \/ s.fallback = "ADMIN")

LEMMA OpenAnswerable ==
    ASSUME NEW s \in Stages, NEW by \in People, OpenStage(s, by)
    PROVE  Answerable
  <1>1. PICK away \in Choices : \E K \in SUBSET Approvers(s, by, away) :
                                    asked' = [by |-> by, stage |-> s, actions |-> K]
    BY DEF OpenStage
  <1>2. PICK K \in SUBSET Approvers(s, by, away) :
                asked' = [by |-> by, stage |-> s, actions |-> K]
    BY <1>1
  <1>3. s.named \subseteq People /\ s.fallback \in People \cup {"NONE", "ADMIN"}
    BY DelegationAssumption
  <1>. SUFFICES ASSUME NEW a \in K
                PROVE  IF a.source = "DELEGATED"
                       THEN /\ a.original \in s.named \cup {s.fallback}
                            /\ \E r \in ServesFor(a.original) : row[r].to = a.user
                       ELSE \/ a.user \in s.named \cup {s.fallback} /\ ServesFor(a.user) = {}
                            \/ a.user = Admin /\ (s.admin \/ s.fallback = "ADMIN")
    BY <1>2 DEF Answerable
  <1>4. \/ \E e \in s.named : a = Assign(e, away)
        \/ a = AsUser(Admin) /\ s.admin
        \/ a \in Fallback(s, away)
    BY DEF Approvers, Filtered, Resolved
  <1>5. CASE \E e \in s.named : a = Assign(e, away)
    BY <1>3, <1>5, AssignHandsOn
  <1>6. CASE a = AsUser(Admin) /\ s.admin
    BY <1>6 DEF AsUser
  <1>7. CASE a \in Fallback(s, away)
    <2>1. CASE s.fallback = "ADMIN"
      BY <1>7, <2>1 DEF Fallback, AsUser
    <2>2. CASE s.fallback # "ADMIN"
      <3>1. s.fallback \in People /\ a = Assign(s.fallback, away)
        BY <1>3, <1>7, <2>2 DEF Fallback
      <3>. QED BY <3>1, AssignHandsOn
    <2>. QED BY <2>1, <2>2
  <1>. QED BY <1>4, <1>5, <1>6, <1>7

\* Every action is put before somebody on duty, or before the stand-in of one
\* person the stage asks (_resolve_assignment_with_delegation)
THEOREM HandedOnByName == Spec => HandedOnOnce
  <1>1. [Next]_vars => [Answerable]_vars
    <2>1. ASSUME NEW s \in Stages, NEW by \in People, OpenStage(s, by) PROVE Answerable
      BY <2>1, OpenAnswerable
    <2>2. ASSUME \/ \E c \in Calls, r \in Rows, d \in Delegations : Check(c, r, d)
                 \/ \E c \in Calls : Save(c)
                 \/ \E r \in Rows : Turn(r)
          PROVE  Answerable
      BY <2>2 DEF Check, Save, Turn, Answerable
    <2>. QED BY <2>1, <2>2 DEF Next
  <1>. QED BY <1>1, PTL DEF Spec, HandedOnOnce, Answerable
=============================================================================
