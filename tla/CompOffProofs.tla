--------------------------- MODULE CompOffProofs ---------------------------
(***************************************************************************)
(* For any finite sets of accruals and requests, any units and any days:   *)
(* the types; a request that was refused or withdrawn holds no units,      *)
(* served one after the other or not; and, for requests served one after   *)
(* the other with calls that stop anywhere, no accrual is redeemed beyond  *)
(* its units, an approved leave has redeemed what it takes, and a request  *)
(* comes short only over midnight.  A sum of units is the number of pairs  *)
(* of a row and one of its units, so that the theorems about cardinality   *)
(* do for it what induction over the rows would.                           *)
(***************************************************************************)
EXTENDS CompOff, FiniteSetTheorems, WellFoundedInduction, TLAPS

----------------------------------------------------------------------------
(* Sums, counted unit by unit.                                             *)

\* What a sum counts
Counted(f, S) == UNION {{x} \X (1..f[x]) : x \in S}

\* The pairs of a thing and one of its units
LEMMA CountedPairs ==
    ASSUME NEW f, NEW S
    PROVE  \A t : t \in Counted(f, S) <=> \E x \in S : \E i \in 1..f[x] : t = <<x, i>>
  <1>1. ASSUME NEW t, t \in Counted(f, S)
        PROVE  \E x \in S : \E i \in 1..f[x] : t = <<x, i>>
    <2>1. PICK x \in S : t \in {x} \X (1..f[x])
      BY <1>1 DEF Counted
    <2>. QED BY <2>1
  <1>2. ASSUME NEW x \in S, NEW i \in 1..f[x]
        PROVE  <<x, i>> \in Counted(f, S)
    BY DEF Counted
  <1>. QED BY <1>1, <1>2

\* are finitely many, for finitely many things
LEMMA CountedFinite ==
    ASSUME NEW S, IsFiniteSet(S), NEW f, \A x \in S : f[x] \in Nat
    PROVE  IsFiniteSet(Counted(f, S))
  <1>. DEFINE Of == {{x} \X (1..f[x]) : x \in S}
              pairs == [x \in S |-> {x} \X (1..f[x])]
  <1>1. IsFiniteSet(Of)
    <2>1. pairs \in Surjection(S, Of)
      BY DEF Surjection
    <2>. QED BY <2>1, FS_Surjection
  <1>2. ASSUME NEW T \in Of
        PROVE  IsFiniteSet(T)
    <2>1. PICK x \in S : T = {x} \X (1..f[x])
      OBVIOUS
    <2>2. f[x] \in Int /\ 1 \in Int
      OBVIOUS
    <2>3. IsFiniteSet(1..f[x])
      BY <2>2, FS_Interval
    <2>4. IsFiniteSet({x})
      BY FS_Singleton
    <2>. QED BY <2>1, <2>3, <2>4, FS_Product
  <1>3. IsFiniteSet(UNION Of)
    <2>. HIDE DEF Of
    <2>. QED BY <1>1, <1>2, FS_UNION
  <1>. QED BY <1>3 DEF Counted

\* A sum of numbers is a number
LEMMA SumIsNat ==
    ASSUME NEW S, IsFiniteSet(S), NEW f, \A x \in S : f[x] \in Nat
    PROVE  SumOver(f, S) \in Nat
  BY CountedFinite, FS_CardinalityType DEF SumOver, Counted

\* of nothing it is zero,
LEMMA SumOfNone == \A f : SumOver(f, {}) = 0
  <1>. TAKE f
  <1>1. Counted(f, {}) = {}
    BY DEF Counted
  <1>. QED BY <1>1, FS_EmptySet DEF SumOver, Counted

\* of one thing what that is worth,
LEMMA SumOfOne ==
    ASSUME NEW x, NEW f, f[x] \in Nat
    PROVE  SumOver(f, {x}) = f[x]
  <1>1. Counted(f, {x}) = {x} \X (1..f[x])
    BY DEF Counted
  <1>2. IsFiniteSet({x}) /\ Cardinality({x}) = 1
    BY FS_Singleton
  <1>3. IsFiniteSet(1..f[x]) /\ Cardinality(1..f[x]) = f[x]
    <2>1. 1 \in Int /\ f[x] \in Int
      OBVIOUS
    <2>2. IsFiniteSet(1..f[x]) /\ Cardinality(1..f[x]) = IF 1 > f[x] THEN 0 ELSE f[x] - 1 + 1
      BY <2>1, FS_Interval
    <2>. QED BY <2>2
  <1>4. Cardinality({x} \X (1..f[x])) = 1 * f[x]
    BY <1>2, <1>3, FS_Product
  <1>. QED BY <1>1, <1>4 DEF SumOver, Counted

\* of two sets with nothing in common the sum of both,
LEMMA SumJoins ==
    ASSUME NEW S, IsFiniteSet(S), NEW T, IsFiniteSet(T), S \cap T = {},
           NEW f, \A x \in S \cup T : f[x] \in Nat
    PROVE  SumOver(f, S \cup T) = SumOver(f, S) + SumOver(f, T)
  <1>1. Counted(f, S \cup T) = Counted(f, S) \cup Counted(f, T)
    BY DEF Counted
  <1>2. Counted(f, S) \cap Counted(f, T) = {}
    BY CountedPairs
  <1>3. IsFiniteSet(Counted(f, S)) /\ IsFiniteSet(Counted(f, T))
    BY CountedFinite
  <1>4. Cardinality(Counted(f, S) \cup Counted(f, T))
            = Cardinality(Counted(f, S)) + Cardinality(Counted(f, T)) - Cardinality({})
    BY <1>2, <1>3, FS_Union
  <1>5. Cardinality({}) = 0 /\ SumOver(f, S) \in Nat /\ SumOver(f, T) \in Nat
    BY SumIsNat, FS_EmptySet
  <1>6. /\ SumOver(f, S) = Cardinality(Counted(f, S))
        /\ SumOver(f, T) = Cardinality(Counted(f, T))
        /\ SumOver(f, S \cup T) = Cardinality(Counted(f, S \cup T))
    BY DEF SumOver, Counted
  <1>7. SumOver(f, S \cup T) = SumOver(f, S) + SumOver(f, T) - 0
    BY <1>1, <1>4, <1>5, <1>6
  <1>. QED BY <1>5, <1>7

\* of more things, each worth no less, no less,
LEMMA SumGrows ==
    ASSUME NEW T, IsFiniteSet(T), NEW S, S \subseteq T,
           NEW g, \A x \in T : g[x] \in Nat,
           NEW f, \A x \in S : f[x] \in Nat /\ f[x] =< g[x]
    PROVE  SumOver(f, S) =< SumOver(g, T)
  <1>1. Counted(f, S) \in SUBSET Counted(g, T)
    <2>1. ASSUME NEW t \in Counted(f, S) PROVE t \in Counted(g, T)
      <3>1. PICK x \in S : \E i \in 1..f[x] : t = <<x, i>>
        BY CountedPairs
      <3>2. x \in T /\ 1..f[x] \subseteq 1..g[x]
        OBVIOUS
      <3>. QED BY <3>1, <3>2, CountedPairs
    <2>. QED BY <2>1
  <1>2. IsFiniteSet(Counted(g, T))
    BY CountedFinite
  <1>3. Cardinality(Counted(f, S)) =< Cardinality(Counted(g, T))
    BY <1>1, <1>2, FS_Subset
  <1>. QED BY <1>3 DEF SumOver, Counted

\* and of the same things the same
LEMMA SumSame ==
    ASSUME NEW S, NEW f, NEW g, \A x \in S : f[x] = g[x]
    PROVE  SumOver(f, S) = SumOver(g, S)
  <1>1. Counted(f, S) = Counted(g, S)
    BY DEF Counted
  <1>. QED BY <1>1 DEF SumOver, Counted

\* Min of a set of numbers is in it and below the others: numbers have no endless descent
LEMMA FirstOf ==
    ASSUME NEW T, T \subseteq Nat, T # {}
    PROVE  Min(T) \in T /\ \A y \in T : Min(T) =< y
  <1>1. IsWellFoundedOn(OpToRel(<, Nat), Nat)
    BY NatLessThanWellFounded, Zenon
  <1>2. PICK x \in T : \A y \in T : ~ (<<y, x>> \in OpToRel(<, Nat))
    BY <1>1, WFMin, Zenon
  <1>3. ASSUME NEW y \in T PROVE x =< y
    <2>1. ~ (<<y, x>> \in {ss \in Nat \X Nat : ss[1] < ss[2]})
      BY <1>2, Zenon DEF OpToRel
    <2>. QED BY <2>1
  <1>. QED BY <1>3 DEF Min

\* and so is that of two numbers
LEMMA LesserOf ==
    ASSUME NEW m \in Nat, NEW n \in Nat
    PROVE  /\ Min({m, n}) \in Nat /\ Min({m, n}) \in {m, n}
           /\ Min({m, n}) =< m /\ Min({m, n}) =< n
  BY FirstOf

----------------------------------------------------------------------------
(* Types.                                                                  *)

\* The sets of rows that are added up are finite, and the sums numbers
LEMMA RowsAreFinite ==
    ASSUME TypeOK, NEW P \in SUBSET (Leaves \X Accruals)
    PROVE  IsFiniteSet(P) /\ (\A p \in P : row[p].units \in Nat) /\ UnitsOf(P) \in Nat
  <1>1. IsFiniteSet(Leaves \X Accruals)
    BY FS_Product, CompOffAssumption
  <1>2. IsFiniteSet(P)
    BY <1>1, FS_Subset
  <1>3. \A p \in P : row[p].units \in Nat
    BY DEF TypeOK
  <1>4. \A p \in P : [q \in P |-> row[q].units][p] \in Nat
    BY <1>3
  <1>5. UnitsOf(P) \in Nat
    BY <1>2, <1>4, SumIsNat DEF UnitsOf
  <1>. QED BY <1>2, <1>3, <1>5

\* What is held on an accrual, and what is left of it, are numbers
LEMMA HeldIsNat ==
    ASSUME TypeOK, NEW a \in Accruals
    PROVE  Held(a) \in Nat /\ Left(a) \in Nat /\ Units[a] \in Nat
  <1>1. RowsOf(a) \in SUBSET (Leaves \X Accruals)
    BY DEF RowsOf
  <1>2. Held(a) \in Nat
    BY <1>1, RowsAreFinite DEF Held
  <1>3. Units[a] \in Nat
    BY CompOffAssumption
  <1>. QED BY <1>2, <1>3 DEF Left

\* Rows that follow their request stay rows
LEMMA SyncTyped ==
    ASSUME TypeOK, NEW l \in Leaves, NEW s \in {"APPROVED", "REJECTED", "WITHDRAWN"}
    PROVE  Sync(l, s) \in [Leaves \X Accruals -> [units : Nat, status : RowStatus]]
  <1>1. RowStatusFor(s) \in RowStatus
    BY DEF RowStatusFor, RowStatus
  <1>. QED BY <1>1 DEF Sync, TypeOK

\* A call that moves on to what is a call leaves the calls typed
LEMMA MovesTyped ==
    ASSUME TypeOK, NEW l \in Leaves, NEW c \in Call, Moves(l, c)
    PROVE  call' \in [Leaves -> Call]
  BY DEF TypeOK, Moves

\* What a call has read has its type wherever the call has come
LEMMA CallIs ==
    ASSUME TypeOK, NEW l \in Leaves
    PROVE  /\ call[l].day \in Nat
           /\ call[l].pc = "reserve" =>
                 call[l].todo \in SUBSET Accruals /\ call[l].left \in Nat
           /\ call[l].pc = "take" =>
                 /\ call[l].todo \in SUBSET Accruals /\ call[l].left \in Nat
                 /\ call[l].from \in Accruals /\ call[l].units \in Nat
  <1>1. call[l] \in Call
    BY DEF TypeOK
  <1>. QED BY <1>1 DEF Call, Rests

\* A call that keeps nothing but its day is a call
LEMMA RestsTyped == \A pc \in Rests \cup {"valid", "reserved", "marked", "settle"}, d \in Nat :
                        [pc |-> pc, day |-> d] \in Call
  BY DEF Call

\* The accrual a turn of the loop finds, and the units it takes of it, have their types
LEMMA LookTyped ==
    ASSUME TypeOK, NEW l \in Leaves, Look(l)
    PROVE  call' \in [Leaves -> Call]
  <1>. DEFINE a == Min(call[l].todo)
  <1>1. call[l].todo \in SUBSET Accruals /\ call[l].left \in Nat /\ call[l].day \in Nat
    BY CallIs DEF Look
  <1>2. a \in call[l].todo
    BY <1>1, FirstOf, CompOffAssumption DEF Look
  <1>3. a \in Accruals /\ Left(a) \in Nat
    BY <1>1, <1>2, HeldIsNat
  <1>4. Min({call[l].left, Left(a)}) \in Nat
    BY <1>1, <1>3, LesserOf
  <1>. HIDE DEF a
  <1>5. /\ [pc |-> "reserve", day |-> call[l].day, todo |-> call[l].todo \ {a},
            left |-> call[l].left] \in Call
        /\ [pc |-> "take", day |-> call[l].day, todo |-> call[l].todo \ {a},
            left |-> call[l].left, from |-> a, units |-> Min({call[l].left, Left(a)})] \in Call
    BY <1>1, <1>3, <1>4 DEF Call
  <1>. QED BY <1>5, MovesTyped DEF Look, a

\* A row takes no more units than are left to find
WithinLeft == \A l \in Leaves : call[l].pc = "take" => call[l].units =< call[l].left

Typed == TypeOK /\ WithinLeft

\* The rows of the table
RowTypes == [units : Nat, status : RowStatus]

\* The row that is written is a row
LEMMA TakeTyped ==
    ASSUME Typed, NEW l \in Leaves, Take(l)
    PROVE  Typed'
  <1>1. /\ call[l].todo \in SUBSET Accruals /\ call[l].left \in Nat /\ call[l].day \in Nat
        /\ call[l].from \in Accruals /\ call[l].units \in Nat /\ call[l].units =< call[l].left
    BY CallIs DEF Take, Typed, WithinLeft
  <1>. DEFINE next == IF call[l].left - call[l].units = 0 THEN At("reserved")
                      ELSE [pc |-> "reserve", day |-> call[l].day, todo |-> call[l].todo,
                            left |-> call[l].left - call[l].units]
  <1>2. next \in Call /\ next.pc # "take"
    BY <1>1 DEF Call, At
  <1>3. Moves(l, next)
    BY DEF Take
  <1>4. call' \in [Leaves -> Call]
    BY <1>2, <1>3, MovesTyped DEF Typed
  <1>5. WithinLeft'
    <2>. HIDE DEF next
    <2>. QED BY <1>2, <1>3 DEF Typed, TypeOK, WithinLeft, Moves
  <1>6. row' \in [Leaves \X Accruals -> [units : Nat, status : RowStatus]]
    <2>1. [units |-> call[l].units, status |-> "PENDING"] \in RowTypes
      BY <1>1 DEF RowStatus, RowTypes
    <2>2. row' = [row EXCEPT ![<<l, call[l].from>>] =
                      [units |-> call[l].units, status |-> "PENDING"]]
      BY DEF Take
    <2>3. row \in [Leaves \X Accruals -> RowTypes]
      BY DEF Typed, TypeOK, RowTypes
    <2>4. row' \in [Leaves \X Accruals -> RowTypes]
      BY <2>1, <2>2, <2>3
    <2>. QED BY <2>4 DEF RowTypes
  <1>. QED BY <1>4, <1>5, <1>6 DEF Typed, TypeOK, Take

\* and takes no more than is left to find
LEMMA LookKeepsTypes ==
    ASSUME Typed, NEW l \in Leaves, Look(l)
    PROVE  Typed'
  <1>1. call' \in [Leaves -> Call]
    BY LookTyped DEF Typed
  <1>2. call'[l].pc = "take" => call'[l].units =< call'[l].left
    <2>. DEFINE a == Min(call[l].todo)
    <2>1. call[l].todo \in SUBSET Accruals /\ call[l].left \in Nat
      BY CallIs DEF Look, Typed
    <2>2. a \in call[l].todo
      BY <2>1, FirstOf, CompOffAssumption DEF Look
    <2>3. Min({call[l].left, Left(a)}) =< call[l].left
      BY <2>1, <2>2, HeldIsNat, LesserOf DEF Typed
    <2>. HIDE DEF a
    <2>. QED BY <2>3 DEF Look, Moves, Typed, TypeOK, a
  <1>3. \A m \in Leaves : m # l => call'[m] = call[m]
    BY DEF Look, Moves, Typed, TypeOK
  <1>4. WithinLeft'
    BY <1>2, <1>3 DEF WithinLeft, Typed
  <1>. QED BY <1>1, <1>4 DEF Typed, TypeOK, Look

\* A call that moves on to anything but a row to be written
LEMMA MovesOn ==
    ASSUME Typed, NEW l \in Leaves, NEW c \in Call, c.pc # "take", Moves(l, c)
    PROVE  call' \in [Leaves -> Call] /\ WithinLeft'
  BY DEF Typed, TypeOK, WithinLeft, Moves

\* Every step keeps the types
LEMMA TypesKept == Typed /\ [Next]_vars => Typed'
  <1>. SUFFICES ASSUME Typed, [Next]_vars PROVE Typed'
    OBVIOUS
  <1>a. /\ today \in Nat /\ granted \subseteq Accruals /\ leave \in [Leaves -> LeaveStatus]
        /\ row \in [Leaves \X Accruals -> RowTypes] /\ run \in [Leaves -> RunStatus]
    BY DEF Typed, TypeOK, RowTypes
  <1>b. \A l \in Leaves : call[l].day \in Nat
    BY CallIs DEF Typed
  <1>c. \A pc \in {"idle", "short", "stopped", "withdrawn", "valid", "reserved", "marked", "settle"} :
            At(pc) \in Call /\ At(pc).pc # "take"
    BY DEF At, Call, Rests
  <1>1. ASSUME NEW l \in Leaves, Validate(l) PROVE Typed'
    <2>1. [pc |-> "valid", day |-> today] \in Call
      BY <1>a, RestsTyped
    <2>2. call' \in [Leaves -> Call] /\ WithinLeft'
      BY <1>1, <2>1, MovesOn DEF Validate
    <2>. QED BY <1>1, <2>2 DEF Validate, Typed, TypeOK
  <1>2. ASSUME NEW l \in Leaves, File(l) PROVE Typed'
    <2>. DEFINE next == [pc |-> "reserve", day |-> call[l].day, todo |-> Usable, left |-> Asked[l]]
    <2>1. next \in Call /\ next.pc # "take"
      <3>1. Usable \in SUBSET Accruals /\ Asked[l] \in Nat
        BY <1>a, CompOffAssumption DEF Usable
      <3>. QED BY <1>b, <3>1 DEF Call
    <2>2. call' \in [Leaves -> Call] /\ WithinLeft'
      BY <1>2, <2>1, MovesOn DEF File
    <2>3. leave' \in [Leaves -> LeaveStatus]
      BY <1>a, <1>2 DEF File, LeaveStatus
    <2>. QED BY <1>2, <2>2, <2>3 DEF File, Typed, TypeOK
  <1>3. ASSUME NEW l \in Leaves, Look(l) PROVE Typed'
    BY <1>3, LookKeepsTypes
  <1>4. ASSUME NEW l \in Leaves, Take(l) PROVE Typed'
    BY <1>4, TakeTyped
  <1>5. ASSUME NEW l \in Leaves, ComeShort(l) PROVE Typed'
    <2>1. [pc |-> "short", day |-> call[l].day] \in Call
      BY <1>b, RestsTyped DEF Rests
    <2>2. call' \in [Leaves -> Call] /\ WithinLeft'
      BY <1>5, <2>1, MovesOn DEF ComeShort
    <2>. QED BY <1>5, <2>2 DEF ComeShort, Typed, TypeOK
  <1>6. ASSUME NEW l \in Leaves, OpenRun(l) PROVE Typed'
    <2>1. call' \in [Leaves -> Call] /\ WithinLeft'
      BY <1>6, <1>c, MovesOn DEF OpenRun
    <2>2. run' \in [Leaves -> RunStatus]
      BY <1>a, <1>6 DEF OpenRun, RunStatus
    <2>. QED BY <1>6, <2>1, <2>2 DEF OpenRun, Typed, TypeOK
  <1>7. ASSUME NEW l \in Leaves, Stop(l) PROVE Typed'
    <2>1. call' \in [Leaves -> Call] /\ WithinLeft'
      BY <1>7, <1>c, MovesOn DEF Stop
    <2>. QED BY <1>7, <2>1 DEF Stop, Typed, TypeOK
  <1>8. ASSUME NEW l \in Leaves, NEW s \in {"APPROVED", "REJECTED"}, Answer(l, s) PROVE Typed'
    <2>1. row' \in [Leaves \X Accruals -> [units : Nat, status : RowStatus]]
      BY <1>8, SyncTyped DEF Answer, Typed
    <2>2. run' \in [Leaves -> RunStatus] /\ leave' \in [Leaves -> LeaveStatus]
      BY <1>a, <1>8 DEF Answer, RunStatus, LeaveStatus
    <2>. QED BY <1>8, <2>1, <2>2 DEF Answer, Typed, TypeOK, WithinLeft
  <1>9. ASSUME NEW l \in Leaves, MarkWithdrawn(l) PROVE Typed'
    <2>1. call' \in [Leaves -> Call] /\ WithinLeft'
      BY <1>9, <1>c, MovesOn DEF MarkWithdrawn
    <2>2. leave' \in [Leaves -> LeaveStatus]
      BY <1>a, <1>9 DEF MarkWithdrawn, LeaveStatus
    <2>. QED BY <1>9, <2>1, <2>2 DEF MarkWithdrawn, Typed, TypeOK
  <1>10. ASSUME NEW l \in Leaves, FindRun(l) PROVE Typed'
    <2>1. [pc |-> "found", day |-> 0, seen |-> run[l]] \in Call
      BY <1>a DEF Call
    <2>2. call' \in [Leaves -> Call] /\ WithinLeft'
      BY <1>10, <2>1, MovesOn DEF FindRun
    <2>. QED BY <1>10, <2>2 DEF FindRun, Typed, TypeOK
  <1>11. ASSUME NEW l \in Leaves, CancelRun(l) PROVE Typed'
    <2>1. call' \in [Leaves -> Call] /\ WithinLeft'
      BY <1>11, <1>c, MovesOn DEF CancelRun
    <2>2. CASE call[l].seen = "PENDING"
      <3>1. row' \in [Leaves \X Accruals -> [units : Nat, status : RowStatus]]
        BY <1>11, <2>2, SyncTyped DEF CancelRun, Typed
      <3>2. run' \in [Leaves -> RunStatus] /\ leave' \in [Leaves -> LeaveStatus]
        BY <1>a, <1>11, <2>2 DEF CancelRun, RunStatus, LeaveStatus
      <3>. QED BY <1>11, <2>1, <3>1, <3>2 DEF CancelRun, Typed, TypeOK
    <2>3. CASE call[l].seen # "PENDING"
      BY <1>11, <2>1, <2>3 DEF CancelRun, Typed, TypeOK
    <2>. QED BY <2>2, <2>3
  <1>12. ASSUME NEW l \in Leaves, GiveBack(l) PROVE Typed'
    <2>1. call' \in [Leaves -> Call] /\ WithinLeft'
      BY <1>12, <1>c, MovesOn DEF GiveBack
    <2>2. row' \in [Leaves \X Accruals -> [units : Nat, status : RowStatus]]
      BY <1>12, SyncTyped DEF GiveBack, Typed
    <2>. QED BY <1>12, <2>1, <2>2 DEF GiveBack, Typed, TypeOK
  <1>13. CASE (\E a \in Accruals : Grant(a)) \/ Night \/ UNCHANGED vars
    BY <1>13 DEF Grant, Night, vars, Typed, TypeOK, WithinLeft
  <1>. QED
    BY <1>1, <1>2, <1>3, <1>4, <1>5, <1>6, <1>7, <1>8, <1>9, <1>10, <1>11, <1>12, <1>13 DEF Next

\* and so does the start
LEMMA TypesInit == Init => Typed
  BY CompOffAssumption DEF Init, Typed, TypeOK, WithinLeft, LeaveStatus, RowStatus, RunStatus,
     NoRow, Call, Rests

\* Every reachable state is typed, whatever overlaps, and the units still to be found never
\* go below zero (create_leave_request, _reserve_comp_off_redemption)
THEOREM CompOffTyped == Spec => []TypeOK
  <1>1. Init => Typed
    BY TypesInit
  <1>2. Typed => TypeOK
    BY DEF Typed
  <1>. QED BY <1>1, <1>2, TypesKept, PTL DEF Spec

----------------------------------------------------------------------------
(* Who gives back what, whatever overlaps.                                 *)

Creating == {"valid", "reserve", "take", "reserved"}

Shape ==
    /\ leave = [l \in Leaves |-> leave[l]]
    /\ run = [l \in Leaves |-> run[l]]
    /\ call = [l \in Leaves |-> call[l]]
    /\ row = [p \in Leaves \X Accruals |-> row[p]]

HoldsNothing(l) == \A a \in Accruals : row[<<l, a>>].status \notin Reserved

\* A run comes after the rows, and a withdrawal leaves no run to be answered
Ordered(l) ==
    /\ leave[l] = "NONE" \/ call[l].pc \in Creating => run[l] = "NONE"
    /\ call[l].pc \in Creating \ {"valid"} => leave[l] # "NONE"
    /\ call[l].pc = "found" /\ call[l].seen # "PENDING" => run[l] # "PENDING"
    /\ call[l].pc \in {"settle", "withdrawn"} => run[l] # "PENDING"

GivesBack(l) ==
    run[l] \in {"REJECTED", "CANCELLED"} \/ call[l].pc = "withdrawn" => HoldsNothing(l)

IInv == Shape /\ \A l \in Leaves : Ordered(l) /\ GivesBack(l)

\* Rows synchronised with a refusal hold nothing (sync_comp_off_redemptions_...)
LEMMA SyncFrees ==
    ASSUME NEW l \in Leaves, NEW s \in {"REJECTED", "WITHDRAWN"}, NEW a \in Accruals
    PROVE  Sync(l, s)[<<l, a>>].status \notin Reserved
  BY DEF Sync, RowStatusFor, Reserved

\* and the rows of another request are left alone
LEMMA SyncKeeps ==
    ASSUME NEW l \in Leaves, NEW m \in Leaves, m # l, NEW s, NEW a \in Accruals
    PROVE  Sync(l, s)[<<m, a>>] = row[<<m, a>>]
  BY DEF Sync

\* Rows that follow their request are rows of the same requests and accruals
LEMMA SyncShape ==
    ASSUME NEW l \in Leaves, NEW s
    PROVE  Sync(l, s) = [p \in Leaves \X Accruals |-> Sync(l, s)[p]]
  BY DEF Sync

\* Nothing is refused at the start
LEMMA InitInv == Init => IInv
  BY DEF Init, IInv, Shape, Ordered, GivesBack, HoldsNothing, NoRow, Reserved, Creating

\* A step of the call on l that leaves the rows and the runs alone
LEMMA CallSteps ==
    ASSUME IInv, NEW l \in Leaves,
           Validate(l) \/ File(l) \/ Look(l) \/ ComeShort(l) \/ Stop(l)
             \/ MarkWithdrawn(l) \/ FindRun(l)
    PROVE  IInv'
  <1>1. Shape'
    BY DEF IInv, Shape, Validate, File, Look, ComeShort, Stop, MarkWithdrawn, FindRun, Moves
  <1>2. ASSUME NEW m \in Leaves, m # l PROVE (Ordered(m) /\ GivesBack(m))'
    BY <1>2 DEF IInv, Shape, Validate, File, Look, ComeShort, Stop, MarkWithdrawn, FindRun, Moves,
            Ordered, GivesBack, HoldsNothing
  <1>3. Ordered(l)'
    <2>1. CASE Validate(l)
      BY <2>1 DEF IInv, Shape, Validate, Moves, Ordered, Creating
    <2>2. CASE File(l)
      BY <2>2 DEF IInv, Shape, File, Moves, Ordered, Creating
    <2>3. CASE Look(l)
      BY <2>3 DEF IInv, Shape, Look, Moves, Ordered, Creating
    <2>4. CASE ComeShort(l) \/ Stop(l)
      BY <2>4 DEF IInv, Shape, ComeShort, Stop, At, Moves, Ordered, Creating
    <2>5. CASE MarkWithdrawn(l)
      BY <2>5 DEF IInv, Shape, MarkWithdrawn, At, Moves, Ordered, Creating
    <2>6. CASE FindRun(l)
      BY <2>6 DEF IInv, Shape, FindRun, Moves, Ordered, Creating
    <2>. QED BY <2>1, <2>2, <2>3, <2>4, <2>5, <2>6
  <1>4. GivesBack(l)'
    <2>1. run' = run /\ row' = row
      BY DEF Validate, File, Look, ComeShort, Stop, MarkWithdrawn, FindRun
    <2>2. call'[l].pc # "withdrawn"
      <3>1. CASE Validate(l) \/ File(l)
        BY <3>1 DEF IInv, Shape, Validate, File, Moves
      <3>2. CASE Look(l)
        BY <3>2 DEF IInv, Shape, Look, Moves
      <3>3. CASE ComeShort(l) \/ Stop(l)
        BY <3>3 DEF IInv, Shape, ComeShort, Stop, Moves, At
      <3>4. CASE MarkWithdrawn(l) \/ FindRun(l)
        BY <3>4 DEF IInv, Shape, MarkWithdrawn, FindRun, Moves, At
      <3>. QED BY <3>1, <3>2, <3>3, <3>4
    <2>. QED BY <2>1, <2>2 DEF IInv, GivesBack, HoldsNothing
  <1>. QED BY <1>1, <1>2, <1>3, <1>4 DEF IInv

\* The row a request takes is of a request that has no run yet
LEMMA TakeStep ==
    ASSUME IInv, NEW l \in Leaves, Take(l)
    PROVE  IInv'
  <1>1. Shape'
    BY DEF IInv, Shape, Take, Moves
  <1>2. ASSUME NEW m \in Leaves, m # l PROVE (Ordered(m) /\ GivesBack(m))'
    <2>1. \A a \in Accruals : row'[<<m, a>>] = row[<<m, a>>]
      BY <1>2 DEF IInv, Shape, Take
    <2>. QED BY <1>2, <2>1 DEF IInv, Shape, Take, Moves, Ordered, GivesBack, HoldsNothing
  <1>3. run'[l] = "NONE" /\ leave'[l] # "NONE" /\ call'[l].pc \in {"reserve", "reserved"}
    BY DEF IInv, Shape, Take, Moves, At, Ordered, Creating
  <1>. QED BY <1>1, <1>2, <1>3 DEF IInv, Ordered, GivesBack

\* A run opens where there was none, and finds nothing refused
LEMMA OpenRunStep ==
    ASSUME IInv, NEW l \in Leaves, OpenRun(l)
    PROVE  IInv'
  <1>1. Shape'
    BY DEF IInv, Shape, OpenRun, Moves
  <1>2. ASSUME NEW m \in Leaves, m # l PROVE (Ordered(m) /\ GivesBack(m))'
    BY <1>2 DEF IInv, Shape, OpenRun, Moves, Ordered, GivesBack, HoldsNothing
  <1>3. run'[l] = "PENDING" /\ call'[l].pc = "idle"
    BY DEF IInv, Shape, OpenRun, Moves, At
  <1>4. run[l] = "NONE" /\ leave'[l] # "NONE"
    BY DEF IInv, OpenRun, Ordered, Creating
  <1>. QED BY <1>1, <1>2, <1>3, <1>4 DEF IInv, Ordered, GivesBack, Creating

\* The rows follow the answer
LEMMA AnswerStep ==
    ASSUME IInv, NEW l \in Leaves, NEW s \in {"APPROVED", "REJECTED"}, Answer(l, s)
    PROVE  IInv'
  <1>1. Shape'
    BY SyncShape DEF IInv, Shape, Answer
  <1>2. ASSUME NEW m \in Leaves, m # l PROVE (Ordered(m) /\ GivesBack(m))'
    <2>1. \A a \in Accruals : row'[<<m, a>>] = row[<<m, a>>]
      BY <1>2, SyncKeeps DEF Answer
    <2>. QED BY <1>2, <2>1 DEF IInv, Shape, Answer, Ordered, GivesBack, HoldsNothing
  <1>3. run'[l] = s /\ leave'[l] = s /\ call' = call /\ run[l] = "PENDING"
    BY DEF IInv, Shape, Answer
  <1>4. Ordered(l)'
    BY <1>3 DEF IInv, Ordered
  <1>5. GivesBack(l)'
    <2>1. call[l].pc # "withdrawn"
      BY <1>3 DEF IInv, Ordered
    <2>2. s = "REJECTED" => HoldsNothing(l)'
      BY SyncFrees DEF Answer, HoldsNothing
    <2>. QED BY <1>3, <2>1, <2>2 DEF GivesBack
  <1>. QED BY <1>1, <1>2, <1>4, <1>5 DEF IInv

\* Either the run is cancelled with its rows, or it had ended already
LEMMA CancelRunStep ==
    ASSUME IInv, NEW l \in Leaves, CancelRun(l)
    PROVE  IInv'
  <1>1. Shape'
    <2>1. CASE call[l].seen = "PENDING"
      <3>1. row' = Sync(l, "WITHDRAWN")
        BY <2>1 DEF CancelRun
      <3>2. row' = [p \in Leaves \X Accruals |-> row'[p]]
        BY <3>1, SyncShape
      <3>. QED BY <2>1, <3>2 DEF IInv, Shape, CancelRun, Moves
    <2>2. CASE call[l].seen # "PENDING"
      BY <2>2 DEF IInv, Shape, CancelRun, Moves
    <2>. QED BY <2>1, <2>2
  <1>2. ASSUME NEW m \in Leaves, m # l PROVE (Ordered(m) /\ GivesBack(m))'
    <2>1. \A a \in Accruals : row'[<<m, a>>] = row[<<m, a>>]
      BY <1>2, SyncKeeps DEF CancelRun
    <2>. QED BY <1>2, <2>1 DEF IInv, Shape, CancelRun, Moves, Ordered, GivesBack, HoldsNothing
  <1>3. call'[l].pc = "settle"
    BY DEF IInv, Shape, CancelRun, Moves, At
  <1>4. CASE call[l].seen = "PENDING"
    <2>1. run'[l] = "CANCELLED" /\ leave'[l] = "WITHDRAWN"
      BY <1>4 DEF IInv, Shape, CancelRun
    <2>2. HoldsNothing(l)'
      BY <1>4, SyncFrees DEF CancelRun, HoldsNothing
    <2>. QED BY <1>1, <1>2, <1>3, <2>1, <2>2 DEF IInv, Ordered, GivesBack, Creating
  <1>5. CASE call[l].seen # "PENDING"
    <2>1. run' = run /\ leave' = leave /\ row' = row /\ run[l] # "PENDING"
      BY <1>5 DEF IInv, CancelRun, Ordered
    <2>. QED BY <1>1, <1>2, <1>3, <2>1 DEF IInv, Ordered, GivesBack, HoldsNothing, Creating
  <1>. QED BY <1>4, <1>5

\* A withdrawal that ran through leaves nothing held
LEMMA GiveBackStep ==
    ASSUME IInv, NEW l \in Leaves, GiveBack(l)
    PROVE  IInv'
  <1>1. Shape'
    BY SyncShape DEF IInv, Shape, GiveBack, Moves
  <1>2. ASSUME NEW m \in Leaves, m # l PROVE (Ordered(m) /\ GivesBack(m))'
    <2>1. \A a \in Accruals : row'[<<m, a>>] = row[<<m, a>>]
      BY <1>2, SyncKeeps DEF GiveBack
    <2>. QED BY <1>2, <2>1 DEF IInv, Shape, GiveBack, Moves, Ordered, GivesBack, HoldsNothing
  <1>3. call'[l].pc = "withdrawn" /\ run' = run /\ leave' = leave /\ run[l] # "PENDING"
    BY DEF IInv, Shape, GiveBack, Moves, At, Ordered
  <1>4. HoldsNothing(l)'
    BY SyncFrees DEF GiveBack, HoldsNothing
  <1>. QED BY <1>1, <1>2, <1>3, <1>4 DEF IInv, Ordered, GivesBack, Creating

\* Every step keeps what was refused given back
LEMMA NextInv == IInv /\ [Next]_vars => IInv'
  <1>. SUFFICES ASSUME IInv, [Next]_vars PROVE IInv'
    OBVIOUS
  <1>1. ASSUME NEW l \in Leaves,
               Validate(l) \/ File(l) \/ Look(l) \/ ComeShort(l) \/ Stop(l)
                 \/ MarkWithdrawn(l) \/ FindRun(l)
        PROVE  IInv'
    BY <1>1, CallSteps
  <1>2. ASSUME NEW l \in Leaves, Take(l) PROVE IInv'
    BY <1>2, TakeStep
  <1>3. ASSUME NEW l \in Leaves, OpenRun(l) PROVE IInv'
    BY <1>3, OpenRunStep
  <1>4. ASSUME NEW l \in Leaves, NEW s \in {"APPROVED", "REJECTED"}, Answer(l, s) PROVE IInv'
    BY <1>4, AnswerStep
  <1>5. ASSUME NEW l \in Leaves, CancelRun(l) PROVE IInv'
    BY <1>5, CancelRunStep
  <1>6. ASSUME NEW l \in Leaves, GiveBack(l) PROVE IInv'
    BY <1>6, GiveBackStep
  <1>7. CASE (\E a \in Accruals : Grant(a)) \/ Night \/ UNCHANGED vars
    BY <1>7 DEF IInv, Shape, Ordered, GivesBack, HoldsNothing, Grant, Night, vars
  <1>. QED BY <1>1, <1>2, <1>3, <1>4, <1>5, <1>6, <1>7 DEF Next

\* A comp-off request that was refused or withdrawn never holds units, for any
\* accruals and requests and for calls that overlap or stop half way
\* (sync_comp_off_redemptions_for_leave_request, cancel_approval_run)
THEOREM RefusedAlwaysGivesBack == Spec => []RefusedGivesBack
  <1>1. IInv => RefusedGivesBack
    BY DEF IInv, GivesBack, HoldsNothing, RefusedGivesBack
  <1>. QED BY <1>1, InitInv, NextInv, PTL DEF Spec

----------------------------------------------------------------------------
(* One request at a time.                                                  *)

\* The units of the rows P in the table r
UnitsIn(r, P) == SumOver([p \in P |-> r[p].units], P)

\* The sum the model takes is that of the table as it stands
LEMMA UnitsOfIsIn == \A P : UnitsOf(P) = UnitsIn(row, P)
  BY DEF UnitsOf, UnitsIn

\* The units in a table: a number,
LEMMA InIsNat ==
    ASSUME NEW P, IsFiniteSet(P), NEW r, \A p \in P : r[p].units \in Nat
    PROVE  UnitsIn(r, P) \in Nat
  <1>. DEFINE f == [p \in P |-> r[p].units]
  <1>1. \A p \in P : f[p] \in Nat
    OBVIOUS
  <1>. HIDE DEF f
  <1>2. SumOver(f, P) \in Nat
    BY <1>1, SumIsNat
  <1>. QED BY <1>2 DEF UnitsIn, f

\* no less in more rows,
LEMMA InGrows ==
    ASSUME NEW P, IsFiniteSet(P), NEW Q, Q \subseteq P,
           NEW r, \A p \in P : r[p].units \in Nat,
           NEW s, \A p \in Q : s[p].units = r[p].units
    PROVE  UnitsIn(s, Q) =< UnitsIn(r, P)
  <1>. DEFINE f == [p \in Q |-> s[p].units]
              g == [p \in P |-> r[p].units]
  <1>1. \A p \in P : g[p] \in Nat
    OBVIOUS
  <1>2. \A p \in Q : f[p] \in Nat /\ f[p] =< g[p]
    <2>1. \A p \in Q : f[p] \in Nat /\ f[p] = g[p]
      OBVIOUS
    <2>. HIDE DEF f, g
    <2>. QED BY <2>1, <1>1
  <1>. HIDE DEF f, g
  <1>3. SumOver(f, Q) =< SumOver(g, P)
    BY <1>1, <1>2, SumGrows
  <1>. QED BY <1>3 DEF UnitsIn, f, g

\* the same in rows with the same units,
LEMMA InSame ==
    ASSUME NEW P, NEW r, NEW s, \A p \in P : s[p].units = r[p].units
    PROVE  UnitsIn(s, P) = UnitsIn(r, P)
  <1>1. [p \in P |-> s[p].units] = [p \in P |-> r[p].units]
    OBVIOUS
  <1>. QED BY <1>1 DEF UnitsIn

\* those of two sets of rows together,
LEMMA InJoins ==
    ASSUME NEW P, IsFiniteSet(P), NEW Q, IsFiniteSet(Q), P \cap Q = {},
           NEW r, \A p \in P \cup Q : r[p].units \in Nat
    PROVE  UnitsIn(r, P \cup Q) = UnitsIn(r, P) + UnitsIn(r, Q)
  <1>. DEFINE h == [p \in P \cup Q |-> r[p].units]
              f == [p \in P |-> r[p].units]
              g == [p \in Q |-> r[p].units]
  <1>1. \A p \in P \cup Q : h[p] \in Nat
    OBVIOUS
  <1>2. (\A p \in P : h[p] = f[p]) /\ (\A p \in Q : h[p] = g[p])
    OBVIOUS
  <1>. HIDE DEF f, g, h
  <1>3. SumOver(h, P \cup Q) = SumOver(h, P) + SumOver(h, Q)
    BY <1>1, SumJoins
  <1>4. SumOver(h, P) = SumOver(f, P) /\ SumOver(h, Q) = SumOver(g, Q)
    BY <1>2, SumSame
  <1>. QED BY <1>3, <1>4 DEF UnitsIn, f, g, h

\* those of the row where there is one,
LEMMA InOne ==
    ASSUME NEW q, NEW r, r[q].units \in Nat
    PROVE  UnitsIn(r, {q}) = r[q].units
  <1>. DEFINE f == [p \in {q} |-> r[p].units]
  <1>1. f[q] = r[q].units
    OBVIOUS
  <1>. HIDE DEF f
  <1>2. SumOver(f, {q}) = f[q]
    BY <1>1, SumOfOne
  <1>. QED BY <1>1, <1>2 DEF UnitsIn, f

\* and zero where there is none
LEMMA InNone == \A r : UnitsIn(r, {}) = 0
  BY SumOfNone DEF UnitsIn

\* One call at most is under way
Alone == \A l, m \in Leaves : ~Resting(l) /\ ~Resting(m) => l = m

MineIn(l, status) == {p \in {l} \X Accruals : row[p].status = status}

\* What l has collected so far, and for good
Collected(l, status) == UnitsOf(MineIn(l, status))

Unanswered(l) == \A a \in Accruals : row[<<l, a>>].status \in {"NONE", "PENDING"}

\* A leave that is not there holds nothing and has no run, and one that waits for an
\* answer has collected what it takes
Covered(l) ==
    /\ leave[l] = "NONE" => run[l] = "NONE" /\ \A a \in Accruals : row[<<l, a>>] = NoRow
    /\ run[l] = "PENDING" => Unanswered(l) /\ Asked[l] = Collected(l, "PENDING")
    /\ leave[l] = "APPROVED" => Asked[l] = Collected(l, "APPROVED")

\* How far the loop has come: what it has taken and what is left make up what was
\* asked for, and the accruals it has not come to hold nothing for l
Collecting(l) ==
    /\ call[l].pc \in {"reserve", "take", "reserved"} =>
          leave[l] = "PENDING" /\ run[l] = "NONE" /\ Unanswered(l)
    /\ call[l].pc \in {"reserve", "take"} =>
          /\ call[l].left > 0 /\ Asked[l] = call[l].left + Collected(l, "PENDING")
          /\ \A a \in call[l].todo : row[<<l, a>>] = NoRow
    /\ call[l].pc = "take" =>
          /\ row[<<l, call[l].from>>] = NoRow /\ call[l].from \notin call[l].todo
          /\ Held(call[l].from) + call[l].units =< Units[call[l].from]
    /\ call[l].pc = "reserved" => Asked[l] = Collected(l, "PENDING")

\* What a withdrawal has read is still so
Withdrawing(l) ==
    /\ call[l].pc = "valid" => leave[l] = "NONE"
    /\ call[l].pc \in {"marked", "found", "settle"} => leave[l] = "WITHDRAWN"
    /\ call[l].pc = "found" => call[l].seen = run[l]
    /\ call[l].pc = "settle" => run[l] # "PENDING"

\* An accrual that l was promised has expired since
Expired(l) == \E a \in granted : Expires[a] >= call[l].day /\ Expires[a] < today

Promised(l) == {a \in granted : Expires[a] >= call[l].day}
RowsOn(S) == UNION {RowsOf(a) : a \in S}

\* Until midnight, what l has still to find is free on the accruals it has still to
\* come to
Enough(l) ==
    /\ call[l].pc = "valid" =>
          Asked[l] + UnitsOf(RowsOn(Accruals)) =< SumOver(Units, Promised(l))
    /\ call[l].pc = "reserve" =>
          call[l].left + UnitsOf(RowsOn(call[l].todo)) =< SumOver(Units, call[l].todo)
    /\ call[l].pc = "take" /\ call[l].units # call[l].left =>
          call[l].left - call[l].units + UnitsOf(RowsOn(call[l].todo))
              =< SumOver(Units, call[l].todo)
    /\ call[l].pc # "short"

InOrder(l) == Covered(l) /\ Collecting(l) /\ Withdrawing(l) /\ (Enough(l) \/ Expired(l))

SerialInv == Typed /\ Alone /\ NeverOverTaken /\ \A l \in Leaves : InOrder(l)

\* Nothing is asked, reserved or promised at the start
LEMMA SerialInit == Init => SerialInv
  <1>. SUFFICES ASSUME Init PROVE SerialInv
    OBVIOUS
  <1>1. Typed
    BY TypesInit
  <1>2. Alone
    BY DEF Init, Alone, Resting, Rests
  <1>3. NeverOverTaken
    <2>1. \A a \in Accruals : RowsOf(a) = {}
      BY DEF Init, RowsOf, ReservedStatuses, Reserved, NoRow
    <2>2. \A a \in Accruals : Units[a] \in Nat
      BY CompOffAssumption
    <2>. QED BY <2>1, <2>2, InNone, UnitsOfIsIn DEF NeverOverTaken, Held
  <1>4. ASSUME NEW l \in Leaves PROVE InOrder(l)
    BY DEF Init, InOrder, Covered, Collecting, Withdrawing, Enough
  <1>. QED BY <1>1, <1>2, <1>3, <1>4 DEF SerialInv

\* The sums in the next state are those of this one where the rows are the same
LEMMA RowsStay ==
    ASSUME row' = row
    PROVE  /\ \A a : Held(a)' = Held(a)
           /\ \A l, s : Collected(l, s)' = Collected(l, s)
  BY DEF Held, UnitsOf, RowsOf, Collected, MineIn

\* and what a request has collected where its own are
LEMMA CollectedStays ==
    ASSUME NEW l, \A a \in Accruals : row'[<<l, a>>] = row[<<l, a>>], NEW s
    PROVE  Collected(l, s)' = Collected(l, s)
  <1>1. \A p \in {l} \X Accruals : row'[p] = row[p]
    OBVIOUS
  <1>2. MineIn(l, s)' = MineIn(l, s)
    BY <1>1 DEF MineIn
  <1>3. \A p \in MineIn(l, s) : row'[p].units = row[p].units
    BY <1>1 DEF MineIn
  <1>4. UnitsIn(row', MineIn(l, s)) = UnitsIn(row, MineIn(l, s))
    BY <1>3, InSame
  <1>. QED BY <1>2, <1>4 DEF Collected, UnitsOf, UnitsIn

\* A request whose call rests, and that a step leaves alone, stays in order
LEMMA RestingStays ==
    ASSUME SerialInv, NEW m \in Leaves, Resting(m),
           call'[m] = call[m], leave'[m] = leave[m], run'[m] = run[m],
           \A a \in Accruals : row'[<<m, a>>] = row[<<m, a>>],
           granted' = granted, today' = today
    PROVE  InOrder(m)' /\ Resting(m)'
  <1>1. \A s : Collected(m, s)' = Collected(m, s)
    BY CollectedStays
  <1>2. Covered(m)'
    BY <1>1 DEF SerialInv, InOrder, Covered, Unanswered
  <1>3. call'[m].pc \in Rests
    BY DEF Resting
  <1>4. Collecting(m)' /\ Withdrawing(m)'
    BY <1>3 DEF Rests, Collecting, Withdrawing
  <1>5. (Enough(m) \/ Expired(m))'
    <2>1. CASE call[m].pc = "short"
      BY <2>1 DEF SerialInv, InOrder, Enough, Expired
    <2>2. CASE call[m].pc # "short"
      BY <1>3, <2>2 DEF Rests, Enough
    <2>. QED BY <2>1, <2>2
  <1>. QED BY <1>2, <1>3, <1>4, <1>5 DEF InOrder, Resting

\* Where one request moves while the others rest, that one and the accruals are all
\* there is to look at
LEMMA OneMoves ==
    ASSUME SerialInv, [Next]_vars, NEW l \in Leaves,
           \A m \in Leaves \ {l} :
               /\ Resting(m) /\ call'[m] = call[m] /\ leave'[m] = leave[m] /\ run'[m] = run[m]
               /\ \A a \in Accruals : row'[<<m, a>>] = row[<<m, a>>],
           granted' = granted, today' = today,
           NeverOverTaken', InOrder(l)'
    PROVE  SerialInv'
  <1>1. \A m \in Leaves \ {l} : InOrder(m)' /\ Resting(m)'
    BY RestingStays
  <1>2. Typed'
    BY TypesKept DEF SerialInv
  <1>3. Alone'
    BY <1>1 DEF Alone
  <1>. QED BY <1>1, <1>2, <1>3 DEF SerialInv

\* While a call is under way the others rest
LEMMA OthersRest ==
    ASSUME SerialInv, NEW l \in Leaves, ~Resting(l)
    PROVE  \A m \in Leaves \ {l} : Resting(m)
  BY DEF SerialInv, Alone

\* A step of the call on l that leaves the rows alone
LEMMA RowsAlone ==
    ASSUME Serial, SerialInv, [Next]_vars, NEW l \in Leaves, ~Resting(l) \/ Starts(l), NEW c,
           Moves(l, c),
           \A m \in Leaves \ {l} : leave'[m] = leave[m] /\ run'[m] = run[m],
           row' = row, granted' = granted, today' = today, InOrder(l)'
    PROVE  SerialInv'
  <1>1. \A m \in Leaves \ {l} : Resting(m)
    BY OthersRest DEF Starts, Quiet
  <1>2. \A m \in Leaves \ {l} : call'[m] = call[m]
    BY DEF SerialInv, Typed, TypeOK, Moves
  <1>3. NeverOverTaken'
    BY RowsStay DEF SerialInv, NeverOverTaken
  <1>. QED BY <1>1, <1>2, <1>3, OneMoves

\* A call that moves on is where it moved to
LEMMA Moved ==
    ASSUME SerialInv, NEW l \in Leaves, NEW c, Moves(l, c)
    PROVE  call'[l] = c
  BY DEF SerialInv, Typed, TypeOK, Moves

\* What is known of the sums of this state
LEMMA SumsAreNat ==
    ASSUME SerialInv
    PROVE  /\ \A S \in SUBSET Accruals :
                  /\ IsFiniteSet(S) /\ SumOver(Units, S) \in Nat
                  /\ UnitsOf(RowsOn(S)) \in Nat /\ IsFiniteSet(RowsOn(S))
           /\ \A l \in Leaves : \A s : Collected(l, s) \in Nat
           /\ \A a \in Accruals : Held(a) \in Nat /\ Units[a] \in Nat
           /\ \A P \in SUBSET (Leaves \X Accruals) :
                  IsFiniteSet(P) /\ \A p \in P : row[p].units \in Nat
  <1>. TypeOK
    BY DEF SerialInv, Typed
  <1>1. ASSUME NEW S \in SUBSET Accruals
        PROVE  /\ IsFiniteSet(S) /\ SumOver(Units, S) \in Nat
               /\ UnitsOf(RowsOn(S)) \in Nat /\ IsFiniteSet(RowsOn(S))
    <2>1. IsFiniteSet(S)
      BY FS_Subset, CompOffAssumption
    <2>2. \A a \in S : Units[a] \in Nat
      BY CompOffAssumption
    <2>3. RowsOn(S) \in SUBSET (Leaves \X Accruals)
      BY DEF RowsOn, RowsOf
    <2>. QED BY <2>1, <2>2, <2>3, SumIsNat, RowsAreFinite
  <1>2. ASSUME NEW l \in Leaves, NEW s PROVE Collected(l, s) \in Nat
    <2>1. MineIn(l, s) \in SUBSET (Leaves \X Accruals)
      BY DEF MineIn
    <2>. QED BY <2>1, RowsAreFinite DEF Collected
  <1>3. ASSUME NEW a \in Accruals PROVE Held(a) \in Nat /\ Units[a] \in Nat
    BY HeldIsNat
  <1>. QED BY <1>1, <1>2, <1>3, RowsAreFinite

\* What is validated is available: the promise starts out kept
LEMMA ValidateOrder ==
    ASSUME Serial, SerialInv, NEW l \in Leaves, Validate(l)
    PROVE  SerialInv'
  <1>1. call'[l] = [pc |-> "valid", day |-> today]
    BY Moved DEF Validate
  <1>2. Promised(l)' = Usable
    BY <1>1 DEF Promised, Usable, Validate
  <1>3. Asked[l] + UnitsOf(RowsOn(Accruals)) =< SumOver(Units, Usable)
    <2>1. Usable \in SUBSET Accruals
      BY DEF SerialInv, Typed, TypeOK, Usable
    <2>2. SumOver(Units, Usable) \in Nat /\ UnitsOf(RowsOn(Accruals)) \in Nat
      BY <2>1, SumsAreNat
    <2>3. Asked[l] \in Nat \ {0}
      BY CompOffAssumption
    <2>4. Asked[l] =< IF SumOver(Units, Usable) > UnitsOf(RowsOn(Accruals))
                      THEN SumOver(Units, Usable) - UnitsOf(RowsOn(Accruals)) ELSE 0
      BY DEF Validate, Available, RowsOn
    <2>. QED BY <2>2, <2>3, <2>4
  <1>4. UnitsOf(RowsOn(Accruals))' = UnitsOf(RowsOn(Accruals))
    BY DEF UnitsOf, RowsOn, RowsOf, Validate
  <1>5. Enough(l)'
    BY <1>1, <1>2, <1>3, <1>4 DEF Enough
  <1>6. Covered(l)'
    BY RowsStay DEF SerialInv, InOrder, Covered, Unanswered, Validate
  <1>7. Collecting(l)' /\ Withdrawing(l)'
    BY <1>1 DEF Collecting, Withdrawing, Validate
  <1>8. InOrder(l)'
    BY <1>5, <1>6, <1>7 DEF InOrder
  <1>9. [Next]_vars
    BY DEF Next
  <1>. QED BY <1>8, <1>9, RowsAlone DEF Validate

\* The loop starts on all that may still be drawn on, which is what was promised unless some
\* of it has expired
LEMMA FileOrder ==
    ASSUME Serial, SerialInv, NEW l \in Leaves, File(l)
    PROVE  SerialInv'
  <1>1. call'[l] = [pc |-> "reserve", day |-> call[l].day, todo |-> Usable, left |-> Asked[l]]
    BY Moved DEF File
  <1>2. leave[l] = "NONE" /\ run[l] = "NONE" /\ \A a \in Accruals : row[<<l, a>>] = NoRow
    BY DEF SerialInv, InOrder, Withdrawing, Covered, File
  <1>3. leave'[l] = "PENDING" /\ \A m \in Leaves \ {l} : leave'[m] = leave[m]
    BY DEF SerialInv, Typed, TypeOK, File
  <1>4. Usable \in SUBSET Accruals
    BY DEF SerialInv, Typed, TypeOK, Usable
  <1>5. Covered(l)'
    BY <1>2, <1>3 DEF Covered, File
  <1>6. Collected(l, "PENDING")' = 0
    <2>1. MineIn(l, "PENDING") = {}
      BY <1>2 DEF MineIn, NoRow
    <2>2. Collected(l, "PENDING") = 0
      BY <2>1, InNone, UnitsOfIsIn DEF Collected
    <2>. QED BY <2>2, RowsStay DEF File
  <1>7. Collecting(l)'
    <2>1. Asked[l] \in Nat \ {0}
      BY CompOffAssumption
    <2>2. Asked[l] > 0 /\ Asked[l] = Asked[l] + 0
      BY <2>1
    <2>3. Unanswered(l)'
      BY <1>2 DEF Unanswered, NoRow, File
    <2>4. \A a \in Usable : row'[<<l, a>>] = NoRow
      BY <1>2, <1>4 DEF File
    <2>5. run'[l] = "NONE"
      BY <1>2 DEF File
    <2>. QED BY <1>1, <1>3, <1>6, <2>2, <2>3, <2>4, <2>5 DEF Collecting
  <1>8. Withdrawing(l)'
    BY <1>1 DEF Withdrawing
  <1>9. (Enough(l) \/ Expired(l))'
    <2>1. CASE Expired(l)
      BY <1>1, <2>1 DEF Expired, File
    <2>2. CASE ~Expired(l)
      <3>1. Enough(l)
        BY <2>2 DEF SerialInv, InOrder
      <3>2. Promised(l) \subseteq Usable
        <4>1. \A a \in granted : Expires[a] \in Nat
          BY CompOffAssumption DEF SerialInv, Typed, TypeOK
        <4>2. today \in Nat
          BY DEF SerialInv, Typed, TypeOK
        <4>. QED BY <2>2, <4>1, <4>2 DEF Usable, Promised, Expired
      <3>3. SumOver(Units, Promised(l)) =< SumOver(Units, Usable)
        <4>1. IsFiniteSet(Usable)
          BY <1>4, SumsAreNat
        <4>2. \A a \in Usable : Units[a] \in Nat /\ Units[a] =< Units[a]
          BY <1>4, CompOffAssumption
        <4>. QED BY <3>2, <4>1, <4>2, SumGrows
      <3>4. UnitsOf(RowsOn(Usable)) =< UnitsOf(RowsOn(Accruals))
        <4>1. RowsOn(Usable) \subseteq RowsOn(Accruals)
          BY <1>4 DEF RowsOn
        <4>2. RowsOn(Accruals) \in SUBSET (Leaves \X Accruals)
          BY DEF RowsOn, RowsOf
        <4>3. IsFiniteSet(RowsOn(Accruals)) /\ \A p \in RowsOn(Accruals) : row[p].units \in Nat
          BY <4>2, SumsAreNat
        <4>. QED BY <4>1, <4>3, InGrows, UnitsOfIsIn
      <3>6. Asked[l] + UnitsOf(RowsOn(Accruals)) =< SumOver(Units, Promised(l))
        BY <3>1 DEF Enough, File
      <3>7. Asked[l] + UnitsOf(RowsOn(Usable)) =< SumOver(Units, Usable)
        <4>1. Promised(l) \in SUBSET Accruals
          BY <3>2, <1>4
        <4>2. /\ SumOver(Units, Promised(l)) \in Nat /\ SumOver(Units, Usable) \in Nat
              /\ UnitsOf(RowsOn(Usable)) \in Nat /\ UnitsOf(RowsOn(Accruals)) \in Nat
          BY <1>4, <4>1, SumsAreNat
        <4>3. Asked[l] \in Nat
          BY CompOffAssumption
        <4>. QED BY <3>3, <3>4, <3>6, <4>2, <4>3
      <3>8. UnitsOf(RowsOn(call[l].todo))' = UnitsOf(RowsOn(Usable))
        BY <1>1 DEF UnitsOf, RowsOn, RowsOf, File
      <3>. QED BY <1>1, <3>7, <3>8 DEF Enough
    <2>. QED BY <2>1, <2>2
  <1>10. [Next]_vars
    BY DEF Next
  <1>11. ~Resting(l)
    BY DEF Resting, Rests, File
  <1>12. InOrder(l)'
    BY <1>5, <1>7, <1>8, <1>9 DEF InOrder
  <1>. QED BY <1>3, <1>10, <1>11, <1>12, RowsAlone DEF File

\* A turn of the loop passes an accrual with nothing left, or takes all it has left or all
\* that is still to be found: what is left to find stays free on the others
LEMMA LookOrder ==
    ASSUME Serial, SerialInv, NEW l \in Leaves, Look(l)
    PROVE  SerialInv'
  <1>. PICK a : a = Min(call[l].todo)
    OBVIOUS
  <1>. PICK rest : rest = call[l].todo \ {a}
    OBVIOUS
  <1>. PICK u : u = Min({call[l].left, Left(a)})
    OBVIOUS
  <1>1. /\ call[l].pc = "reserve" /\ call[l].todo \in SUBSET Accruals /\ call[l].left \in Nat
        /\ call[l].todo # {}
    BY CallIs DEF SerialInv, Typed, Look
  <1>2. a \in call[l].todo /\ a \in Accruals
    BY <1>1, FirstOf, CompOffAssumption
  <1>3. Held(a) \in Nat /\ Units[a] \in Nat /\ Left(a) \in Nat
    BY <1>2, HeldIsNat DEF SerialInv, Typed
  <1>4. u \in Nat /\ u \in {call[l].left, Left(a)} /\ u =< call[l].left /\ u =< Left(a)
    BY <1>1, <1>3, LesserOf
  <1>5. IF Left(a) = 0
        THEN call'[l] = [pc |-> "reserve", day |-> call[l].day, todo |-> rest, left |-> call[l].left]
        ELSE call'[l] = [pc |-> "take", day |-> call[l].day, todo |-> rest,
                         left |-> call[l].left, from |-> a, units |-> u]
    BY DEF Look, SerialInv, Typed, TypeOK, Moves
  <1>6. rest \in SUBSET Accruals /\ rest \in SUBSET call[l].todo /\ a \notin rest
        /\ call[l].todo = rest \cup {a}
    BY <1>1, <1>2
  <1>7. /\ leave' = leave /\ run' = run /\ row' = row /\ granted' = granted /\ today' = today
    BY DEF Look
  <1>8. Covered(l)'
    BY <1>7, RowsStay DEF SerialInv, InOrder, Covered, Unanswered
  <1>9. Collecting(l)'
    <2>1. /\ leave[l] = "PENDING" /\ run[l] = "NONE" /\ Unanswered(l)
          /\ call[l].left > 0 /\ Asked[l] = call[l].left + Collected(l, "PENDING")
          /\ \A b \in call[l].todo : row[<<l, b>>] = NoRow
      BY <1>1 DEF SerialInv, InOrder, Collecting
    <2>2. Unanswered(l)' /\ Collected(l, "PENDING")' = Collected(l, "PENDING") /\ Held(a)' = Held(a)
      BY <2>1, <1>7, RowsStay DEF Unanswered
    <2>3. row[<<l, a>>] = NoRow /\ \A b \in rest : row[<<l, b>>] = NoRow
      BY <2>1, <1>2, <1>6
    <2>4. CASE Left(a) = 0
      BY <1>5, <1>7, <2>1, <2>2, <2>3, <2>4 DEF Collecting
    <2>5. CASE Left(a) # 0
      <3>1. Held(a) + u =< Units[a]
        BY <1>3, <1>4, <2>5 DEF Left
      <3>2. Held(call[l].from)' = Held(a)
        BY <1>5, <1>7, <2>5 DEF Held, UnitsOf, RowsOf
      <3>3. call'[l] = [pc |-> "take", day |-> call[l].day, todo |-> rest,
                        left |-> call[l].left, from |-> a, units |-> u]
        BY <1>5, <2>5
      <3>4. call'[l].pc = "take" /\ call'[l].todo = rest /\ call'[l].left = call[l].left
            /\ call'[l].from = a /\ call'[l].units = u
        BY <3>3
      <3>5. row'[<<l, call'[l].from>>] = NoRow /\ call'[l].from \notin call'[l].todo
        BY <1>6, <1>7, <2>3, <3>4
      <3>6. Held(call[l].from)' + call'[l].units =< Units[call'[l].from]
        BY <3>1, <3>2, <3>4
      <3>. QED BY <1>7, <2>1, <2>2, <2>3, <3>4, <3>5, <3>6 DEF Collecting
    <2>. QED BY <2>4, <2>5
  <1>10. Withdrawing(l)'
    BY <1>5 DEF Withdrawing
  <1>11. (Enough(l) \/ Expired(l))'
    <2>1. CASE Expired(l)
      BY <1>5, <1>7, <2>1 DEF Expired
    <2>2. CASE ~Expired(l)
      <3>1. call[l].left + UnitsOf(RowsOn(call[l].todo)) =< SumOver(Units, call[l].todo)
        BY <1>1, <2>2 DEF SerialInv, InOrder, Enough
      <3>2. SumOver(Units, call[l].todo) = SumOver(Units, rest) + Units[a]
        <4>1. IsFiniteSet(rest) /\ IsFiniteSet({a}) /\ rest \cap {a} = {}
          BY <1>6, SumsAreNat, FS_Singleton
        <4>2. \A b \in rest \cup {a} : Units[b] \in Nat
          BY <1>2, <1>6, CompOffAssumption
        <4>3. SumOver(Units, rest \cup {a}) = SumOver(Units, rest) + SumOver(Units, {a})
          BY <4>1, <4>2, SumJoins
        <4>4. SumOver(Units, {a}) = Units[a]
          BY <1>3, SumOfOne
        <4>. QED BY <1>6, <4>3, <4>4
      <3>3. UnitsOf(RowsOn(call[l].todo)) = UnitsOf(RowsOn(rest)) + Held(a)
        <4>1. RowsOn(call[l].todo) = RowsOn(rest) \cup RowsOf(a)
          BY <1>6 DEF RowsOn
        <4>2. RowsOn(rest) \cap RowsOf(a) = {}
          <5>1. \A b \in rest : \A p \in RowsOf(b) : p[2] = b
            BY DEF RowsOf
          <5>2. \A p \in RowsOn(rest) : p[2] \in rest
            BY <5>1 DEF RowsOn
          <5>3. \A p \in RowsOf(a) : p[2] = a
            BY DEF RowsOf
          <5>. QED BY <1>6, <5>2, <5>3
        <4>3. RowsOn(rest) \in SUBSET (Leaves \X Accruals) /\ RowsOf(a) \in SUBSET (Leaves \X Accruals)
          BY <1>2, <1>6 DEF RowsOn, RowsOf
        <4>4. /\ IsFiniteSet(RowsOn(rest)) /\ IsFiniteSet(RowsOf(a))
              /\ \A p \in RowsOn(rest) \cup RowsOf(a) : row[p].units \in Nat
          BY <4>3, SumsAreNat
        <4>5. UnitsIn(row, RowsOn(rest) \cup RowsOf(a))
                  = UnitsIn(row, RowsOn(rest)) + UnitsIn(row, RowsOf(a))
          BY <4>2, <4>4, InJoins
        <4>. QED BY <4>1, <4>5, UnitsOfIsIn DEF Held
      <3>4. /\ UnitsOf(RowsOn(rest)) \in Nat /\ SumOver(Units, rest) \in Nat
        BY <1>6, SumsAreNat
      <3>5. UnitsOf(RowsOn(call[l].todo))' = UnitsOf(RowsOn(rest))
        BY <1>5, <1>7 DEF UnitsOf, RowsOn, RowsOf
      <3>6. CASE Left(a) = 0
        <4>1. Units[a] =< Held(a)
          BY <1>3, <3>6 DEF Left
        <4>2. call[l].left + UnitsOf(RowsOn(rest)) =< SumOver(Units, rest)
          BY <1>1, <1>3, <3>1, <3>2, <3>3, <3>4, <4>1
        <4>. QED BY <1>5, <3>5, <3>6, <4>2 DEF Enough
      <3>7. CASE Left(a) # 0
        <4>1. Left(a) = Units[a] - Held(a)
          BY <3>7 DEF Left
        <4>2. u # call[l].left =>
                  call[l].left - u + UnitsOf(RowsOn(rest)) =< SumOver(Units, rest)
          BY <1>1, <1>3, <1>4, <3>1, <3>2, <3>3, <3>4, <4>1
        <4>. QED BY <1>5, <3>5, <3>7, <4>2 DEF Enough
      <3>. QED BY <3>6, <3>7
    <2>. QED BY <2>1, <2>2
  <1>12. InOrder(l)'
    BY <1>8, <1>9, <1>10, <1>11 DEF InOrder
  <1>13. [Next]_vars /\ ~Resting(l)
    BY <1>1 DEF Next, Resting, Rests
  <1>14. \E c : Moves(l, c)
    BY DEF Look
  <1>. QED BY <1>7, <1>12, <1>13, <1>14, RowsAlone

\* A row takes what its accrual has left, and the request is nearer by as much to what it
\* asks for
LEMMA TakeOrder ==
    ASSUME Serial, SerialInv, NEW l \in Leaves, Take(l)
    PROVE  SerialInv'
  <1>. PICK a : a = call[l].from
    OBVIOUS
  <1>. PICK u : u = call[l].units
    OBVIOUS
  <1>. PICK left : left = call[l].left
    OBVIOUS
  <1>. PICK todo : todo = call[l].todo
    OBVIOUS
  <1>1. /\ call[l].pc = "take" /\ todo \in SUBSET Accruals /\ left \in Nat
        /\ a \in Accruals /\ u \in Nat /\ u =< left /\ call[l].day \in Nat
    BY CallIs DEF SerialInv, Typed, WithinLeft, Take
  <1>2. /\ leave[l] = "PENDING" /\ run[l] = "NONE" /\ Unanswered(l)
        /\ left > 0 /\ Asked[l] = left + Collected(l, "PENDING")
        /\ \A b \in todo : row[<<l, b>>] = NoRow
        /\ row[<<l, a>>] = NoRow /\ a \notin todo /\ Held(a) + u =< Units[a]
    BY <1>1 DEF SerialInv, InOrder, Collecting
  <1>3. /\ leave' = leave /\ run' = run /\ granted' = granted /\ today' = today
    BY DEF Take
  <1>4. /\ row'[<<l, a>>] = [units |-> u, status |-> "PENDING"]
        /\ \A p \in Leaves \X Accruals : p # <<l, a>> => row'[p] = row[p]
    BY <1>1 DEF SerialInv, Typed, TypeOK, Take
  <1>5. row'[<<l, a>>].units = u /\ row'[<<l, a>>].status = "PENDING"
    BY <1>4
  <1>6. row[<<l, a>>].status = "NONE"
    BY <1>2 DEF NoRow
  <1>7. /\ left - u = 0 => call'[l].pc = "reserved"
        /\ left - u # 0 => call'[l] = [pc |-> "reserve", day |-> call[l].day,
                                       todo |-> todo, left |-> left - u]
    BY DEF SerialInv, Typed, TypeOK, Take, Moves, At
  \* the accrual it takes from has one row more, the others are as they were
  <1>8. ASSUME NEW P \in SUBSET (Leaves \X Accruals), <<l, a>> \notin P
        PROVE  /\ UnitsIn(row', P) = UnitsIn(row, P)
               /\ UnitsIn(row', P \cup {<<l, a>>}) = UnitsIn(row, P) + u
    <2>1. \A p \in P : row'[p].units = row[p].units
      BY <1>4, <1>8
    <2>2. UnitsIn(row', P) = UnitsIn(row, P)
      BY <2>1, InSame
    <2>3. IsFiniteSet(P) /\ IsFiniteSet({<<l, a>>}) /\ P \cap {<<l, a>>} = {}
      BY <1>8, SumsAreNat, FS_Singleton
    <2>4. \A p \in P : row'[p].units \in Nat
      BY <2>1, SumsAreNat
    <2>5. \A p \in P \cup {<<l, a>>} : row'[p].units \in Nat
      BY <1>1, <1>5, <2>4
    <2>6. UnitsIn(row', P \cup {<<l, a>>}) = UnitsIn(row', P) + UnitsIn(row', {<<l, a>>})
      BY <2>3, <2>5, InJoins
    <2>7. UnitsIn(row', {<<l, a>>}) = u
      BY <1>1, <1>5, InOne
    <2>. QED BY <2>2, <2>6, <2>7
  <1>9. \A b \in Accruals : b # a => RowsOf(b)' = RowsOf(b) /\ Held(b)' = Held(b)
    <2>1. ASSUME NEW b \in Accruals, b # a PROVE RowsOf(b)' = RowsOf(b) /\ Held(b)' = Held(b)
      <3>1. \A p \in Leaves \X {b} : row'[p] = row[p]
        BY <1>4, <2>1
      <3>2. RowsOf(b)' = RowsOf(b)
        BY <3>1 DEF RowsOf, ReservedStatuses, Reserved
      <3>3. RowsOf(b) \in SUBSET (Leaves \X Accruals) /\ <<l, a>> \notin RowsOf(b)
        BY <2>1 DEF RowsOf
      <3>4. UnitsIn(row', RowsOf(b)) = UnitsIn(row, RowsOf(b))
        BY <1>8, <3>3
      <3>. QED BY <3>2, <3>4 DEF Held, UnitsOf, UnitsIn
    <2>. QED BY <2>1
  <1>10. Held(a)' = Held(a) + u
    <2>1. RowsOf(a)' = RowsOf(a) \cup {<<l, a>>}
      <3>1. \A p \in Leaves \X {a} : p # <<l, a>> => row'[p] = row[p]
        BY <1>1, <1>4
      <3>2. <<l, a>> \in RowsOf(a)'
        BY <1>5 DEF RowsOf, ReservedStatuses, Reserved
      <3>. QED BY <3>1, <3>2 DEF RowsOf, ReservedStatuses, Reserved
    <2>2. RowsOf(a) \in SUBSET (Leaves \X Accruals) /\ <<l, a>> \notin RowsOf(a)
      BY <1>1, <1>6 DEF RowsOf, ReservedStatuses, Reserved
    <2>3. UnitsIn(row', RowsOf(a) \cup {<<l, a>>}) = UnitsIn(row, RowsOf(a)) + u
      BY <1>8, <2>2
    <2>. QED BY <2>1, <2>3 DEF Held, UnitsOf, UnitsIn
  <1>11. NeverOverTaken'
    BY <1>2, <1>9, <1>10 DEF SerialInv, NeverOverTaken
  <1>12. Collected(l, "PENDING")' = Collected(l, "PENDING") + u
    <2>1. MineIn(l, "PENDING")' = MineIn(l, "PENDING") \cup {<<l, a>>}
      BY <1>1, <1>4, <1>5 DEF MineIn
    <2>2. MineIn(l, "PENDING") \in SUBSET (Leaves \X Accruals) /\ <<l, a>> \notin MineIn(l, "PENDING")
      BY <1>6 DEF MineIn
    <2>3. UnitsIn(row', MineIn(l, "PENDING") \cup {<<l, a>>}) = UnitsIn(row, MineIn(l, "PENDING")) + u
      BY <1>8, <2>2
    <2>. QED BY <2>1, <2>3 DEF Collected, UnitsOf, UnitsIn
  <1>13. Asked[l] = (left - u) + Collected(l, "PENDING")' /\ (left - u # 0 => left - u > 0)
    <2>1. Collected(l, "PENDING") \in Nat
      BY SumsAreNat
    <2>. QED BY <1>1, <1>2, <1>12, <2>1
  <1>14. Unanswered(l)' /\ \A b \in todo : row'[<<l, b>>] = NoRow
    BY <1>1, <1>2, <1>4, <1>5 DEF Unanswered
  <1>15. Covered(l)' /\ Withdrawing(l)'
    BY <1>2, <1>3, <1>7 DEF Covered, Withdrawing
  <1>16. Collecting(l)' /\ (Enough(l) \/ Expired(l))'
    <2>1. CASE left - u = 0
      <3>1. Asked[l] = Collected(l, "PENDING")'
        <4>1. Collected(l, "PENDING") \in Nat
          BY SumsAreNat
        <4>. QED BY <1>1, <1>2, <1>12, <2>1, <4>1
      <3>. QED BY <1>2, <1>3, <1>7, <1>14, <2>1, <3>1 DEF Collecting, Enough
    <2>2. CASE left - u # 0
      <3>1. /\ call'[l].pc = "reserve" /\ call'[l].todo = todo /\ call'[l].left = left - u
            /\ call'[l].day = call[l].day
        BY <1>7, <2>2
      <3>2. Collecting(l)'
        BY <1>2, <1>3, <1>13, <1>14, <2>2, <3>1 DEF Collecting
      <3>3. UnitsOf(RowsOn(call[l].todo))' = UnitsOf(RowsOn(todo))
        <4>1. RowsOn(todo)' = RowsOn(todo)
          BY <1>1, <1>2, <1>9 DEF RowsOn
        <4>2. RowsOn(todo) \in SUBSET (Leaves \X Accruals) /\ <<l, a>> \notin RowsOn(todo)
          BY <1>1, <1>2 DEF RowsOn, RowsOf
        <4>3. UnitsIn(row', RowsOn(todo)) = UnitsIn(row, RowsOn(todo))
          BY <1>8, <4>2
        <4>4. UnitsOf(RowsOn(todo))' = UnitsOf(RowsOn(todo))
          BY <4>1, <4>3 DEF UnitsOf, UnitsIn
        <4>. QED BY <3>1, <4>4 DEF RowsOn, RowsOf
      <3>4. CASE Expired(l)
        BY <1>3, <3>1, <3>2, <3>4 DEF Expired
      <3>5. CASE ~Expired(l)
        <4>1. left - u + UnitsOf(RowsOn(todo)) =< SumOver(Units, todo)
          BY <1>1, <2>2, <3>5 DEF SerialInv, InOrder, Enough
        <4>. QED BY <3>1, <3>2, <3>3, <4>1 DEF Enough
      <3>. QED BY <3>4, <3>5
    <2>. QED BY <2>1, <2>2
  <1>17. ~Resting(l) /\ [Next]_vars
    BY <1>1 DEF Resting, Rests, Next
  <1>18. \A m \in Leaves \ {l} : call'[m] = call[m] /\ \A b \in Accruals : row'[<<m, b>>] = row[<<m, b>>]
    BY <1>4 DEF SerialInv, Typed, TypeOK, Take, Moves
  <1>19. InOrder(l)'
    BY <1>15, <1>16 DEF InOrder
  <1>20. \A m \in Leaves \ {l} : Resting(m)
    BY <1>17, OthersRest
  <1>. QED BY <1>3, <1>11, <1>17, <1>18, <1>19, <1>20, OneMoves

\* The loop ends short of units only when what was promised has expired since
LEMMA ComeShortOrder ==
    ASSUME Serial, SerialInv, NEW l \in Leaves, ComeShort(l)
    PROVE  SerialInv'
  <1>1. call'[l] = [pc |-> "short", day |-> call[l].day]
    BY Moved DEF ComeShort
  <1>2. ~Enough(l)
    <2>1. call[l].left \in Nat /\ call[l].left > 0
      BY CallIs DEF SerialInv, Typed, InOrder, Collecting, ComeShort
    <2>2. RowsOn({}) = {} /\ SumOver(Units, {}) = 0 /\ UnitsOf({}) = 0
      BY SumOfNone, InNone, UnitsOfIsIn DEF RowsOn
    <2>3. ~(call[l].left + 0 =< 0)
      BY <2>1
    <2>. QED BY <2>2, <2>3 DEF Enough, ComeShort
  <1>3. Expired(l)'
    BY <1>1, <1>2 DEF SerialInv, InOrder, Expired, ComeShort
  <1>4. Covered(l)'
    BY RowsStay DEF SerialInv, InOrder, Covered, Unanswered, ComeShort
  <1>5. Collecting(l)' /\ Withdrawing(l)'
    BY <1>1 DEF Collecting, Withdrawing
  <1>6. [Next]_vars /\ ~Resting(l)
    BY DEF Next, ComeShort, Resting, Rests
  <1>7. InOrder(l)'
    BY <1>3, <1>4, <1>5 DEF InOrder
  <1>. QED BY <1>6, <1>7, RowsAlone DEF ComeShort

\* The run opens on a request that has collected what it asks for
LEMMA OpenRunOrder ==
    ASSUME Serial, SerialInv, NEW l \in Leaves, OpenRun(l)
    PROVE  SerialInv'
  <1>1. call'[l] = At("idle")
    BY Moved DEF OpenRun
  <1>2. run'[l] = "PENDING" /\ \A m \in Leaves \ {l} : run'[m] = run[m]
    BY DEF SerialInv, Typed, TypeOK, OpenRun
  <1>3. leave[l] = "PENDING" /\ Unanswered(l) /\ Asked[l] = Collected(l, "PENDING")
    BY DEF SerialInv, InOrder, Collecting, OpenRun
  <1>4. Covered(l)'
    <2>1. Unanswered(l)' /\ Asked[l] = Collected(l, "PENDING")' /\ leave'[l] = "PENDING"
      BY <1>3, RowsStay DEF Unanswered, OpenRun
    <2>. QED BY <2>1 DEF Covered
  <1>5. Collecting(l)' /\ Withdrawing(l)' /\ Enough(l)'
    BY <1>1 DEF At, Collecting, Withdrawing, Enough
  <1>6. [Next]_vars /\ ~Resting(l)
    BY DEF Next, OpenRun, Resting, Rests
  <1>7. InOrder(l)'
    BY <1>4, <1>5 DEF InOrder
  <1>. QED BY <1>2, <1>6, <1>7, RowsAlone DEF OpenRun

\* A call that stops leaves what it has done so far
LEMMA StopOrder ==
    ASSUME Serial, SerialInv, NEW l \in Leaves, Stop(l)
    PROVE  SerialInv'
  <1>1. call'[l] = At("stopped")
    BY Moved DEF Stop
  <1>2. Covered(l)'
    BY RowsStay DEF SerialInv, InOrder, Covered, Unanswered, Stop
  <1>3. Collecting(l)' /\ Withdrawing(l)' /\ Enough(l)'
    BY <1>1 DEF At, Collecting, Withdrawing, Enough
  <1>4. [Next]_vars /\ ~Resting(l)
    BY DEF Next, Stop
  <1>5. InOrder(l)'
    BY <1>2, <1>3 DEF InOrder
  <1>. QED BY <1>4, <1>5, RowsAlone DEF Stop

\* A request marked withdrawn is no longer approved,
LEMMA MarkOrder ==
    ASSUME Serial, SerialInv, NEW l \in Leaves, MarkWithdrawn(l)
    PROVE  SerialInv'
  <1>1. call'[l] = At("marked")
    BY Moved DEF MarkWithdrawn
  <1>2. leave'[l] = "WITHDRAWN" /\ \A m \in Leaves \ {l} : leave'[m] = leave[m]
    BY DEF SerialInv, Typed, TypeOK, MarkWithdrawn
  <1>3. Covered(l)'
    <2>1. run[l] = "PENDING" => Unanswered(l) /\ Asked[l] = Collected(l, "PENDING")
      BY DEF SerialInv, InOrder, Covered
    <2>. QED BY <1>2, <2>1, RowsStay DEF Covered, Unanswered, MarkWithdrawn
  <1>4. Collecting(l)' /\ Withdrawing(l)' /\ Enough(l)'
    BY <1>1, <1>2 DEF At, Collecting, Withdrawing, Enough
  <1>5. [Next]_vars
    BY DEF Next
  <1>6. InOrder(l)'
    BY <1>3, <1>4 DEF InOrder
  <1>. QED BY <1>2, <1>5, <1>6, RowsAlone DEF MarkWithdrawn

\* and the run a withdrawal finds stays as it was found
LEMMA FindRunOrder ==
    ASSUME Serial, SerialInv, NEW l \in Leaves, FindRun(l)
    PROVE  SerialInv'
  <1>1. call'[l] = [pc |-> "found", day |-> 0, seen |-> run[l]]
    BY Moved DEF FindRun
  <1>2. Covered(l)'
    BY RowsStay DEF SerialInv, InOrder, Covered, Unanswered, FindRun
  <1>3. leave[l] = "WITHDRAWN"
    BY DEF SerialInv, InOrder, Withdrawing, FindRun
  <1>4. Collecting(l)' /\ Withdrawing(l)' /\ Enough(l)'
    BY <1>1, <1>3 DEF Collecting, Withdrawing, Enough, FindRun
  <1>5. [Next]_vars /\ ~Resting(l)
    BY DEF Next, FindRun, Resting, Rests
  <1>6. InOrder(l)'
    BY <1>2, <1>4 DEF InOrder
  <1>. QED BY <1>5, <1>6, RowsAlone DEF FindRun

\* Rows that follow their request reserve no more than they did: an approval finds
\* them all unanswered, and the other ways it ends give them back
LEMMA SyncTakesNoMore ==
    ASSUME SerialInv, NEW l \in Leaves, NEW s \in {"APPROVED", "REJECTED", "WITHDRAWN"},
           s = "APPROVED" => Unanswered(l), row' = Sync(l, s)
    PROVE  NeverOverTaken'
  <1>1. \A p \in Leaves \X Accruals : row'[p].units = row[p].units
    BY DEF Sync
  <1>2. ASSUME NEW a \in Accruals, NEW p \in RowsOf(a)'
        PROVE  p \in RowsOf(a)
    <2>1. p \in Leaves \X {a} /\ p \in Leaves \X Accruals /\ row'[p].status \in Reserved
      BY DEF RowsOf, ReservedStatuses
    <2>2. CASE p[1] # l \/ row[p].status = "NONE"
      BY <2>1, <2>2 DEF RowsOf, ReservedStatuses, Sync
    <2>3. CASE p[1] = l /\ row[p].status # "NONE"
      <3>1. row'[p].status = RowStatusFor(s)
        BY <2>1, <2>3 DEF Sync
      <3>2. s = "APPROVED"
        BY <2>1, <3>1 DEF RowStatusFor, Reserved
      <3>3. p = <<l, a>>
        BY <2>1, <2>3
      <3>4. row[p].status = "PENDING"
        BY <2>3, <3>2, <3>3 DEF Unanswered
      <3>. QED BY <2>1, <3>4 DEF RowsOf, ReservedStatuses, Reserved
    <2>. QED BY <2>2, <2>3
  <1>3. ASSUME NEW a \in Accruals PROVE Held(a)' =< Units[a]
    <2>1. RowsOf(a)' \subseteq RowsOf(a)
      BY <1>2
    <2>2. RowsOf(a) \in SUBSET (Leaves \X Accruals)
      BY DEF RowsOf
    <2>3. /\ IsFiniteSet(RowsOf(a)) /\ \A p \in RowsOf(a) : row[p].units \in Nat
      BY <2>2, SumsAreNat
    <2>4. \A p \in RowsOf(a)' : row'[p].units = row[p].units
      BY <1>1, <2>1, <2>2
    <2>5. UnitsIn(row', RowsOf(a)') =< UnitsIn(row, RowsOf(a))
      BY <2>1, <2>3, <2>4, InGrows
    <2>6. Held(a)' = UnitsIn(row', RowsOf(a)') /\ Held(a) = UnitsIn(row, RowsOf(a))
      BY DEF Held, UnitsOf, UnitsIn
    <2>7. IsFiniteSet(RowsOf(a)') /\ \A p \in RowsOf(a)' : row'[p].units \in Nat
      BY <2>1, <2>3, <2>4, FS_Subset
    <2>8. Held(a)' \in Nat
      BY <2>6, <2>7, InIsNat
    <2>9. Held(a) \in Nat /\ Units[a] \in Nat /\ Held(a) =< Units[a]
      BY SumsAreNat DEF SerialInv, NeverOverTaken
    <2>. QED BY <2>5, <2>6, <2>8, <2>9
  <1>. QED BY <1>3 DEF NeverOverTaken

\* An approval finds the rows that await it, and turns exactly these
LEMMA AnswerOrder ==
    ASSUME Serial, SerialInv, NEW l \in Leaves, NEW s \in {"APPROVED", "REJECTED"}, Answer(l, s)
    PROVE  SerialInv'
  <1>1. /\ run[l] = "PENDING" /\ Unanswered(l) /\ Asked[l] = Collected(l, "PENDING")
        /\ \A m \in Leaves : Resting(m)
    BY DEF SerialInv, InOrder, Covered, Answer, Quiet
  <1>2. /\ run'[l] = s /\ leave'[l] = s /\ call' = call /\ row' = Sync(l, s)
        /\ granted' = granted /\ today' = today
        /\ \A m \in Leaves \ {l} : run'[m] = run[m] /\ leave'[m] = leave[m]
    BY DEF SerialInv, Typed, TypeOK, Answer
  <1>3. NeverOverTaken'
    BY <1>1, <1>2, SyncTakesNoMore
  <1>4. s = "APPROVED" => Collected(l, "APPROVED")' = Collected(l, "PENDING")
    <2>. SUFFICES ASSUME s = "APPROVED"
                  PROVE  Collected(l, "APPROVED")' = Collected(l, "PENDING")
      OBVIOUS
    <2>1. \A p \in {l} \X Accruals : /\ row'[p].units = row[p].units
                                     /\ row'[p].status = "APPROVED" <=> row[p].status = "PENDING"
      <3>1. ASSUME NEW a \in Accruals
            PROVE  /\ row'[<<l, a>>].units = row[<<l, a>>].units
                   /\ row'[<<l, a>>].status = "APPROVED" <=> row[<<l, a>>].status = "PENDING"
        <4>1. row[<<l, a>>].status \in {"NONE", "PENDING"}
          BY <1>1 DEF Unanswered
        <4>. QED BY <1>2, <4>1 DEF Sync, RowStatusFor
      <3>. QED BY <3>1
    <2>2. MineIn(l, "APPROVED")' = MineIn(l, "PENDING")
      BY <2>1 DEF MineIn
    <2>3. \A p \in MineIn(l, "PENDING") : row'[p].units = row[p].units
      BY <2>1 DEF MineIn
    <2>4. UnitsIn(row', MineIn(l, "PENDING")) = UnitsIn(row, MineIn(l, "PENDING"))
      BY <2>3, InSame
    <2>. QED BY <2>2, <2>4 DEF Collected, UnitsOf, UnitsIn
  <1>5. Covered(l)'
    BY <1>1, <1>2, <1>4 DEF Covered
  <1>6. Collecting(l)' /\ Withdrawing(l)'
    BY <1>1, <1>2 DEF Resting, Rests, Collecting, Withdrawing
  <1>7. (Enough(l) \/ Expired(l))'
    <2>1. CASE call[l].pc = "short"
      BY <1>2, <2>1 DEF SerialInv, InOrder, Enough, Expired
    <2>2. CASE call[l].pc # "short"
      BY <1>1, <1>2, <2>2 DEF Resting, Rests, Enough
    <2>. QED BY <2>1, <2>2
  <1>8. \A m \in Leaves \ {l} : \A a \in Accruals : row'[<<m, a>>] = row[<<m, a>>]
    BY <1>2 DEF Sync
  <1>9. [Next]_vars
    BY DEF Next
  <1>10. InOrder(l)'
    BY <1>5, <1>6, <1>7 DEF InOrder
  <1>. QED BY <1>1, <1>2, <1>3, <1>8, <1>9, <1>10, OneMoves

\* A withdrawal cancels the run it found with its rows,
LEMMA CancelOrder ==
    ASSUME Serial, SerialInv, NEW l \in Leaves, CancelRun(l)
    PROVE  SerialInv'
  <1>1. call'[l] = At("settle")
    BY Moved DEF CancelRun
  <1>2. leave[l] = "WITHDRAWN" /\ call[l].seen = run[l]
    BY DEF SerialInv, InOrder, Withdrawing, CancelRun
  <1>3. [Next]_vars /\ ~Resting(l)
    BY DEF Next, CancelRun, Resting, Rests
  <1>4. leave'[l] = "WITHDRAWN" /\ run'[l] # "PENDING"
    BY <1>2 DEF SerialInv, Typed, TypeOK, CancelRun
  <1>5. \A m \in Leaves \ {l} : /\ leave'[m] = leave[m] /\ run'[m] = run[m] /\ call'[m] = call[m]
                                /\ \A a \in Accruals : row'[<<m, a>>] = row[<<m, a>>]
    <2>1. \A m \in Leaves \ {l} : leave'[m] = leave[m] /\ run'[m] = run[m] /\ call'[m] = call[m]
      BY DEF SerialInv, Typed, TypeOK, CancelRun, Moves
    <2>2. \A m \in Leaves \ {l} : \A a \in Accruals : row'[<<m, a>>] = row[<<m, a>>]
      BY DEF CancelRun, Sync
    <2>. QED BY <2>1, <2>2
  <1>6. NeverOverTaken'
    <2>1. CASE call[l].seen = "PENDING"
      BY <2>1, SyncTakesNoMore DEF CancelRun
    <2>2. CASE call[l].seen # "PENDING"
      BY <2>2, RowsStay DEF CancelRun, SerialInv, NeverOverTaken
    <2>. QED BY <2>1, <2>2
  <1>7. InOrder(l)'
    BY <1>1, <1>4 DEF At, InOrder, Covered, Collecting, Withdrawing, Enough
  <1>8. \A m \in Leaves \ {l} : Resting(m)
    BY <1>3, OthersRest
  <1>. QED BY <1>3, <1>5, <1>6, <1>7, <1>8, OneMoves DEF CancelRun

\* or gives the rows back itself
LEMMA GiveBackOrder ==
    ASSUME Serial, SerialInv, NEW l \in Leaves, GiveBack(l)
    PROVE  SerialInv'
  <1>1. call'[l] = At("withdrawn")
    BY Moved DEF GiveBack
  <1>2. leave[l] = "WITHDRAWN" /\ run[l] # "PENDING"
    BY DEF SerialInv, InOrder, Withdrawing, GiveBack
  <1>3. [Next]_vars /\ ~Resting(l)
    BY DEF Next, GiveBack, Resting, Rests
  <1>4. \A m \in Leaves \ {l} : /\ leave'[m] = leave[m] /\ run'[m] = run[m] /\ call'[m] = call[m]
                                /\ \A a \in Accruals : row'[<<m, a>>] = row[<<m, a>>]
    BY DEF SerialInv, Typed, TypeOK, GiveBack, Moves, Sync
  <1>5. NeverOverTaken'
    BY SyncTakesNoMore DEF GiveBack
  <1>6. InOrder(l)'
    BY <1>1, <1>2 DEF At, InOrder, Covered, Collecting, Withdrawing, Enough, GiveBack
  <1>7. \A m \in Leaves \ {l} : Resting(m)
    BY <1>3, OthersRest
  <1>. QED BY <1>3, <1>4, <1>5, <1>6, <1>7, OneMoves DEF GiveBack

\* A new accrual adds to what was promised, and a night takes nothing that has not
\* expired
LEMMA OutsideOrder ==
    ASSUME SerialInv, (\E a \in Accruals : Grant(a)) \/ Night \/ UNCHANGED vars
    PROVE  SerialInv'
  <1>1. /\ leave' = leave /\ row' = row /\ run' = run /\ call' = call
        /\ granted \subseteq granted' /\ today =< today'
    BY DEF SerialInv, Typed, TypeOK, Grant, Night, vars
  <1>2. Typed'
    BY TypesKept DEF SerialInv, Next
  <1>3. today \in Nat /\ today' \in Nat /\ granted' \subseteq Accruals
    BY <1>2 DEF SerialInv, Typed, TypeOK
  <1>4. Alone' /\ NeverOverTaken'
    BY <1>1, RowsStay DEF SerialInv, Alone, Resting, NeverOverTaken
  <1>5. ASSUME NEW l \in Leaves PROVE InOrder(l)'
    <2>1. Covered(l)' /\ Collecting(l)' /\ Withdrawing(l)'
      <3>1. Unanswered(l)' = Unanswered(l)
        BY <1>1 DEF Unanswered
      <3>2. Held(call[l].from)' = Held(call[l].from)
        BY <1>1 DEF Held, UnitsOf, RowsOf
      <3>. QED BY <1>1, <3>1, <3>2, RowsStay DEF SerialInv, InOrder, Covered, Collecting, Withdrawing
    <2>2. CASE Expired(l)
      <3>1. PICK a \in granted : Expires[a] >= call[l].day /\ Expires[a] < today
        BY <2>2 DEF Expired
      <3>2. Expires[a] \in Nat /\ a \in granted'
        BY <1>1, <1>3, CompOffAssumption
      <3>3. Expires[a] < today'
        BY <1>1, <1>3, <3>1, <3>2
      <3>4. Expired(l)'
        BY <1>1, <3>1, <3>2, <3>3 DEF Expired
      <3>. QED BY <2>1, <3>4 DEF InOrder
    <2>3. CASE ~Expired(l)
      <3>1. Enough(l)
        BY <2>3 DEF SerialInv, InOrder
      <3>2. SumOver(Units, Promised(l)) =< SumOver(Units, Promised(l)')
        <4>1. Promised(l) \subseteq Promised(l)' /\ Promised(l)' \in SUBSET Accruals
          BY <1>1, <1>3 DEF Promised
        <4>2. IsFiniteSet(Promised(l)')
          BY <4>1, FS_Subset, CompOffAssumption
        <4>3. \A a \in Accruals : Units[a] \in Nat /\ Units[a] =< Units[a]
          BY CompOffAssumption
        <4>. QED BY <4>1, <4>2, <4>3, SumGrows
      <3>3. /\ SumOver(Units, Promised(l)) \in Nat /\ SumOver(Units, Promised(l)') \in Nat
            /\ UnitsOf(RowsOn(Accruals)) \in Nat /\ Asked[l] \in Nat
        <4>1. Promised(l) \in SUBSET Accruals /\ Promised(l)' \in SUBSET Accruals
          BY <1>1, <1>3 DEF Promised
        <4>2. IsFiniteSet(Promised(l)') /\ \A a \in Promised(l)' : Units[a] \in Nat
          BY <4>1, FS_Subset, CompOffAssumption
        <4>. QED BY <4>1, <4>2, SumIsNat, SumsAreNat, CompOffAssumption
      <3>4. \A S : UnitsOf(RowsOn(S))' = UnitsOf(RowsOn(S))
        BY <1>1 DEF UnitsOf, RowsOn, RowsOf
      <3>5. UnitsOf(RowsOn(call[l].todo))' = UnitsOf(RowsOn(call[l].todo))
        BY <1>1 DEF UnitsOf, RowsOn, RowsOf
      <3>6. call[l].pc = "valid" =>
                Asked[l] + UnitsOf(RowsOn(Accruals))' =< SumOver(Units, Promised(l)')
        <4>1. call[l].pc = "valid" =>
                  Asked[l] + UnitsOf(RowsOn(Accruals)) =< SumOver(Units, Promised(l))
          BY <3>1 DEF Enough
        <4>. QED BY <3>2, <3>3, <3>4, <4>1
      <3>7. Enough(l)'
        BY <1>1, <3>1, <3>5, <3>6 DEF Enough
      <3>. QED BY <2>1, <3>7 DEF InOrder
    <2>. QED BY <2>2, <2>3
  <1>. QED BY <1>2, <1>4, <1>5 DEF SerialInv

\* Every step keeps requests served one after the other in order
LEMMA OrderKept ==
    ASSUME Serial
    PROVE  SerialInv /\ [Next]_vars => SerialInv'
  <1>. SUFFICES ASSUME SerialInv, [Next]_vars PROVE SerialInv'
    OBVIOUS
  <1>1. ASSUME NEW l \in Leaves,
               \/ Validate(l) \/ File(l) \/ Look(l) \/ Take(l) \/ ComeShort(l) \/ OpenRun(l)
               \/ Stop(l) \/ MarkWithdrawn(l) \/ FindRun(l) \/ CancelRun(l) \/ GiveBack(l)
        PROVE  SerialInv'
    BY <1>1, ValidateOrder, FileOrder, LookOrder, TakeOrder, ComeShortOrder, OpenRunOrder,
       StopOrder, MarkOrder, FindRunOrder, CancelOrder, GiveBackOrder
  <1>2. ASSUME NEW l \in Leaves, NEW s \in {"APPROVED", "REJECTED"}, Answer(l, s)
        PROVE  SerialInv'
    BY <1>2, AnswerOrder
  <1>3. CASE (\E a \in Accruals : Grant(a)) \/ Night \/ UNCHANGED vars
    BY <1>3, OutsideOrder
  <1>. QED BY <1>1, <1>2, <1>3 DEF Next

\* and so they always are
LEMMA AlwaysInOrder ==
    ASSUME Serial
    PROVE  Spec => []SerialInv
  <1>1. Init => SerialInv
    BY SerialInit
  <1>2. SerialInv /\ [Next]_vars => SerialInv'
    BY OrderKept
  <1>. QED BY <1>1, <1>2, PTL DEF Spec

\* No accrual is ever redeemed beyond its units by requests served one after the other, for
\* any accruals and any requests, also when calls stop half way
\* (_reserve_comp_off_redemption)
THEOREM AccrualsNeverOverTaken ==
    ASSUME Serial
    PROVE  Spec => []NeverOverTaken
  <1>1. SerialInv => NeverOverTaken
    BY DEF SerialInv
  <1>. QED BY <1>1, AlwaysInOrder, PTL

\* An approved leave has always redeemed exactly the units it takes, when requests are
\* served one after the other (create_leave_request, handle_approval_status_change)
THEOREM ApprovedAlwaysCovered ==
    ASSUME Serial
    PROVE  Spec => []ApprovedIsCovered
  <1>1. SerialInv => ApprovedIsCovered
    BY DEF SerialInv, InOrder, Covered, Collected, MineIn, ApprovedIsCovered
  <1>. QED BY <1>1, AlwaysInOrder, PTL

\* A request served alone comes short of the units it was promised only when one of the
\* accruals it was promised expired at midnight between the two: the validation and the
\* loop count alike (get_available_comp_off_units, _reserve_comp_off_redemption)
THEOREM OnlyMidnightLeavesShort ==
    ASSUME Serial
    PROVE  Spec => []ShortOnlyByMidnight
  <1>1. SerialInv => ShortOnlyByMidnight
    BY DEF SerialInv, InOrder, Enough, Expired, ShortOnlyByMidnight
  <1>. QED BY <1>1, AlwaysInOrder, PTL
=============================================================================
