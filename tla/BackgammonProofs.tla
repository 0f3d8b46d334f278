-------------------------- MODULE BackgammonProofs --------------------------
(***************************************************************************)
(* Theorems about Backgammon, for every board size, layout, die and number *)
(* of checkers to bear off.                                                *)
(***************************************************************************)
EXTENDS Backgammon, FiniteSetTheorems, TLAPS

-----------------------------------------------------------------------------
(* Stacks and boards: what Take and Add make of them.                      *)

Boards == [Point -> Stack]

LEMMA TakeOne ==
  ASSUME NEW s \in Stack, s.count # 0
  PROVE  /\ Take(s) \in Stack
         /\ Take(s).count = s.count - 1
         /\ WellFormed(s) => WellFormed(Take(s))
<1>1. s.color \in Color \cup {""}
  BY DEF Stack
<1>0. PICK n \in Nat : n = s.count /\ n # 0
  BY DEF Stack
<1>2. /\ Take(s).count = s.count - 1
      /\ Take(s).color = IF s.count = 1 THEN "" ELSE s.color
  BY DEF Take
<1>3. n - 1 \in Nat /\ (n - 1 = 0 <=> n = 1)
  BY <1>0
<1>4. Take(s) \in Stack
  BY <1>0, <1>1, <1>3 DEF Take, Stack
<1>5. QED
  BY <1>0, <1>2, <1>3, <1>4 DEF WellFormed

LEMMA AddOne ==
  ASSUME NEW s \in Stack
  PROVE  /\ Add(s) \in Stack
         /\ Add(s).count = s.count + 1
         /\ WellFormed(Add(s))
<1>1. s.count \in Nat
  BY DEF Stack
<1>2. ColorOf \in Color /\ ColorOf # ""
  BY DEF ColorOf, Color
<1>3. Add(s).count = s.count + 1 /\ Add(s).color = ColorOf
  BY DEF Add
<1>4. s.count + 1 \in Nat /\ s.count + 1 # 0
  BY <1>1
<1>5. Add(s) \in Stack
  BY <1>2, <1>4 DEF Add, Stack
<1>6. QED
  BY <1>2, <1>3, <1>4, <1>5 DEF WellFormed

LEMMA OnPoint ==
  ASSUME NEW b \in Boards
  PROVE  /\ \A x \in Checkers(b) : x = <<x[1], x[2]>>
         /\ \A i, k : <<i, k>> \in Checkers(b) <=> i \in Point /\ k \in 1 .. b[i].count
BY DEF Checkers

LEMMA CountsNat ==
  ASSUME NEW b \in Boards, NEW i \in Point
  PROVE  b[i].count \in Nat
<1>1. b[i] \in Stack
  BY DEF Boards
<1>2. QED
  BY <1>1 DEF Stack

LEMMA TakeFromBoard ==
  ASSUME NEW b \in Boards, NEW from \in Point, b[from].count # 0
  PROVE  LET b2 == [b EXCEPT ![from] = Take(@)]
         IN  /\ b2 \in Boards
             /\ \E k : <<from, k>> \in Checkers(b) /\ Checkers(b2) = Checkers(b) \ {<<from, k>>}
<1> DEFINE b2 == [b EXCEPT ![from] = Take(@)]
           n == b[from].count
<1>1. b[from] \in Stack /\ n \in Nat
  BY DEF Boards, Stack
<1>2. b2 \in Boards /\ b2[from].count = n - 1 /\ \A i \in Point : i # from => b2[i] = b[i]
  BY <1>1, TakeOne DEF Boards
<1>3. <<from, n>> \in Checkers(b)
  BY <1>1, OnPoint
<1>5. Checkers(b2) = Checkers(b) \ {<<from, n>>}
  <2> HIDE DEF b2, n
  <2>1. \A i, k : <<i, k>> \in Checkers(b2) <=> <<i, k>> \in Checkers(b) /\ <<i, k>> # <<from, n>>
    <3>1. ASSUME NEW i \in Point, NEW k
          PROVE  k \in 1 .. b2[i].count <=> k \in 1 .. b[i].count /\ ~(i = from /\ k = n)
      <4>1. CASE i = from
        BY <1>1, <1>2, <4>1 DEF n
      <4>2. CASE i # from
        BY <1>2, <4>2
      <4>3. QED
        BY <4>1, <4>2
    <3>2. QED
      BY <1>2, <3>1, OnPoint
  <2>2. QED
    BY <1>2, <2>1, OnPoint
<1>6. QED
  BY <1>2, <1>3, <1>5

LEMMA AddToBoard ==
  ASSUME NEW b \in Boards, NEW to \in Point
  PROVE  LET b2 == [b EXCEPT ![to] = Add(@)]
         IN  /\ b2 \in Boards
             /\ \E k : <<to, k>> \notin Checkers(b) /\ Checkers(b2) = Checkers(b) \cup {<<to, k>>}
<1> DEFINE b2 == [b EXCEPT ![to] = Add(@)]
           n == b[to].count
<1>1. b[to] \in Stack /\ n \in Nat
  BY DEF Boards, Stack
<1>2. b2 \in Boards /\ b2[to].count = n + 1 /\ \A i \in Point : i # to => b2[i] = b[i]
  BY <1>1, AddOne DEF Boards
<1>3. <<to, n + 1>> \notin Checkers(b)
  BY <1>1, OnPoint
<1>4. Checkers(b2) = Checkers(b) \cup {<<to, n + 1>>}
  <2> HIDE DEF b2, n
  <2>1. \A i, k : <<i, k>> \in Checkers(b2) <=> <<i, k>> \in Checkers(b) \/ <<i, k>> = <<to, n + 1>>
    <3>1. ASSUME NEW i \in Point, NEW k
          PROVE  k \in 1 .. b2[i].count <=> k \in 1 .. b[i].count \/ (i = to /\ k = n + 1)
      <4>1. CASE i = to
        BY <1>1, <1>2, <4>1 DEF n
      <4>2. CASE i # to
        BY <1>2, <4>2
      <4>3. QED
        BY <4>1, <4>2
    <3>2. \A i, k : <<i, k>> \in Checkers(b2) <=> i \in Point /\ k \in 1 .. b2[i].count
      BY <1>2, OnPoint
    <3>3. \A i, k : <<i, k>> \in Checkers(b) <=> i \in Point /\ k \in 1 .. b[i].count
      BY OnPoint
    <3>4. ASSUME NEW i, NEW k
          PROVE  <<i, k>> \in Checkers(b2)
                   <=> <<i, k>> \in Checkers(b) \/ (i = to /\ k = n + 1)
      <4>1. CASE i \in Point
        <5>1. k \in 1 .. b2[i].count <=> k \in 1 .. b[i].count \/ (i = to /\ k = n + 1)
          BY <3>1, <4>1
        <5>2. QED
          BY <3>2, <3>3, <4>1, <5>1
      <4>2. CASE i \notin Point
        BY <3>2, <3>3, <4>2
      <4>3. QED
        BY <4>1, <4>2
    <3>5. QED
      BY <3>4
  <2>2. QED
    BY <1>2, <2>1, OnPoint
<1>5. QED
  BY <1>2, <1>3, <1>4

\* A board is finite, so its checkers can be counted.
LEMMA CheckersFinite ==
  ASSUME NEW b \in Boards
  PROVE  IsFiniteSet(Checkers(b))
<1> DEFINE onPoint == [i \in Point |-> {i} \X (1 .. b[i].count)]
           all == {{i} \X (1 .. b[i].count) : i \in Point}
<1>1. IsFiniteSet(Point)
  <2>1. 0 \in Int /\ Points - 1 \in Int
    BY SizeAssumption
  <2>2. IsFiniteSet(0 .. Points - 1)
    BY <2>1, FS_Interval, Zenon
  <2>3. QED
    BY <2>2 DEF Point
<1>2. onPoint \in Surjection(Point, all)
  BY DEF Surjection
<1>3. IsFiniteSet(all)
  BY <1>1, <1>2, FS_Surjection
<1>4. ASSUME NEW i \in Point PROVE IsFiniteSet({i} \X (1 .. b[i].count))
  <2>1. 1 \in Int /\ b[i].count \in Int
    BY CountsNat
  <2>2. IsFiniteSet(1 .. b[i].count)
    BY <2>1, FS_Interval, Zenon
  <2>3. QED
    BY <2>2, FS_Singleton, FS_Product
<1>5. QED
  BY <1>3, <1>4, FS_UNION DEF Checkers

-----------------------------------------------------------------------------
(* Pips.                                                                   *)

Placed(cs) == IsFiniteSet(cs) /\ \A c \in cs : c[1] \in Nat

LEMMA PointsBehind ==
  ASSUME NEW c, c[1] \in Nat
  PROVE  IsFiniteSet({c} \X (1 .. c[1])) /\ Cardinality({c} \X (1 .. c[1])) = c[1]
<1>1. PICK n \in Nat : n = c[1]
  OBVIOUS
<1>2. IsFiniteSet(1 .. n) /\ Cardinality(1 .. n) = n
  BY FS_Interval
<1>3. IsFiniteSet({c}) /\ Cardinality({c}) = 1
  BY FS_Singleton
<1>4. /\ IsFiniteSet({c} \X (1 .. n))
      /\ Cardinality({c} \X (1 .. n)) = Cardinality({c}) * Cardinality(1 .. n)
  BY <1>2, <1>3, FS_Product
<1>5. Cardinality({c} \X (1 .. n)) = n
  BY <1>2, <1>3, <1>4
<1>6. QED
  BY <1>1, <1>4, <1>5

LEMMA BehindFinite ==
  ASSUME NEW cs, Placed(cs)
  PROVE  IsFiniteSet(Behind(cs))
<1> DEFINE behind == [c \in cs |-> {c} \X (1 .. c[1])]
           all == {{c} \X (1 .. c[1]) : c \in cs}
<1>1. behind \in Surjection(cs, all)
  BY DEF Surjection
<1>2. IsFiniteSet(all)
  BY <1>1, FS_Surjection DEF Placed
<1>3. \A S \in all : IsFiniteSet(S)
  BY PointsBehind DEF Placed
<1>4. QED
  BY <1>2, <1>3, FS_UNION DEF Behind

\* A checker counts as much as its position.
LEMMA OneMoreBehind ==
  ASSUME NEW cs, Placed(cs), NEW c, c \notin cs, c[1] \in Nat
  PROVE  Cardinality(Behind(cs \cup {c})) = Cardinality(Behind(cs)) + c[1]
<1> DEFINE new == {c} \X (1 .. c[1])
<1>1. IsFiniteSet(Behind(cs)) /\ IsFiniteSet(new) /\ Cardinality(new) = c[1]
  BY BehindFinite, PointsBehind
<1>2. Behind(cs \cup {c}) = Behind(cs) \cup new
  BY DEF Behind
<1>3. Behind(cs) \cap new = {}
  BY DEF Behind
<1>4. Cardinality(Behind(cs) \cup new)
        = Cardinality(Behind(cs)) + Cardinality(new) - Cardinality(Behind(cs) \cap new)
  BY <1>1, FS_Union
<1>5. Cardinality(Behind(cs)) \in Nat /\ Cardinality(Behind(cs) \cap new) = 0
  BY <1>1, <1>3, FS_CardinalityType, FS_EmptySet
<1>6. PICK m \in Nat, n \in Nat : m = Cardinality(Behind(cs)) /\ n = c[1]
  BY <1>5
<1>7. Cardinality(Behind(cs) \cup new) = m + n - 0
  BY <1>1, <1>4, <1>5, <1>6, Zenon
<1>8. m + n - 0 = m + n
  OBVIOUS
<1>9. QED
  BY <1>2, <1>6, <1>7, <1>8, Zenon

LEMMA BoardPlaced ==
  ASSUME NEW b \in Boards
  PROVE  Placed(Checkers(b)) /\ Cardinality(Behind(Checkers(b))) \in Nat
<1>1. \A c \in Checkers(b) : c[1] \in Nat
  BY SizeAssumption DEF Checkers, Point
<1>2. QED
  BY <1>1, CheckersFinite, BehindFinite, FS_CardinalityType DEF Placed

LEMMA TakePips ==
  ASSUME NEW b \in Boards, NEW from \in Point, b[from].count # 0
  PROVE  LET b2 == [b EXCEPT ![from] = Take(@)]
         IN  /\ b2 \in Boards
             /\ Cardinality(Behind(Checkers(b2))) = Cardinality(Behind(Checkers(b))) - from
<1> DEFINE b2 == [b EXCEPT ![from] = Take(@)]
<1>1. b2 \in Boards /\ \E k : /\ <<from, k>> \in Checkers(b)
                              /\ Checkers(b2) = Checkers(b) \ {<<from, k>>}
  BY TakeFromBoard
<1>2. PICK k : <<from, k>> \in Checkers(b) /\ Checkers(b2) = Checkers(b) \ {<<from, k>>}
  BY <1>1
<1> HIDE DEF b2
<1>3. Checkers(b) = Checkers(b2) \cup {<<from, k>>} /\ <<from, k>> \notin Checkers(b2)
  BY <1>2
<1>4. <<from, k>>[1] = from /\ from \in Nat
  BY SizeAssumption DEF Point
<1>5. Cardinality(Behind(Checkers(b))) = Cardinality(Behind(Checkers(b2))) + from
  BY <1>1, <1>3, <1>4, BoardPlaced, OneMoreBehind
<1>6. Cardinality(Behind(Checkers(b2))) \in Nat
  BY <1>1, BoardPlaced
<1>7. QED
  BY <1>1, <1>4, <1>5, <1>6 DEF b2

LEMMA AddPips ==
  ASSUME NEW b \in Boards, NEW to \in Point
  PROVE  LET b2 == [b EXCEPT ![to] = Add(@)]
         IN  Cardinality(Behind(Checkers(b2))) = Cardinality(Behind(Checkers(b))) + to
<1> DEFINE b2 == [b EXCEPT ![to] = Add(@)]
<1>1. PICK k : <<to, k>> \notin Checkers(b) /\ Checkers(b2) = Checkers(b) \cup {<<to, k>>}
  BY AddToBoard
<1> HIDE DEF b2
<1>2. <<to, k>>[1] = to /\ to \in Nat
  BY SizeAssumption DEF Point
<1>3. Cardinality(Behind(Checkers(b2))) = Cardinality(Behind(Checkers(b))) + to
  BY <1>1, <1>2, BoardPlaced, OneMoreBehind
<1>4. QED
  BY <1>3 DEF b2

-----------------------------------------------------------------------------
(* One step of handleMove on the board.                                    *)

LEMMA MoveOnBoard ==
  ASSUME TypeOK, PointsWellFormed,
         NEW from \in Point, NEW to \in Target, MoveChecker(from, to)
  PROVE  /\ board' \in Boards
         /\ PointsWellFormed'
<1> DEFINE lifted == [board EXCEPT ![from] = Take(@)]
           landed == [lifted EXCEPT ![to] = Add(@)]
<1>1. /\ board \in Boards /\ to \in Point /\ from # to
      /\ board[from] \in Stack /\ board[from].count # 0
  BY DEF TypeOK, Boards, MoveChecker, CanMove, MayMove, InDirection, Point
<1>2. board' = landed
  BY <1>1 DEF MoveChecker, Boards
<1>3. lifted \in Boards
  BY <1>1, TakeOne DEF Boards
<1>4. landed \in Boards
  BY <1>1, <1>3, AddOne DEF Boards
<1>5. \A i \in Point : WellFormed(landed[i])
  <2>1. ASSUME NEW i \in Point PROVE WellFormed(landed[i])
    <3>1. board[i] \in Stack /\ WellFormed(board[i]) /\ lifted[i] \in Stack
      BY <1>1, <1>3 DEF Boards, PointsWellFormed
    <3>2. CASE i = to
      BY <1>3, <3>1, <3>2, AddOne DEF Boards
    <3>3. CASE i = from
      BY <1>1, <3>1, <3>3, TakeOne DEF Boards
    <3>4. CASE i # from /\ i # to
      BY <1>1, <3>1, <3>4 DEF Boards
    <3>5. QED
      BY <3>2, <3>3, <3>4
  <2>2. QED
    BY <2>1
<1>6. QED
  BY <1>2, <1>4, <1>5 DEF PointsWellFormed

LEMMA BearOffBoard ==
  ASSUME TypeOK, PointsWellFormed,
         NEW from \in Point, NEW to \in Target, BearOff(from, to)
  PROVE  /\ board' \in Boards
         /\ PointsWellFormed'
         /\ remainingPieces' \in [Color -> Int]
<1>1. board \in Boards /\ board[from] \in Stack /\ board[from].count # 0
  BY DEF TypeOK, Boards, BearOff, CanBearOff, MayMove
<1>2. board' = [board EXCEPT ![from] = Take(@)]
  BY DEF BearOff
<1>3. board' \in Boards
  BY <1>1, <1>2, TakeOne DEF Boards
<1>4. PointsWellFormed'
  <2>1. ASSUME NEW i \in Point PROVE WellFormed(board'[i])
    <3>1. CASE i = from
      BY <1>1, <1>2, <3>1, TakeOne DEF Boards, PointsWellFormed
    <3>2. CASE i # from
      BY <1>1, <1>2, <3>2 DEF Boards, PointsWellFormed
    <3>3. QED
      BY <3>1, <3>2
  <2>2. QED
    BY <2>1 DEF PointsWellFormed
<1>5. remainingPieces' \in [Color -> Int]
  <2>1. /\ remainingPieces \in [Color -> Int]
        /\ remainingPieces' = [remainingPieces EXCEPT ![ColorOf] = @ - 1]
    BY DEF TypeOK, BearOff
  <2>2. \A c \in Color : remainingPieces[c] - 1 \in Int
    BY <2>1
  <2> QED
    BY <2>1, <2>2
<1>6. QED
  BY <1>3, <1>4, <1>5

LEMMA SpendTyped ==
  ASSUME TypeOK, NEW die \in 1 .. Sides, Spend(die)
  PROVE  /\ usedDice' \in {<<>>} \cup {<<d>> : d \in 1 .. Sides}
         /\ cubes' \in Roll \cup {<<0, 0>>}
         /\ turnIdx' \in {0, 1}
<1>1. CASE usedDice = <<>>
  BY <1>1 DEF TypeOK, Spend
<1>2. CASE usedDice # <<>>
  <2>1. PICK d \in 1 .. Sides : usedDice = <<d>>
    BY <1>2 DEF TypeOK
  <2>2. usedDice' = <<>> /\ turnIdx' = 1 - turnIdx /\ cubes' \in Roll
    BY <2>1 DEF Spend
  <2>3. turnIdx \in {0, 1}
    BY DEF TypeOK
  <2>4. turnIdx' \in {0, 1}
    BY <2>2, <2>3
  <2>5. QED
    BY <2>2, <2>4
<1>3. QED
  BY <1>1, <1>2

\* What a player moves by is a side of a die: 0, before the opening roll,
\* moves nothing.
LEMMA DieRolled ==
  ASSUME TypeOK, NEW from \in Point, NEW to \in Target, MayMove(from, to)
  PROVE  Distance(from, to) \in 1 .. Sides
<1>1. from \in Int /\ to \in Int /\ from # to
  BY SizeAssumption DEF Point, Target, MayMove, InDirection
<1>2. Distance(from, to) \in Int /\ Distance(from, to) # 0
  BY <1>1 DEF Distance
<1>3. Distance(from, to) \in {cubes[1], cubes[2]}
  BY DEF MayMove, MatchesDie
<1>4. cubes \in Roll \cup {<<0, 0>>}
  BY DEF TypeOK
<1>5. QED
  BY <1>2, <1>3, <1>4, SizeAssumption DEF Roll

-----------------------------------------------------------------------------
(* The invariants.                                                         *)

IInv == TypeOK /\ PointsWellFormed

LEMMA InitInv == Init => IInv
<1> SUFFICES ASSUME Init PROVE IInv
  OBVIOUS
<1>1. TypeOK
  BY StartAssumption, RemainingAssumption DEF Init, TypeOK
<1>2. PointsWellFormed
  BY StartAssumption DEF Init, PointsWellFormed
<1>3. QED
  BY <1>1, <1>2 DEF IInv

LEMMA StepInv == IInv /\ [Next]_vars => IInv'
<1> SUFFICES ASSUME IInv, [Next]_vars PROVE IInv'
  OBVIOUS
<1>0. TypeOK /\ PointsWellFormed
  BY DEF IInv
<1>1. CASE OpeningRoll
  BY <1>0, <1>1 DEF IInv, TypeOK, PointsWellFormed, OpeningRoll
<1>2. ASSUME NEW p \in Player, NEW from \in Point, NEW to \in Target, HandleMove(p, from, to)
      PROVE  IInv'
  <2>1. Distance(from, to) \in 1 .. Sides
    BY <1>0, <1>2, DieRolled DEF HandleMove, MoveChecker, BearOff, CanMove, CanBearOff
  <2>2. /\ usedDice' \in {<<>>} \cup {<<d>> : d \in 1 .. Sides}
        /\ cubes' \in Roll \cup {<<0, 0>>}
        /\ turnIdx' \in {0, 1}
    BY <1>0, <1>2, <2>1, SpendTyped DEF HandleMove
  <2>3. players' \in Player \X Player
    BY <1>0, <1>2 DEF HandleMove, TypeOK
  <2>4. CASE MoveChecker(from, to)
    <3>1. board' \in Boards /\ PointsWellFormed'
      BY <1>0, <2>4, MoveOnBoard
    <3>2. remainingPieces' = remainingPieces
      BY <2>4 DEF MoveChecker
    <3>3. TypeOK'
      BY <1>0, <2>2, <2>3, <3>1, <3>2 DEF TypeOK, Boards
    <3>4. QED
      BY <3>1, <3>3 DEF IInv
  <2>5. CASE BearOff(from, to)
    <3>1. board' \in Boards /\ PointsWellFormed' /\ remainingPieces' \in [Color -> Int]
      BY <1>0, <2>5, BearOffBoard
    <3>2. TypeOK'
      BY <2>2, <2>3, <3>1 DEF TypeOK, Boards
    <3>3. QED
      BY <3>1, <3>2 DEF IInv
  <2>6. QED
    BY <1>2, <2>4, <2>5 DEF HandleMove
<1>3. CASE UNCHANGED vars
  BY <1>0, <1>3 DEF vars, IInv, TypeOK, PointsWellFormed
<1>4. QED
  BY <1>1, <1>2, <1>3 DEF Next

THEOREM Inv == Spec => []IInv
BY InitInv, StepInv, PTL DEF Spec

\* Every reachable object is well typed; in particular at most one die is
\* marked as used between two messages.
THEOREM TypeCorrect == Spec => []TypeOK
<1>1. IInv => TypeOK
  BY DEF IInv
<1>2. QED
  BY Inv, <1>1, PTL

\* Colour and number of a point never disagree.
THEOREM WellFormedBoard == Spec => []PointsWellFormed
<1>1. IInv => PointsWellFormed
  BY DEF IInv
<1>2. QED
  BY Inv, <1>1, PTL

-----------------------------------------------------------------------------
(* Dice.                                                                   *)

\* A used die is one of those rolled; none is used before the opening roll.
UsedRolled == \A i \in DOMAIN usedDice : usedDice[i] \in {cubes[1], cubes[2]}

LEMMA UsedAre ==
  ASSUME TypeOK
  PROVE  \/ usedDice = <<>> /\ DOMAIN usedDice = {} /\ Len(usedDice) = 0
         \/ \E d \in 1 .. Sides : /\ usedDice = <<d>> /\ usedDice[1] = d
                                  /\ DOMAIN usedDice = {1} /\ Len(usedDice) = 1
<1>1. CASE usedDice = <<>>
  BY <1>1
<1>2. CASE \E d \in 1 .. Sides : usedDice = <<d>>
  BY <1>2
<1>3. QED
  BY <1>1, <1>2 DEF TypeOK

\* The first die of a turn is marked as used, the second one ends the turn.
LEMMA Spent ==
  ASSUME TypeOK, NEW die \in 1 .. Sides, Spend(die)
  PROVE  IF usedDice = <<>>
         THEN usedDice' = <<die>> /\ turnIdx' = turnIdx /\ cubes' = cubes
         ELSE usedDice' = <<>> /\ turnIdx' # turnIdx
<1>1. CASE usedDice = <<>>
  <2>1. Len(usedDice) + 1 < 2 /\ Append(usedDice, die) = <<die>>
    BY <1>1
  <2>2. QED
    BY <1>1, <2>1 DEF Spend
<1>2. CASE usedDice # <<>>
  <2>1. Len(usedDice) = 1
    BY <1>2, UsedAre
  <2>2. usedDice' = <<>> /\ turnIdx' = 1 - turnIdx
    BY <2>1 DEF Spend
  <2>3. turnIdx = 0 \/ turnIdx = 1
    BY DEF TypeOK
  <2>4. turnIdx' # turnIdx
    BY <2>2, <2>3
  <2>5. QED
    BY <1>2, <2>2, <2>4
<1>3. QED
  BY <1>1, <1>2

LEMMA UsedRolledAlways == Spec => []UsedRolled
<1>1. Init => UsedRolled
  BY DEF Init, UsedRolled
<1>2. TypeOK /\ UsedRolled /\ [Next]_vars => UsedRolled'
  <2>1. SUFFICES ASSUME TypeOK, UsedRolled, [Next]_vars PROVE UsedRolled'
    OBVIOUS
  <2>2. CASE OpeningRoll
    <3>1. cubes = <<0, 0>> /\ UNCHANGED usedDice
      BY <2>2 DEF OpeningRoll
    <3>2. ASSUME usedDice # <<>> PROVE FALSE
      <4>1. PICK d \in 1 .. Sides : DOMAIN usedDice = {1} /\ usedDice[1] = d
        BY <2>1, <3>2, UsedAre
      <4>2. d = 0
        BY <2>1, <3>1, <4>1 DEF UsedRolled
      <4>3. QED
        BY <4>2
    <3>3. DOMAIN usedDice' = {}
      BY <2>1, <3>1, <3>2, UsedAre
    <3>4. QED
      BY <3>3 DEF UsedRolled
  <2>3. ASSUME NEW p \in Player, NEW from \in Point, NEW to \in Target, HandleMove(p, from, to)
        PROVE  UsedRolled'
    <3>1. MayMove(from, to) /\ Spend(Distance(from, to))
      BY <2>3 DEF HandleMove, MoveChecker, BearOff, CanMove, CanBearOff
    <3>2. PICK d \in 1 .. Sides : d = Distance(from, to)
      BY <2>1, <3>1, DieRolled
    <3>3. d \in {cubes[1], cubes[2]} /\ Spend(d)
      BY <3>1, <3>2 DEF MayMove, MatchesDie
    <3>4. CASE usedDice = <<>>
      <4>1. usedDice' = <<d>> /\ cubes' = cubes
        BY <2>1, <3>3, <3>4, Spent
      <4>2. QED
        BY <3>3, <4>1 DEF UsedRolled
    <3>5. CASE usedDice # <<>>
      <4>1. usedDice' = <<>>
        BY <2>1, <3>3, <3>5, Spent
      <4>2. QED
        BY <4>1 DEF UsedRolled
    <3>6. QED
      BY <3>4, <3>5
  <2>4. CASE UNCHANGED vars
    BY <2>1, <2>4 DEF vars, UsedRolled
  <2>5. QED
    BY <2>1, <2>2, <2>3, <2>4 DEF Next
<1>3. QED
  BY <1>1, <1>2, TypeCorrect, PTL DEF Spec

\* A move changes the pip count by what the checker advances.
LEMMA MovePips ==
  ASSUME TypeOK, NEW from \in Point, NEW to \in Target, MoveChecker(from, to) \/ BearOff(from, to)
  PROVE  Pip \in Int /\ Pip' = Pip - from + to
<1> DEFINE B == Cardinality(Behind(Checkers(board)))
           R(c) == remainingPieces[c]
<1>1. /\ board \in Boards /\ board[from].count # 0 /\ B \in Nat
      /\ R("black") \in Int /\ R("white") \in Int
      /\ Points \in Int /\ Remaining \in Int /\ from \in Int /\ to \in Int
  BY BoardPlaced, SizeAssumption, RemainingAssumption
     DEF TypeOK, Boards, Color, Point, Target, MoveChecker, BearOff, CanMove, CanBearOff, MayMove
<1>2. Pip = B + Points * (Remaining - R("black")) - (Remaining - R("white"))
  BY DEF Pip, Pips
<1>3. Pip' = B' + Points * (Remaining - R("black")') - (Remaining - R("white")')
  BY DEF Pip, Pips
<1>4. CASE MoveChecker(from, to)
  <2> DEFINE lifted == [board EXCEPT ![from] = Take(@)]
             landed == [lifted EXCEPT ![to] = Add(@)]
  <2>1. to \in Point /\ from # to /\ UNCHANGED remainingPieces
    BY <1>1, <1>4 DEF MoveChecker, CanMove, MayMove, InDirection
  <2>2. board' = landed
    BY <1>1, <1>4, <2>1 DEF MoveChecker, Boards
  <2>3. lifted \in Boards /\ Cardinality(Behind(Checkers(lifted))) = B - from
    BY <1>1, TakePips
  <2> HIDE DEF lifted
  <2>4. Cardinality(Behind(Checkers(landed))) = B - from + to
    BY <2>1, <2>3, AddPips
  <2> HIDE DEF landed
  <2>5. B' = B - from + to
    BY <2>2, <2>4
  <2>6. QED
    BY <1>1, <1>2, <1>3, <2>1, <2>5
<1>5. CASE BearOff(from, to)
  <2>1. board' = [board EXCEPT ![from] = Take(@)]
    BY <1>5 DEF BearOff
  <2>2. B' = B - from
    BY <1>1, <2>1, TakePips
  <2>3. /\ remainingPieces \in [Color -> Int] /\ to = IF ColorOf = "black" THEN Points ELSE -1
        /\ remainingPieces' = [remainingPieces EXCEPT ![ColorOf] = @ - 1]
    BY <1>5 DEF BearOff, CanBearOff, BearsOff, TypeOK
  <2>4. CASE ColorOf = "black"
    <3>1. R("black")' = R("black") - 1 /\ R("white")' = R("white") /\ to = Points
      BY <2>3, <2>4 DEF Color
    <3>2. Points * (Remaining - (R("black") - 1)) = Points * (Remaining - R("black")) + Points
      BY <1>1
    <3>3. Points * (Remaining - R("black")) \in Int
      BY <1>1
    <3>4. QED
      BY <1>1, <1>2, <1>3, <2>2, <3>1, <3>2, <3>3
  <2>5. CASE ColorOf = "white"
    <3>1. R("white")' = R("white") - 1 /\ R("black")' = R("black") /\ to = -1
      BY <2>3, <2>5 DEF Color
    <3>2. Points * (Remaining - R("black")) \in Int
      BY <1>1
    <3>3. QED
      BY <1>1, <1>2, <1>3, <2>2, <3>1, <3>2
  <2>6. QED
    BY <2>4, <2>5 DEF ColorOf
<1>6. QED
  BY <1>4, <1>5

\* Every move advances one checker of the player on turn by a die that was
\* rolled and not yet used; the turn passes exactly when both dice are used.
THEOREM DiceRight == Spec => DicePaid
<1> DEFINE step == IF turnIdx = 0 THEN Pip' - Pip ELSE Pip - Pip'
           Paid == /\ step \in {cubes[1], cubes[2]} /\ Unused(step)
                   /\ turnIdx' # turnIdx <=> usedDice # <<>>
                   /\ turnIdx' # turnIdx => {step, usedDice[1]} = {cubes[1], cubes[2]}
<1>1. TypeOK /\ UsedRolled /\ [Next]_vars => cubes = <<0, 0>> \/ Paid \/ UNCHANGED vars
  <2>1. SUFFICES ASSUME TypeOK, UsedRolled, [Next]_vars, cubes # <<0, 0>>, ~UNCHANGED vars
                 PROVE  Paid
    OBVIOUS
  <2>2. PICK p \in Player, from \in Point, to \in Target : HandleMove(p, from, to)
    BY <2>1 DEF Next, OpeningRoll
  <2>3. /\ MayMove(from, to) /\ Spend(Distance(from, to))
        /\ MoveChecker(from, to) \/ BearOff(from, to)
    BY <2>2 DEF HandleMove, MoveChecker, BearOff, CanMove, CanBearOff
  <2>4. PICK d \in 1 .. Sides : d = Distance(from, to)
    BY <2>1, <2>3, DieRolled
  <2>5. d \in {cubes[1], cubes[2]} /\ Unused(d) /\ Spend(d)
    BY <2>3, <2>4 DEF MayMove, MatchesDie
  <2>6. step = d
    <3>1. Pip \in Int /\ Pip' = Pip - from + to /\ from \in Int /\ to \in Int
      BY <2>1, <2>3, MovePips, SizeAssumption DEF Point, Target
    <3>2. turnIdx \in {0, 1} /\ InDirection(from, to)
      BY <2>1, <2>3 DEF TypeOK, MayMove
    <3>3. CASE turnIdx = 0
      <4>1. to > from
        BY <3>2, <3>3 DEF InDirection, ColorOf
      <4>2. QED
        BY <2>4, <3>1, <3>3, <4>1 DEF Distance
    <3>4. CASE turnIdx = 1
      <4>1. to < from
        BY <3>2, <3>4 DEF InDirection, ColorOf
      <4>2. QED
        BY <2>4, <3>1, <3>4, <4>1 DEF Distance
    <3>5. QED
      BY <3>2, <3>3, <3>4
  <2>7. turnIdx' # turnIdx <=> usedDice # <<>>
    BY <2>1, <2>5, Spent
  <2>8. usedDice # <<>> => {d, usedDice[1]} = {cubes[1], cubes[2]}
    <3>1. SUFFICES ASSUME usedDice # <<>> PROVE {d, usedDice[1]} = {cubes[1], cubes[2]}
      OBVIOUS
    <3>2. 1 \in DOMAIN usedDice
      BY <2>1, <3>1, UsedAre
    <3>3. usedDice[1] \in {cubes[1], cubes[2]} /\ usedDice[1] # d
      BY <2>1, <2>5, <3>2 DEF UsedRolled, Unused
    <3>4. QED
      BY <2>5, <3>3
  <2> HIDE DEF step
  <2>9. QED
    BY <2>5, <2>6, <2>7, <2>8
<1>2. QED
  BY <1>1, TypeCorrect, UsedRolledAlways, PTL DEF Spec, DicePaid
=============================================================================
