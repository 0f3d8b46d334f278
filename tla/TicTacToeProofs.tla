--------------------------- MODULE TicTacToeProofs ---------------------------
(***************************************************************************)
(* Theorems about TicTacToe, for any set of players.                       *)
(***************************************************************************)
EXTENDS TicTacToe, FiniteSetTheorems, TLAPS

LEMMA InitTyped == Init => TypeOK
BY DEF Init, TypeOK, Parties

\* One lemma for the only operation: a move keeps the types.
LEMMA MoveTyped ==
  ASSUME TypeOK, NEW p \in Player, NEW c \in Cell, HandleMove(p, c)
  PROVE  TypeOK'
<1>1. MarkOf(turnIdx) \in Marks
  BY DEF MarkOf, Marks
<1>2. board' \in [Cell -> Marks \cup {""}]
  BY <1>1 DEF TypeOK, HandleMove
<1>3. turnIdx' \in {0, 1}
  <2>1. turnIdx \in {0, 1} /\ turnIdx' = 1 - turnIdx
    BY DEF TypeOK, HandleMove
  <2>2. QED
    BY <2>1
<1>4. QED
  BY <1>2, <1>3 DEF TypeOK, HandleMove, Parties

\* Every reachable object is well typed.
THEOREM TypeCorrect == Spec => []TypeOK
<1>1. TypeOK /\ [Next]_vars => TypeOK'
  <2>1. SUFFICES ASSUME TypeOK, [Next]_vars PROVE TypeOK'
    OBVIOUS
  <2>2. CASE Next
    BY <2>1, <2>2, MoveTyped DEF Next
  <2>3. CASE UNCHANGED vars
    BY <2>1, <2>3 DEF vars, TypeOK
  <2>4. QED
    BY <2>1, <2>2, <2>3
<1>2. QED
  BY InitTyped, <1>1, PTL DEF Spec

-----------------------------------------------------------------------------
(* Turn order.                                                             *)

LEMMA CellsFinite ==
  /\ IsFiniteSet(Cell)
  /\ \A m : IsFiniteSet(Marked(m)) /\ Cardinality(Marked(m)) \in Nat
<1>1. IsFiniteSet(Idx)
  <2>1. 0 \in Int /\ 2 \in Int
    OBVIOUS
  <2>2. IsFiniteSet(0 .. 2)
    BY <2>1, FS_Interval, Zenon
  <2>3. QED
    BY <2>2 DEF Idx
<1>2. IsFiniteSet(Cell)
  BY <1>1, FS_Product DEF Cell
<1>3. \A m : Marked(m) \subseteq Cell
  BY DEF Marked
<1>4. \A m : IsFiniteSet(Marked(m))
  BY <1>2, <1>3, FS_Subset
<1>5. QED
  BY <1>2, <1>4, FS_CardinalityType

\* The mover gets one more mark, on a cell that was empty; nobody loses one.
LEMMA MoveMarks ==
  ASSUME TypeOK, NEW p \in Player, NEW c \in Cell, HandleMove(p, c), NEW m \in Marks
  PROVE  Marked(m)' = IF m = MarkOf(turnIdx) THEN Marked(m) \cup {c} ELSE Marked(m)
<1>1. board \in [Cell -> Marks \cup {""}] /\ board[c] = "" /\ m # ""
  BY DEF TypeOK, HandleMove, Marks
<1>2. board' = [board EXCEPT ![c] = MarkOf(turnIdx)]
  BY DEF HandleMove
<1>3. \A d \in Cell : board'[d] = IF d = c THEN MarkOf(turnIdx) ELSE board[d]
  BY <1>1, <1>2
<1>4. QED
  BY <1>1, <1>3 DEF Marked

LEMMA MoveCounts ==
  ASSUME TypeOK, NEW p \in Player, NEW c \in Cell, HandleMove(p, c), NEW m \in Marks
  PROVE  Cardinality(Marked(m))' =
           Cardinality(Marked(m)) + IF m = MarkOf(turnIdx) THEN 1 ELSE 0
<1>1. c \notin Marked(m)
  BY DEF HandleMove, Marked, Marks
<1>2. Cardinality(Marked(m) \cup {c}) = Cardinality(Marked(m)) + 1
  BY <1>1, CellsFinite, FS_AddElement
<1>3. Cardinality(Marked(m)) \in Nat
  BY CellsFinite
<1>4. CASE m = MarkOf(turnIdx)
  BY <1>2, <1>4, MoveMarks
<1>5. CASE m # MarkOf(turnIdx)
  BY <1>3, <1>5, MoveMarks
<1>6. QED
  BY <1>4, <1>5

\* X and O alternate, X first, whatever the two players send.
THEOREM TurnOrder == Spec => []TurnMatchesMarks
<1>1. Init => TurnMatchesMarks
  <2>1. ASSUME Init PROVE Marked("X") = {} /\ Marked("O") = {} /\ turnIdx = 0
    BY <2>1 DEF Init, Marked
  <2>2. QED
    BY <2>1, FS_EmptySet DEF TurnMatchesMarks
<1>2. TypeOK /\ TurnMatchesMarks /\ [Next]_vars => TurnMatchesMarks'
  <2>1. SUFFICES ASSUME TypeOK, TurnMatchesMarks, [Next]_vars PROVE TurnMatchesMarks'
    OBVIOUS
  <2>2. ASSUME NEW p \in Player, NEW c \in Cell, HandleMove(p, c)
        PROVE  TurnMatchesMarks'
    <3>1. /\ Cardinality(Marked("X"))' =
                Cardinality(Marked("X")) + IF "X" = MarkOf(turnIdx) THEN 1 ELSE 0
          /\ Cardinality(Marked("O"))' =
                Cardinality(Marked("O")) + IF "O" = MarkOf(turnIdx) THEN 1 ELSE 0
      BY <2>1, <2>2, MoveCounts DEF Marks
    <3>2. turnIdx \in {0, 1} /\ turnIdx' = 1 - turnIdx
      BY <2>1, <2>2 DEF TypeOK, HandleMove
    <3>3. Cardinality(Marked("X")) \in Nat /\ Cardinality(Marked("O")) \in Nat
      BY CellsFinite
    <3>4. Cardinality(Marked("X")) = Cardinality(Marked("O")) + turnIdx
      BY <2>1 DEF TurnMatchesMarks
    <3>5. Cardinality(Marked("X"))' = Cardinality(Marked("O"))' + turnIdx'
      <4>1. CASE turnIdx = 0
        BY <3>1, <3>2, <3>3, <3>4, <4>1 DEF MarkOf
      <4>2. CASE turnIdx = 1
        BY <3>1, <3>2, <3>3, <3>4, <4>2 DEF MarkOf
      <4>3. QED
        BY <3>2, <4>1, <4>2
    <3>6. QED
      BY <3>5 DEF TurnMatchesMarks
  <2>3. CASE UNCHANGED vars
    BY <2>1, <2>3 DEF vars, TurnMatchesMarks, Marked
  <2>4. QED
    BY <2>1, <2>2, <2>3 DEF Next
<1>3. QED
  BY <1>1, <1>2, TypeCorrect, PTL DEF Spec

-----------------------------------------------------------------------------
(* A finished game stays finished.                                         *)

LEMMA LinesAre ==
  /\ DOMAIN Lines = 1 .. 8
  /\ \A k \in 1 .. 8 : Lines[k] \subseteq Cell
BY DEF Lines, Row, Col, Diagonal, AntiDiagonal, Cell, Idx

\* The first complete line of the scan exists and has a mark.
LEMMA MarkOfFirst ==
  ASSUME Complete # {}
  PROVE  WinningMark \in Marks
<1>1. PICK first \in Complete : \A j \in Complete : first <= j
  BY LinesAre DEF Complete
<1>2. \E m \in Marks : Holds(m, Lines[CHOOSE k \in Complete : \A j \in Complete : k <= j])
  BY <1>1 DEF Complete
<1>3. QED
  BY <1>2 DEF WinningMark

LEMMA MarkIffComplete == WinningMark # "" <=> Complete # {}
BY MarkOfFirst DEF WinningMark, Marks

\* No mark is ever removed or replaced, so complete lines stay complete.
LEMMA CompleteStays ==
  ASSUME TypeOK, NEW p \in Player, NEW c \in Cell, HandleMove(p, c)
  PROVE  Complete \subseteq Complete'
<1>1. ASSUME NEW k \in Complete PROVE k \in Complete'
  <2>1. PICK m \in Marks : Holds(m, Lines[k])
    BY DEF Complete
  <2>2. Lines[k] \subseteq Marked(m)
    BY <2>1, LinesAre DEF Complete, Holds, Marked
  <2>3. Lines[k] \subseteq Marked(m)'
    BY <2>2, MoveMarks
  <2>4. Holds(m, Lines[k])'
    BY <2>3 DEF Holds, Marked, Lines, Row, Col, Diagonal, AntiDiagonal
  <2>5. QED
    BY <2>4 DEF Complete
<1>2. QED
  BY <1>1

\* The flag "finished" that the handler stores never falls back to "0".
THEOREM Absorbing == Spec => FinishedForGood
<1>1. TypeOK /\ [Next]_vars => (IsFinished => IsFinished')
  <2>1. SUFFICES ASSUME TypeOK, [Next]_vars, IsFinished PROVE IsFinished'
    OBVIOUS
  <2>2. ASSUME NEW p \in Player, NEW c \in Cell, HandleMove(p, c)
        PROVE  IsFinished'
    <3>1. WinningMark # ""
      BY <2>1, <2>2 DEF IsFinished, HandleMove
    <3>2. Complete' # {}
      BY <2>1, <2>2, <3>1, MarkIffComplete, CompleteStays
    <3>3. WinningMark' # ""
      <4>1. (WinningMark # "" <=> Complete # {})'
        BY MarkIffComplete, PTL
      <4>2. QED
        BY <3>2, <4>1
    <3>4. QED
      BY <3>3 DEF IsFinished
  <2>3. CASE UNCHANGED vars
    <3>1. board' = board
      BY <2>3 DEF vars
    <3>2. Complete' = Complete
      BY <3>1 DEF Complete, Holds
    <3>3. WinningMark' = WinningMark
      BY <3>1, <3>2 DEF WinningMark, Holds
    <3>4. QED
      BY <2>1, <3>1, <3>3 DEF IsFinished
  <2>4. QED
    BY <2>1, <2>2, <2>3 DEF Next
<1>2. QED
  BY TypeCorrect, <1>1, PTL DEF Spec, FinishedForGood
-----------------------------------------------------------------------------
(* The winner.  getWinningMark looks at a list of eight lines, the rules   *)
(* speak of rows, columns and diagonals by coordinates.                    *)

\* The list has every line of the rules, and no other.
LEMMA LinesOfTheRules ==
  ASSUME NEW m \in Marks
  PROVE  HasThree(m) <=> \E k \in 1 .. 8 : Holds(m, Lines[k])
<1>1. \A line \in SUBSET Cell : line \subseteq Marked(m) <=> Holds(m, line)
  BY DEF Marked, Holds
<1>2. \A i \in Idx : Row(i) = {<<i, k>> : k \in Idx} /\ Col(i) = {<<k, i>> : k \in Idx}
  BY DEF Row, Col
<1>3. Diagonal = {c \in Cell : c[1] = c[2]}
  BY DEF Diagonal, Cell
<1>4. AntiDiagonal = {c \in Cell : c[1] + c[2] = 2}
  BY DEF AntiDiagonal, Cell, Idx
<1>5. HasThree(m) <=> \/ \E r \in Idx : Holds(m, Row(r)) \/ Holds(m, Col(r))
                      \/ Holds(m, Diagonal) \/ Holds(m, AntiDiagonal)
  <2>1. \A r \in Idx : Row(r) \in SUBSET Cell /\ Col(r) \in SUBSET Cell
    BY DEF Row, Col, Cell
  <2>2. Diagonal \in SUBSET Cell /\ AntiDiagonal \in SUBSET Cell
    BY DEF Diagonal, AntiDiagonal, Cell, Idx
  <2>3. QED
    BY <1>1, <1>2, <1>3, <1>4, <2>1, <2>2 DEF HasThree
<1>6. Idx = {0, 1, 2}
  BY DEF Idx
<1>7. /\ Lines[1] = Row(0) /\ Lines[2] = Col(0) /\ Lines[3] = Row(1) /\ Lines[4] = Col(1)
      /\ Lines[5] = Row(2) /\ Lines[6] = Col(2)
      /\ Lines[7] = Diagonal /\ Lines[8] = AntiDiagonal
  BY DEF Lines
<1>8. 1 .. 8 = {1, 2, 3, 4, 5, 6, 7, 8}
  OBVIOUS
<1>9. QED
  BY <1>5, <1>6, <1>7, <1>8

\* getWinningMark answers with the mark of a line of the list.
LEMMA FoundMarkHolds ==
  ASSUME Complete # {}
  PROVE  WinningMark \in Marks /\ HasThree(WinningMark)
<1> DEFINE first == CHOOSE k \in Complete : \A j \in Complete : k <= j
<1>1. first \in Complete
  <2>1. \E k \in Complete : \A j \in Complete : k <= j
    BY LinesAre DEF Complete
  <2>2. QED
    BY <2>1
<1>2. \E m \in Marks : Holds(m, Lines[first])
  BY <1>1 DEF Complete
<1>3. WinningMark = CHOOSE m \in Marks : Holds(m, Lines[first])
  BY DEF WinningMark
<1>4. WinningMark \in Marks /\ Holds(WinningMark, Lines[first])
  BY <1>2, <1>3
<1>5. first \in 1 .. 8
  BY <1>1, LinesAre DEF Complete
<1>6. QED
  BY <1>4, <1>5, LinesOfTheRules

\* One player or two.
LEMMA OneOrTwo ==
  ASSUME TypeOK
  PROVE  \/ \E p \in Player : players = <<p>> /\ Len(players) = 1
         \/ \E p, q \in Player : players = <<p, q>> /\ Len(players) = 2
<1>1. CASE \E p \in Player : players = <<p>>
  BY <1>1
<1>2. CASE players \in Player \X Player
  <2>1. players = <<players[1], players[2]>> /\ players[1] \in Player /\ players[2] \in Player
    BY <1>2
  <2>2. Len(<<players[1], players[2]>>) = 2
    OBVIOUS
  <2>3. QED
    BY <2>1, <2>2, Zenon
<1>3. QED
  BY <1>1, <1>2 DEF TypeOK, Parties

\* Only two players make moves, so a board with marks belongs to two.
MarksNeedTwo == (\E c \in Cell : board[c] # "") => Len(players) = 2

LEMMA TwoPlayersOnceMarked == Spec => []MarksNeedTwo
<1>1. Init => MarksNeedTwo
  BY DEF Init, MarksNeedTwo
<1>2. TypeOK /\ MarksNeedTwo /\ [Next]_vars => MarksNeedTwo'
  <2>1. SUFFICES ASSUME TypeOK, MarksNeedTwo, [Next]_vars PROVE MarksNeedTwo'
    OBVIOUS
  <2>2. ASSUME NEW p \in Player, NEW c \in Cell, HandleMove(p, c) PROVE MarksNeedTwo'
    <3>1. Len(players) = 2
      <4>1. PICK n \in {1, 2} : Len(players) = n
        BY <2>1, OneOrTwo
      <4>2. n >= 2
        BY <2>2, <4>1 DEF HandleMove
      <4>3. QED
        BY <4>1, <4>2
    <3>2. QED
      BY <2>2, <3>1 DEF HandleMove, MarksNeedTwo
  <2>3. CASE UNCHANGED vars
    BY <2>1, <2>3 DEF vars, MarksNeedTwo
  <2>4. QED
    BY <2>1, <2>2, <2>3 DEF Next
<1>3. QED
  BY <1>1, <1>2, TypeCorrect, PTL DEF Spec

\* checkWinner names a player exactly when somebody has three in a row, and
\* then one who has, whatever messages the two players sent before.
THEOREM WinnerCorrect == Spec => []WinnerHasThree
<1>1. TypeOK /\ MarksNeedTwo => WinnerHasThree
  <2>1. SUFFICES ASSUME TypeOK, MarksNeedTwo PROVE WinnerHasThree
    OBVIOUS
  <2>2. CASE Complete = {}
    <3>1. CheckWinner = NoName
      BY <2>2 DEF CheckWinner, WinningMark
    <3>2. ~ \E m \in Marks : HasThree(m)
      BY <2>2, LinesOfTheRules, LinesAre DEF Complete
    <3>3. QED
      BY <3>1, <3>2 DEF WinnerHasThree
  <2>3. CASE Complete # {}
    <3>1. WinningMark \in Marks /\ HasThree(WinningMark)
      BY <2>3, FoundMarkHolds
    <3>2. PICK k \in 1 .. 8 : Holds(WinningMark, Lines[k])
      BY <3>1, LinesOfTheRules
    <3>3. Lines[k] # {} /\ Lines[k] \subseteq Cell
      <4>1. \A i \in Idx : Row(i) # {} /\ Col(i) # {}
        BY DEF Row, Col, Idx
      <4>2. Diagonal # {} /\ AntiDiagonal # {}
        <5>1. <<1, 1>> \in Diagonal /\ <<1, 1>> \in AntiDiagonal
          BY DEF Diagonal, AntiDiagonal, Idx
        <5>2. QED
          BY <5>1
      <4>3. QED
        BY <4>1, <4>2, LinesAre DEF Lines, Idx
    <3>4. \E c \in Cell : board[c] # ""
      BY <3>1, <3>2, <3>3 DEF Holds, Marks
    <3>5. Len(players) = 2
      BY <2>1, <3>4 DEF MarksNeedTwo
    <3>6. players[1] \in Player /\ players[2] \in Player
      BY <2>1, <3>5, OneOrTwo
    <3>7. \E i \in {0, 1} : CheckWinner = players[i + 1] /\ WinningMark = MarkOf(i)
      <4>1. CASE WinningMark = "X"
        BY <4>1 DEF CheckWinner, MarkOf
      <4>2. CASE WinningMark = "O"
        BY <4>2 DEF CheckWinner, MarkOf
      <4>3. QED
        BY <3>1, <4>1, <4>2 DEF Marks
    <3>8. CheckWinner # NoName
      BY <3>6, <3>7, PlayerAssumption
    <3>9. QED
      BY <3>1, <3>7, <3>8 DEF WinnerHasThree
  <2>4. QED
    BY <2>2, <2>3
<1>2. QED
  BY <1>1, TypeCorrect, TwoPlayersOnceMarked, PTL
=============================================================================
