------------------------------ MODULE TicTacToe ------------------------------
(***************************************************************************)
(* class TicTacToe (backend/src/compoments/tic_tac_toe.cpp) behind the     *)
(* interface Game: one object, from init() on.  handleMove is called with  *)
(* whatever a page sends: moves of either player, on any cell, also when   *)
(* the page still shows an older state.                                    *)
(***************************************************************************)
EXTENDS Integers, FiniteSets, Sequences

CONSTANTS
  Player,   \* names of the players
  NoName    \* the empty string: checkWinner's "no winner"

ASSUME PlayerAssumption == NoName \notin Player

VARIABLES board, turnIdx, players

vars == <<board, turnIdx, players>>

Idx   == 0 .. 2
Cell  == Idx \X Idx
Marks == {"X", "O"}

\* findOrCreateSession stores one player, then a second one.
Parties == {<<p>> : p \in Player} \cup {r \in Player \X Player : r[1] # r[2]}

Init ==
  /\ board = [c \in Cell |-> ""]
  /\ turnIdx = 0
  /\ players \in Parties

MarkOf(i) == IF i = 0 THEN "X" ELSE "O"

\* Mutants: an occupied cell may be taken; the turn is not passed round.
HandleMoveOver(p, c) ==
  /\ Len(players) = 2 /\ p = players[turnIdx + 1]
  /\ board[c] # MarkOf(turnIdx)
  /\ board' = [board EXCEPT ![c] = MarkOf(turnIdx)]
  /\ turnIdx' = 1 - turnIdx
  /\ UNCHANGED players
HandleMoveNext(p, c) ==
  /\ Len(players) = 2 /\ turnIdx \in {0, 1} /\ p = players[turnIdx + 1]
  /\ board[c] = ""
  /\ board' = [board EXCEPT ![c] = MarkOf(turnIdx)]
  /\ turnIdx' = turnIdx + 1
  /\ UNCHANGED players

HandleMove(p, c) ==
  /\ Len(players) >= 2
  /\ p = players[turnIdx + 1]
  /\ board[c] = ""
  /\ board' = [board EXCEPT ![c] = MarkOf(turnIdx)]
  /\ turnIdx' = 1 - turnIdx
  /\ UNCHANGED players

Next == \E p \in Player, c \in Cell : HandleMove(p, c)

Spec == Init /\ [][Next]_vars

-----------------------------------------------------------------------------
(* getWinningMark looks at the lines in this order and takes the first one *)
(* with three equal marks.                                                 *)

Row(i) == {<<i, j>> : j \in Idx}
Col(j) == {<<i, j>> : i \in Idx}
Diagonal == {<<i, i>> : i \in Idx}
\* Mutant: the second diagonal ends in the wrong corner.
AntiDiagonalOff == {<<0, 2>>, <<1, 1>>, <<2, 2>>}
AntiDiagonal == {<<0, 2>>, <<1, 1>>, <<2, 0>>}

Lines == <<Row(0), Col(0), Row(1), Col(1), Row(2), Col(2), Diagonal, AntiDiagonal>>

Holds(mark, line) == \A c \in line : board[c] = mark

Complete == {k \in DOMAIN Lines : \E m \in Marks : Holds(m, Lines[k])}

WinningMark ==
  IF Complete = {} THEN ""
  ELSE LET first == CHOOSE k \in Complete : \A j \in Complete : k <= j
       IN  CHOOSE m \in Marks : Holds(m, Lines[first])

CheckWinner ==
  CASE WinningMark = "X" -> players[1]
    [] WinningMark = "O" -> players[2]
    [] OTHER -> NoName

IsFinished == WinningMark # "" \/ \A c \in Cell : board[c] # ""

-----------------------------------------------------------------------------
(* serialize and deserialize.  A JSON value is a string or a list, and     *)
(* indexing one that is not a list throws.                                 *)

Str(s)  == [type |-> "string", s |-> s]
List(l) == [type |-> "list", l |-> l]

\* split_players(join_players(names)): an empty last name is lost.
Split(names) ==
  IF names # <<>> /\ names[Len(names)] = NoName
  THEN SubSeq(names, 1, Len(names) - 1) ELSE names

RowJson(i) == List([j \in 1 .. 3 |->
                      Str(IF board[<<i, j - 1>>] = "" THEN " " ELSE board[<<i, j - 1>>])])

\* json["board"] is assigned inside the loop over the rows: the last one stays.
Serialize == [board |-> RowJson(2), turnIdx |-> turnIdx, players |-> players]

CanIndex(v, i) == v.type = "list" /\ i \in DOMAIN v.l

Throws == [throws |-> TRUE]

Deserialize(json) ==
  IF \A i, j \in 1 .. 3 : CanIndex(json.board, i) /\ CanIndex(json.board.l[i], j)
  THEN [board |-> [c \in Cell |->
                     LET val == json.board.l[c[1] + 1].l[c[2] + 1].s
                     IN  IF val = " " THEN "" ELSE val],
        turnIdx |-> json.turnIdx, players |-> Split(json.players)]
  ELSE Throws

-----------------------------------------------------------------------------
(* Properties.                                                             *)

\* Types of the members of TicTacToe.
TypeOK ==
  /\ board \in [Cell -> Marks \cup {""}]
  /\ turnIdx \in {0, 1}
  /\ players \in Parties

Marked(m) == {c \in Cell : board[c] = m}

\* handleMove: after any sequence of messages from both players, X has moved
\* as often as O, and once more exactly when it is O's turn.
TurnMatchesMarks == Cardinality(Marked("X")) = Cardinality(Marked("O")) + turnIdx

\* The three in a row of the rules, by coordinates.
HasThree(m) ==
  \/ \E r \in Idx : {<<r, k>> : k \in Idx} \subseteq Marked(m)
  \/ \E k \in Idx : {<<r, k>> : r \in Idx} \subseteq Marked(m)
  \/ {c \in Cell : c[1] = c[2]} \subseteq Marked(m)
  \/ {c \in Cell : c[1] + c[2] = 2} \subseteq Marked(m)

\* checkWinner names a player exactly when somebody has three in a row, and
\* then one who has.
WinnerHasThree ==
  /\ CheckWinner # NoName <=> \E m \in Marks : HasThree(m)
  /\ CheckWinner # NoName =>
       \E i \in {0, 1} : CheckWinner = players[i + 1] /\ HasThree(MarkOf(i))

\* isFinished: no later message makes a finished game unfinished, so that the
\* flag "finished" of a session never falls back.
FinishedForGood == [][IsFinished => IsFinished']_vars

\* Refuted.  deserialize loads the string that serialize made (game.hpp:17).
RoundTrip ==
  Deserialize(Serialize) = [board |-> board, turnIdx |-> turnIdx, players |-> players]
=============================================================================
