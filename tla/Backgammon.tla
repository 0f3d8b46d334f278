----------------------------- MODULE Backgammon -----------------------------
(***************************************************************************)
(* class Backgammon (backend/src/compoments/backgammon.cpp) behind the     *)
(* interface Game: one object, from init() on.  handleMove is called with  *)
(* whatever the two pages send.                                            *)
(*                                                                         *)
(* The sizes are parameters; the code has Points = 24, Sides = 6,          *)
(* Remaining = 24 and the layout of initBoard as Start.                    *)
(***************************************************************************)
EXTENDS Integers, FiniteSets, Sequences

CONSTANTS
  Points,     \* length of the board
  Sides,      \* sides of a die
  Start,      \* the layout initBoard makes
  Remaining,  \* initial value of both remainingPieces
  Player,     \* names of the players
  NoPlayer    \* "winner": null

Point == 0 .. Points - 1
Color == {"black", "white"}
Stack == [color : Color \cup {""}, count : Nat]

\* A point has a colour exactly when it has checkers.
WellFormed(stack) == stack.color = "" <=> stack.count = 0

ASSUME SizeAssumption == Points \in Nat \ {0} /\ Sides \in Nat \ {0}
ASSUME StartAssumption == /\ Start \in [Point -> Stack]
                          /\ \A i \in Point : WellFormed(Start[i])
ASSUME RemainingAssumption == Remaining \in Nat

VARIABLES
  board,            \* point -> colour and number of its checkers
  usedDice,         \* dice used in this turn
  remainingPieces,  \* colour -> checkers still to be borne off
  cubes,            \* the two dice
  turnIdx, players

vars == <<board, usedDice, remainingPieces, cubes, turnIdx, players>>

Roll    == (1 .. Sides) \X (1 .. Sides)
ColorOf == IF turnIdx = 0 THEN "black" ELSE "white"

\* The members init leaves alone are zero: make_unique value-initialises them.
Init ==
  /\ board = Start
  /\ usedDice = <<>>
  /\ remainingPieces = [c \in Color |-> Remaining]
  /\ cubes = <<0, 0>>
  /\ turnIdx = 0
  /\ players \in {r \in Player \X Player : r[1] # r[2]}

\* startTurn, called by the owner of a new object: its opening roll.
OpeningRoll ==
  /\ cubes = <<0, 0>>
  /\ cubes' \in Roll
  /\ UNCHANGED <<board, usedDice, remainingPieces, turnIdx, players>>

-----------------------------------------------------------------------------
(* handleMove.                                                             *)

InDirection(from, to) == IF ColorOf = "black" THEN to > from ELSE to < from
Distance(from, to)    == IF to > from THEN to - from ELSE from - to

\* std::find over usedDice.
Unused(die) == \A i \in DOMAIN usedDice : usedDice[i] # die

\* Mutant: usedDice is not consulted.
MatchesAnyDie(len) == len \in {cubes[1], cubes[2]}
MatchesDie(len) == len \in {cubes[1], cubes[2]} /\ Unused(len)

\* Empty, own, or one opponent checker (a hit).
Open(to) == board[to].color \in {"", ColorOf} \/ board[to].count = 1

BearsOff(to) == to = IF ColorOf = "black" THEN Points ELSE -1

\* Mutant: the colour of an emptied point stays.
TakeKeepingColor(stack) == [color |-> stack.color, count |-> stack.count - 1]
Take(stack) ==
  [color |-> IF stack.count = 1 THEN "" ELSE stack.color, count |-> stack.count - 1]

\* A checker that is hit takes the mover's colour and stays.
Add(stack) == [color |-> ColorOf, count |-> stack.count + 1]

\* Mutant: the dice are rolled, but the turn does not pass.
SpendKeepingTurn(die) ==
  IF usedDice = <<>>
  THEN usedDice' = Append(usedDice, die) /\ UNCHANGED <<turnIdx, cubes>>
  ELSE usedDice' = Append(usedDice, die) /\ UNCHANGED turnIdx /\ cubes' \in Roll
\* usedDice.push_back, and the next turn once both dice are used.
Spend(die) ==
  IF Len(usedDice) + 1 < 2
  THEN usedDice' = Append(usedDice, die) /\ UNCHANGED <<turnIdx, cubes>>
  ELSE usedDice' = <<>> /\ turnIdx' = 1 - turnIdx /\ cubes' \in Roll

MayMove(from, to) ==
  /\ InDirection(from, to)
  /\ board[from].color = ColorOf /\ board[from].count # 0
  /\ MatchesDie(Distance(from, to))

CanMove(from, to)    == MayMove(from, to) /\ to \in Point /\ Open(to)
CanBearOff(from, to) == MayMove(from, to) /\ BearsOff(to)

MoveChecker(from, to) ==
  /\ CanMove(from, to)
  /\ board' = [board EXCEPT ![from] = Take(@), ![to] = Add(@)]
  /\ UNCHANGED remainingPieces

BearOff(from, to) ==
  /\ CanBearOff(from, to)
  /\ board' = [board EXCEPT ![from] = Take(@)]
  /\ remainingPieces' = [remainingPieces EXCEPT ![ColorOf] = @ - 1]

HandleMove(p, from, to) ==
  /\ p = players[turnIdx + 1]
  /\ MoveChecker(from, to) \/ BearOff(from, to)
  /\ Spend(Distance(from, to))
  /\ UNCHANGED players

\* Values of "to" that pass the bounds check.
Target == -1 .. Points

Next ==
  \/ OpeningRoll
  \/ \E p \in Player, from \in Point, to \in Target : HandleMove(p, from, to)

Spec == Init /\ [][Next]_vars

IsFinished == \E c \in Color : remainingPieces[c] = 0

\* getState()["winner"].
Winner == IF IsFinished THEN players[turnIdx + 1] ELSE NoPlayer

-----------------------------------------------------------------------------
(* serialize and deserialize: usedDice is read as two numbers, and an index *)
(* that a list does not have throws.                                       *)

Serialize == [board |-> board, usedDice |-> usedDice,
              remainingPieces |-> remainingPieces, cubes |-> cubes,
              turnIdx |-> turnIdx, players |-> players]

Throws == [throws |-> TRUE]

Deserialize(json) ==
  IF Point \subseteq DOMAIN json.board /\ {1, 2} \subseteq DOMAIN json.usedDice
  THEN json ELSE Throws

-----------------------------------------------------------------------------
(* Properties.                                                             *)

\* Types of the members of Backgammon between two messages: a turn that has
\* used both dice is over.
TypeOK ==
  /\ board \in [Point -> Stack]
  /\ usedDice \in {<<>>} \cup {<<d>> : d \in 1 .. Sides}
  /\ remainingPieces \in [Color -> Int]
  /\ cubes \in Roll \cup {<<0, 0>>}
  /\ turnIdx \in {0, 1}
  /\ players \in Player \X Player

\* initBoard, handleMove: colour and number of a point, which the code keeps in
\* a pair and changes in separate statements, never disagree, whatever is
\* moved, hit or borne off.
PointsWellFormed == \A i \in Point : WellFormed(board[i])

\* The checkers of a board: the k-th one on point i.
Checkers(b) == UNION {{i} \X (1 .. b[i].count) : i \in Point}

\* The sum of the positions of all checkers: each has the points before its
\* own behind it.  Borne off they lie beyond the ends of the board.
Behind(checkers) == UNION {{c} \X (1 .. c[1]) : c \in checkers}
Pips(b, remaining) ==
  Cardinality(Behind(Checkers(b)))
    + Points * (Remaining - remaining["black"]) - (Remaining - remaining["white"])

Pip == Pips(board, remainingPieces)

\* handleMove: every move advances one checker of the player on turn by a die
\* that was rolled and not yet used, and the turn passes exactly when the two
\* moves of the turn used both dice.
DicePaid ==
  [][cubes = <<0, 0>> \/
     LET step == IF turnIdx = 0 THEN Pip' - Pip ELSE Pip - Pip'
     IN  /\ step \in {cubes[1], cubes[2]} /\ Unused(step)
         /\ turnIdx' # turnIdx <=> usedDice # <<>>
         /\ turnIdx' # turnIdx => {step, usedDice[1]} = {cubes[1], cubes[2]}]_vars

-----------------------------------------------------------------------------
(* What the comments of the code and the pages say, refuted by TLC.        *)

\* "If hitting, remove opponent checker" (backgammon.cpp:66): a hit takes a
\* checker off the board and gives the mover none, so that nobody ever has
\* more checkers, on the board and borne off, than at the start.
CheckersOf(c, b) == {x \in Checkers(b) : b[x[1]].color = c}
NobodyGains ==
  \A c \in Color :
    Cardinality(CheckersOf(c, board)) + Remaining - remainingPieces[c]
      <= Cardinality(CheckersOf(c, Start))

\* deserialize loads the string that serialize made ("load from string",
\* game.hpp:17): between two messages there are not two used dice to read.
RoundTrip == Deserialize(Serialize) = Serialize

\* The turn goes on to the other player ("If both dice used, switch
\* turn and roll dice", backgammon.cpp:92): after one of two equal dice, or
\* when every checker is blocked, no message does anything any more.
SomebodyCanMove ==
  cubes # <<0, 0>> /\ ~IsFinished =>
    \E from \in Point, to \in Target : CanMove(from, to) \/ CanBearOff(from, to)

\* The winner that pages announce ("Winner: ", Backgammon.jsx:113)
\* has borne off his checkers: getState names whoever is on turn, and the last
\* checker may have been borne off with the second die.
WinnerBoreOff ==
  Winner # NoPlayer =>
    \E i \in {0, 1} : /\ Winner = players[i + 1]
                      /\ remainingPieces[IF i = 0 THEN "black" ELSE "white"] = 0
=============================================================================
