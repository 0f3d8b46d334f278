\* Every game of two players, and of a session that has one player only.
SPECIFICATION Spec
CONSTANTS
  Player = {ann, bob}
  NoName = NoName
INVARIANTS TypeOK TurnMatchesMarks WinnerHasThree
PROPERTIES FinishedForGood
\* A game ends when the board is full.
CHECK_DEADLOCK FALSE
