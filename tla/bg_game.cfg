\* Every game on a short board, with hits, blocks, doubles and bear-offs.
SPECIFICATION Spec
CONSTANTS
  Points = 5
  Sides = 3
  Start <- ShortBoard
  Remaining = 2
  Player = {ann, bob}
  NoPlayer = NoPlayer
INVARIANTS TypeOK PointsWellFormed
PROPERTIES DicePaid
\* The game may get stuck (see SomebodyCanMove).
CHECK_DEADLOCK FALSE
