\* What the comment on a hit says, in the games of bg_game.
SPECIFICATION Spec
CONSTANTS
  Points = 5
  Sides = 3
  Start <- ShortBoard
  Remaining = 2
  Player = {ann, bob}
  NoPlayer = NoPlayer
INVARIANTS NobodyGains
\* The game may get stuck (see SomebodyCanMove).
CHECK_DEADLOCK FALSE
