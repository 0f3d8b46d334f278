\* Two users, a game with a page and one without; one poll fails.
SPECIFICATION FairSpec
CONSTANTS
  ann = ann
  bob = bob
  Page = {ann, bob}
  User = {ann, bob}
  Owner <- OnePage
  GameType = {"Backgammon", "Game 3"}
  Playable = {"Backgammon"}
  Id = {s1, s2}
  MaxPolls <- Overlap
  Nothing = Nothing
  Failure = Failure
  MaxFaults = 1
INVARIANTS TypeOK OpponentThere
PROPERTIES WaitIsOver MatchIsPlayed
