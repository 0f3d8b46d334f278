\* Two threads, one account in two spellings, and no failures.
SPECIFICATION Spec
CONSTANTS
  Worker = {w1, w2}
  Typed = {"Ann", "ann", "no"}
  Lower <- Small
  ValidName = {"ann"}
  Password = {"good", "best", "brief", "plain"}
  Strength <- Strengths
  NoWorker = NoWorker
  NoCall = NoCall
  NoAnswer = NoAnswer
  Event = {}
  MaxFaults = 0
SYMMETRY Symmetry
PROPERTIES RightPasswordAccepted
