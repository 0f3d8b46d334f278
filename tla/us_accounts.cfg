\* Two threads, one account in two spellings, with two failures of any kind.
SPECIFICATION Spec
CONSTANTS
  Worker = {w1, w2}
  Typed = {"Ann", "ann", "no"}
  Lower <- Small
  ValidName = {"ann"}
  Password = {"good", "best", "brief", "plain"}
  Strength <- Strengths
  NoWorker = NoWorker
  NoCall = NoCall
  NoAnswer = NoAnswer
  Event = {"failQuery", "inDoubt", "cut", "restart"}
  MaxFaults = 2
SYMMETRY Symmetry
INVARIANTS TypeOK RefusedIsTaken ReasonNamed
PROPERTIES ImplementsRegistry
