\* Three users, two threads, two game types, nothing fails.
SPECIFICATION Spec
CONSTANTS
  ann = ann
  bob = bob
  annabel = annabel
  anon = anon
  Worker = {w1, w2}
  User = {ann, bob, annabel}
  GameType = {g1, g2}
  NoName = anon
  SubName <- NoSubNames
  Event = {}
  MaxFaults = 0
  MaxClock = 1
  MaxDraw = 4
  NoWorker = NoWorker
  NoSession = NoSession
  NoCall = NoCall
  NoAnswer = NoAnswer
SYMMETRY Symmetry
INVARIANTS TypeOK WaitingIsOpen AnswerTrue NobodyRefused OneAnswer
PROPERTIES ImplementsMatchmaking
