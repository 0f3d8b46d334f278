\* Requests fail, the process restarts, signups bring identifiers back: one session per user, seats are kept, and the lock is given back.
SPECIFICATION FairSpec
CONSTANTS
  ann = ann
  bob = bob
  annabel = annabel
  anon = anon
  Worker = {w1, w2}
  User = {ann, bob, annabel}
  GameType = {g1}
  NoName = anon
  SubName <- NoSubNames
  Event = {"failGet", "loseWrite", "restart", "signup"}
  MaxFaults = 2
  MaxClock = 2
  MaxDraw = 3
  NoWorker = NoWorker
  NoSession = NoSession
  NoCall = NoCall
  NoAnswer = NoAnswer
INVARIANTS OneSessionPerUser
PROPERTIES PlayersOnlyJoin LockReleased
