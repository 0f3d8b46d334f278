\* Reads are eventually consistent, scans may fail, identifiers come back.
SPECIFICATION Spec
CONSTANTS
  ann = ann
  bob = bob
  annabel = annabel
  anon = anon
  Worker = {w1, w2}
  User = {ann, bob, annabel}
  GameType = {g1}
  NoName = anon
  SubName <- NoSubNames
  Event = {"failScan", "lag", "signup"}
  MaxFaults = 1
  MaxClock = 1
  MaxDraw = 1
  NoWorker = NoWorker
  NoSession = NoSession
  NoCall = NoCall
  NoAnswer = NoAnswer
SYMMETRY Symmetry
INVARIANTS SessionShape
