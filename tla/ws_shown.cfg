\* Two pages of one session of any game type, without any failure.
SPECIFICATION FairSpec
CONSTANTS
  c1 = c1
  c2 = c2
  s1 = s1
  Conn = {c1, c2}
  Session = {s1}
  Room <- OneRoom
  NoSession = NoSession
  Event = {}
  MaxFaults = 0
  MaxFrames = 2
PROPERTIES MatchedIsShown
\* Clients may all have left.
CHECK_DEADLOCK FALSE
