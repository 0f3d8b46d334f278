\* Two pages of one session of any game type, with stale reads, one failing
\* request, lost write or vanishing client.
SPECIFICATION FairSpec
CONSTANTS
  c1 = c1
  c2 = c2
  s1 = s1
  Conn = {c1, c2}
  Session = {s1}
  Room <- OneRoom
  NoSession = NoSession
  Event = {"failGet", "stale", "loseWrite", "vanish"}
  MaxFaults = 1
  MaxFrames = 2
INVARIANTS TypeOK RegistryExact NoDangling ShownIsSaved
PROPERTIES HelloAnswered LeaversUnregistered
\* Clients may all have left.
CHECK_DEADLOCK FALSE
