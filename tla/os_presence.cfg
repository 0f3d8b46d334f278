\* Two pages of one user; heartbeats and writes may fail.
SPECIFICATION Spec
CONSTANTS
  Page = {p1, p2}
  User = {ann}
  Owner <- OneOwner
  Slot = {s1, s2}
  NoRequest = NoRequest
  Beat = 2
  Delay = 1
  Window = 4
  CanFail = TRUE
  MaxClock = 6
SYMMETRY Symmetry
INVARIANTS TypeOK LobbyListed KeptListed GoneUnlisted
