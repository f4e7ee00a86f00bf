SPECIFICATION FairSpec
CONSTANTS
  Invs = {i1}
  Procs = {p1, p2}
  Hosts = {p1}
  Stoppers = {s1, s2}
  IdsFromConsole = TRUE
  MaxOpens = 3
  MaxFaults = 1
INVARIANTS
  TypeOK
  CancelFlagMatchesStatus
  NoZombie
PROPERTIES
  TerminalIsFinal
  LiveRowStays
  RunSettles
  StopSettles
CHECK_DEADLOCK FALSE
