SPECIFICATION Spec
CONSTANTS
  Invs = {i1}
  Procs = {p1}
  Hosts = {p1}
  Stoppers = {s1}
  IdsFromConsole = TRUE
  MaxOpens = 1
  MaxFaults = 0
INVARIANT CancelledIsAborted
CHECK_DEADLOCK FALSE
