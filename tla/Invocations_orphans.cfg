SPECIFICATION Spec
CONSTANTS
  Invs = {i1}
  Procs = {p1, p2}
  Hosts = {p1}
  Stoppers = {s1}
  IdsFromConsole = FALSE
  MaxOpens = 2
  MaxFaults = 0
INVARIANT InterruptedHasNoTask
CHECK_DEADLOCK FALSE
