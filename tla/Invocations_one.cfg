SPECIFICATION Spec
CONSTANTS
  Invs = {i1, i2}
  Procs = {p1}
  Hosts = {p1}
  Stoppers = {s1, s2}
  IdsFromConsole = FALSE
  MaxOpens = 3
  MaxFaults = 1
SYMMETRY StopSymmetry
INVARIANTS CancelledIsAborted InterruptedHasNoTask
CHECK_DEADLOCK FALSE
