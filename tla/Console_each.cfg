SPECIFICATION Spec
CONSTANTS
  Refs = {agent}
  Invs = {i1}
  Clients = {c1, c2, c3}
  Readers = {}
  Ops = {"print", "clear", "sweep"}
  Tailed = agent
  CopyFrom = agent
  CopyTo = agent
  Cap = 1
  Limit = 2
  HeldCursor = FALSE
  SweepAlone = TRUE
  MaxSeq = 3
  MaxFaults = 1
SYMMETRY ClientSymmetry
INVARIANT ClaimsAreFresh
PROPERTIES
  SweepDropsOnlyExpired
  SeqNeverReused
CHECK_DEADLOCK FALSE
