SPECIFICATION Spec
CONSTANTS
  Refs = {agent}
  Invs = {i1}
  Clients = {c1, c2}
  Readers = {}
  Ops = {"print", "sweep"}
  Tailed = agent
  CopyFrom = agent
  CopyTo = agent
  Cap = 2
  Limit = 2
  HeldCursor = TRUE
  SweepAlone = FALSE
  MaxSeq = 4
  MaxFaults = 0
PROPERTY SeqNeverReused
CHECK_DEADLOCK FALSE
