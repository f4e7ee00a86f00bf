SPECIFICATION Spec
CONSTANTS
  Refs = {chat, agent}
  Invs = {i1, i2}
  Clients = {c1, c2}
  Readers = {}
  Ops = {"print", "copy"}
  Tailed = agent
  CopyFrom = chat
  CopyTo = agent
  Cap = 2
  Limit = 2
  HeldCursor = TRUE
  SweepAlone = FALSE
  MaxSeq = 5
  MaxFaults = 0
SYMMETRY ClientSymmetry
INVARIANTS
  CopyOnceInOrder
  BoundedRetention
  DroppedNeverUndercounts
CHECK_DEADLOCK FALSE
