SPECIFICATION FairSpec
CONSTANTS
  Refs = {agent}
  Invs = {i1}
  Clients = {c1, c2}
  Readers = {q1}
  Ops = {"print", "clear"}
  Tailed = agent
  CopyFrom = agent
  CopyTo = agent
  Cap = 2
  Limit = 2
  HeldCursor = TRUE
  SweepAlone = FALSE
  MaxSeq = 5
  MaxFaults = 1
INVARIANTS
  TypeOK
  RetainedAboveFirst
  TailMissesNothing
PROPERTIES
  TailDelivers
  ImplementsLog
CHECK_DEADLOCK FALSE
