SPECIFICATION SecSpec
CONSTANTS
  SecThreads = {reader, writer}
  SecNames = {name}
  SecValues = {value}
  SecKeys = {current, former}
  BadKey = BadKey
  NoEntry = NoEntry
  MaxSecOps = 3
PROPERTY HealsOnlyDeadEntries
CHECK_DEADLOCK FALSE
