SPECIFICATION Spec
CONSTANTS
  BadType = BadType
  Refused = Refused
  Null = Null
  Nobody = Nobody
  NoFile = NoFile
  Blank = Blank
  Torn = Torn
  Malformed = {}
  p1 = p1
  p2 = p2
  t1 = t1
  t2 = t2
  u1 = u1
  u2 = u2
  k1 = k1
  d1 = d1
  d2 = d2
  v1 = v1
  v2 = v2
  g1 = g1
  g2 = g2
  x = x
  y = y
  CfgProcs = {p1, p2}
  CfgThreads = {t1, t2}
  CfgProcOf <- McProcOf
  CfgCalls <- McCfgCalls
  CfgInitial <- McCfgInitial
  Granularity = 1
  RacyWindow = 1
  MaxPause = 0
  MaxClock = 2
  MaxFaults = 1
  MaxCalls = 2
  EnvThreads = {t1, t2}
  EnvNames = {v1, v2}
  EnvValues = {g1, g2}
  EnvMapped <- McMapped
  MaxEnvCalls = 2
  MaxEnvRestarts = 1
  Clis = {p1, p2}
  PkgNames = {g1, g2}
  Manifests <- McManifests
  MaxPkgOps = 4
  MaxPkgFaults = 1
  DocThreads = {t1, t2}
  DocKeys = {d1}
  DocTargets = {x, y}
  DocTitles = {"t"}
  DocTypes = {v1, v2}
  DocContents = {"c", "b"}
  Bare = "b"
  DocFits <- McFits
  DocLinks <- McLinks
  Absent = Absent
  MaxDocOps = 3
  Mask = "***"
  VisibleKeys = {"type", "scope"}
  Scalars = {"n"}
  Indices = {"0"}
  ActThreads = {t1, t2}
  ActKeys = {d1}
  ActBuiltins = {d1}
  ActCaptions = {"x"}
  ActConfigs <- McActConfigs
  ActEdits <- McActEdits
  Omitted = Omitted
  MaxActOps = 3
  SecThreads = {t1, t2}
  SecNames = {x, y}
  SecValues = {g1, g2}
  SecKeys = {k1, v1}
  BadKey = BadKey
  NoEntry = NoEntry
  MaxSecOps = 3
  TypThreads = {t1, t2}
  TypKeys = {x, y}
  TypBuiltins = {x}
  TypSchemas = {g1}
  TypBroken = g2
  TypTexts = {v1}
  Builtin = Builtin
  Missing = Missing
  MaxTypOps = 3
  FilThreads = {t1, t2}
  FilNames = {"f", "g"}
  FilDirs = {"D", "E"}
  FilRoot = "R"
  FilParent <- McParent
  FilNone = FilNone
  FilEmpty = FilEmpty
  MaxFilOps = 3
  ScrStatements <- McStatements
  ScrParams <- McParams
  ScrFailing <- McFailing
  MaxStatements = 5
  HexValue <- McHex
  Indexes <- McIndexes
  Like <- McLike
  Rank <- McRank
  UpperOf <- McUpper
  Forbidden <- McForbidden
  ByteOf <- McBytes
  Spelled <- McSpelled
  MaxPrettyLen = 10
  ListSize = 2
  SearchSize = 2
  RouterPageSize = 1
  ReadSize = 2
INVARIANTS TypesOK CacheIsHonest TokenIsStable StickyPersistence GrantsFollowPackages DocsConsistent KeptUntilDeleted ScriptsRunAsWritten LawsHold
PROPERTIES ImplementsStore SecretsSurviveEcho GuardHolds
CHECK_DEADLOCK FALSE
