SPECIFICATION Spec
CONSTANTS
  StrPollers = {p1}
  StrSizes <- McSizes
  MaxBuffer = 4
  IdleTtl = 1
  MaxLines = 3
  Programs <- McPrograms
  Allowed = {known}
  CmdKeys = {known, unknown}
  Payload = 2
  PipeCap = 1
  AuthCalls = {c1, c2}
  AuthTypes = {"oauth_refresh", "bearer", "oauth_authorization_code", "oauth_service_account"}
  AuthSources <- McSources
  Persists = {TRUE, FALSE}
  Lifetimes = {2, 3}
  BearerTtl = 2
  AuthSkew = 2
  MaxDelay = 1
  MaxAuthClock = 2
  MaxTokens = 3
  Flows = {f1, f2}
  Awaits = {a1, a2}
  NoFlow = NoFlow
  script1 = script1
  guest = guest
  secret = secret
  inline = inline
  webhook = webhook
  fetch = fetch
  DspActions <- McActions
  DspTypes <- McTypes
  Urls = {u1, u2}
  Nobody = Nobody
  Anon = Anon
  MaxDepth = 3
  MaxEdits = 1
  MaxRedirects = 2
INVARIANTS TypesOK StreamAccounted LoginReachable RefreshSound CallsStayInBounds
PROPERTIES AbandonedStreamEnds CommandSettles PortGivenBack
CHECK_DEADLOCK FALSE
