SPECIFICATION FairGrantsSpec
CONSTANTS
  user = user
  alias = alias
  t1 = t1
  s1 = s1
  s2 = s2
  c1 = c1
  Names <- TwoNames
  TcpUser <- ToUser
  LogoutUser <- ToUser
  Tokens <- OneToken
  WsSockets <- TwoWs
  TcpSockets <- OneTcp
  None = None
  Expirations <- Near
  Lag = 1
  TakeOverWait = 1
INVARIANTS WsTokensLive TcpTokensLive LogoutIsFinal
PROPERTIES ExpiredIsFinal ExpiredAreSwept
