SPECIFICATION NSpec
CONSTANTS
  s1 = s1
  s2 = s2
  u1 = u1
  u2 = u2
  x2 = x2
  e1 = e1
  Sockets <- TwoSockets
  CtiSockets <- OneCti
  Users <- MCKeys
  UaTypes <- Desktop
  NoUaType = NoUaType
  NoData = NoData
  MaxTakeOvers = 1
  Persons <- TwoPersons
  KeyUser <- MCKeyUser
  ExtensOf <- MCExtens
  Policies <- MCPolicies
INVARIANTS NTypeOK SessionsAreConnected HeardAsAllowed FramesFollowSubscriptions
PROPERTY LastEndIsAnnounced
