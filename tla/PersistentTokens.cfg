SPECIFICATION FairSpec
CONSTANTS
  u1 = u1
  Users <- OneUser
  Kinds <- OneKind
  NoEntry = NoEntry
  Undefined = Undefined
  NoAnswer = NoAnswer
  MaxTokens = 2
  MaxConns = 3
  MaxQueue = 3
INVARIANTS
  TypeOK
  MapFollowsTable
  RevokedStaysRevoked
PROPERTIES
  StoredTokensComeBack
