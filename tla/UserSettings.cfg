SPECIFICATION Spec
CONSTANTS
  u1 = u1
  u2 = u2
  e1 = e1
  e2 = e2
  Users = {u1, u2}
  Extens = {e1, e2}
  OtherKeys = {"auto_queue_login"}
  Set = Set
  Broken = Broken
  None = None
  NoExten = NoExten
  UserFiles <- MCFiles
  Posts <- MCPosts
  Defaults <- MCDefaults
  MaxTasks = 2
  MaxStarts = 2
  MaxErrors = 1
PROPERTIES LoadedIsStored DefaultIsServed TasksEnd
CHECK_DEADLOCK FALSE
