SPECIFICATION Spec
CONSTANTS
  Ann = Ann
  Joe = Joe
  ann = ann
  joe = joe
  e1 = e1
  e2 = e2
  c1 = c1
  v1 = v1
  v2 = v2
  q1 = q1
  s1 = s1
  basic = basic
  boss = boss
  out = out
  Names = {Ann, Joe}
  Users = {ann, joe}
  LowerCase <- MCLowerCase
  Extens = {e1, e2}
  Cellphones = {c1}
  Voicemails = {v1, v2}
  Queues = {q1}
  Streams = {s1}
  ProfileIds = {basic, boss}
  NoProfile = NoProfile
  Grants <- MCGrants
  Files <- MCFiles
  Admin = joe
  Devices <- MCDevices
  Members <- MCMembers
  Log <- MCLog
  Callers = {ann}
  Recalls <- MCRecalls
  Cdr <- MCCdr
  Expired = Expired
  None = None
PROPERTY OwnStatsShown
CHECK_DEADLOCK FALSE
