SPECIFICATION Spec
CONSTANTS
  ann = ann
  joe = joe
  own = own
  Users = {ann, joe}
  offhourUsers = {ann, joe}
  advancedOffhour = {joe}
  adminOffhour = {}
  Routes = {own}
  Direct <- MCDirect
  VoicemailOf = {ann}
  Descriptions = {"closed"}
  s1 = s1
  s2 = s2
  Slots = {s1, s2}
  Most <- MCMost
  None = None
SYMMETRY MCSymmetry
INVARIANT FilesFollowRows
PROPERTIES OnlyOwnersChange DeletedIsGone
CHECK_DEADLOCK FALSE
