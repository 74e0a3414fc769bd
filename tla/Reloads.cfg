SPECIFICATION FairSpec
CONSTANTS
  MaxReloads = 3
  MaxEdits = 2
  MaxOpened = 5
INVARIANT TypeOK
PROPERTIES BarrierKept ToldAreRead ReloadIsAnnounced
CHECK_DEADLOCK FALSE
