SPECIFICATION FairSpec
CONSTANTS
  e1 = e1
  e2 = e2
  mobile = mobile
  Extens <- TwoExtens
  Main = e1
  Dests <- OneDest
  Configurations <- BothConfigurations
  On = On
  Off = Off
  NoRequest = NoRequest
  Channels <- AllChannels
  MaxInputs = 2
INVARIANTS PresenceFollowsMain RequestTakesEffect
PROPERTY SeriesEnd
