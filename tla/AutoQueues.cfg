SPECIFICATION FairQueuesSpec
CONSTANTS
  sales = sales
  support = support
  board = board
  QueueIds <- ThreeQueues
  Dynamic <- TwoDynamic
  NoSeries = NoSeries
  MaxEvents = 3
  MaxRequests = 1
  MaxFailures = 2
INVARIANT AgentFollowsSession
PROPERTY EndIsActedOn
CHECK_DEADLOCK FALSE
