SPECIFICATION FairSpec
CONSTANTS
  Client <- Tools
  Namespace = {"default", "billing"}
  APIKeys <- Keys
  WorkflowId = {1, 2}
  DefaultHistoryPageSize = 2
  DefaultListPageSize = 2
  Limits <- InstanceLimits
  Options <- Dialled
  Scenarios <- Sessions
  MaxSends = 2
INVARIANTS StartedOnce SignalsAccounted GetSettles HistoryReadWhole ListedOnce
PROPERTIES GetReturns
