SPECIFICATION FairSpec
CONSTANTS
  BlockCount = 3
  BlockSectors = 1
  CacheLimit = 1
  Prefetch <- MCPrefetch
  Data <- MCData
  Written = {}
  Base <- MCBase
  Zero <- MCZero
  RequestIds = {1, 2, 3}
  MaxCount = 2
  ReadIds = {1}
  QueueSize = 2
  MaxRetired = 1
CHECK_DEADLOCK FALSE
PROPERTIES
  HostReadsSettle
  ParkedResumes
  LeastRecentOut
