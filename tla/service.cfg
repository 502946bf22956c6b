SPECIFICATION Spec
CONSTANTS
  BlockCount = 2
  BlockSectors = 2
  CacheLimit = 1
  Prefetch <- MCPrefetch
  Data <- MCData
  Written <- MCWritten
  Base <- MCBase
  Zero <- MCZero
  RequestIds = {1, 2, 3}
  MaxCount = 2
  ReadIds = {1}
  QueueSize = 1
  MaxRetired = 1
CONSTRAINT FewWrites
CHECK_DEADLOCK FALSE
INVARIANTS
  Deduplicated
  FetchesTracked
  CacheBounded
  FetchesHeard
  NoneStranded
  AnswersForgotten
PROPERTIES
  ImplementsDisk
  StoreSpec
