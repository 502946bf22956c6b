SPECIFICATION FairSpec
CONSTANTS
  Sources = {1, 2}
  MaxPriority = 1
  Thresholds = {0, 1}
INVARIANTS
  NotLost
  Signalled
PROPERTIES
  ImplementsGateway
  AllServed
