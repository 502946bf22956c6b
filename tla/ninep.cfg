SPECIFICATION Spec
CONSTANTS
  Names = {"a", "b"}
  LastInode = 5
  MaxFileBytes = 2
  MaxTreeBytes = 3
  MaxInodes = 4
  MaxEntries = 3
  MaxChanges = 2
  LastByte = 2
  LastCookie = 5
  Owners = {"p1", "p2"}
  Sessions = {"s1", "s2"}
  Fids = {1, 2}
  Accesses <- MCAccesses
  MaxWalk = 1
  MaxDepth = 2
  MaxTasks = 1
  Workloads <- MCWorkloads
INVARIANTS
  NamespaceSound
  HaltedSessionsClosed
  ViewsExact
PROPERTIES
  FreshIdentities
  LocksImplemented
