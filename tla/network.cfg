SPECIFICATION Spec
CONSTANTS
  MaxFrameSize = 2
  FrameLimit = 2
  ByteLimit = 3
  BufferSizes = {1, 2}
  MaxBuffers = 2
  MaxFrames = 2
  MaxEvents = 1
  Sockets = {s1, s2}
  None = None
CHECK_DEADLOCK FALSE
INVARIANTS
  FramesKept
  FramesOrdered
  LinkTruthful
  KeepsTrying
