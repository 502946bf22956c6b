SPECIFICATION Spec
CONSTANTS
  MaxFrameSize = 1
  FrameLimit = 1
  ByteLimit = 1
  BufferSizes = {1}
  MaxBuffers = 1
  MaxFrames = 1
  MaxEvents = 2
  Sockets = {s1, s2}
  None = None
CHECK_DEADLOCK FALSE
INVARIANT CloseClosesSocket
