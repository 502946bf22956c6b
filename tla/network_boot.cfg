SPECIFICATION PathSpec
CONSTANTS
  MaxFrameSize = 2
  FrameLimit = 2
  ByteLimit = 3
  BufferSizes = {1, 2}
  MaxBuffers = 2
  MaxFrames = 0
  MaxEvents = 1
CHECK_DEADLOCK FALSE
INVARIANT CarrierSurvivesBoot
