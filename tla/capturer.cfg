SPECIFICATION FairSpec

CONSTANTS
  buffer_count_ = 3
  MaxFrames = 5
  MaxFailures = 2

INVARIANTS
  ReadsOwnFrame
  BuffersConserved
  DequeueReady

PROPERTIES
  FramesInOrder
  StopCompletes
  FrameDelivered
