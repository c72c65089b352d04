SPECIFICATION Spec
CONSTANTS
  MaxQueueSize = 2
  MaxFrames = 8
PROPERTIES EventuallyWritten ImplementsChannel
CHECK_DEADLOCK FALSE
