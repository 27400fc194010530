SPECIFICATION LifeSpec
CONSTANTS
  FileOf <- MCFileOf
  QueueSize = 2
  MaxLifeFaults = 1
INVARIANT BufferHasOneOwner
CHECK_DEADLOCK FALSE
