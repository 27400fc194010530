SPECIFICATION UnpackSpec
CONSTANTS
  Volume <- MCVolumes
  EndsAt <- MCEnds
  Damaged = {"a2"}
  Broken = {"b"}
  NotRar = {}
  MaxUnpackers = 1
PROPERTY CollectedIsPosted
CHECK_DEADLOCK FALSE
