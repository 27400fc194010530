SPECIFICATION StallSpec
CONSTANTS
  Files = {"f"}
  MaxStallFaults = 1
  MaxUser = 0
PROPERTY StallClears
CHECK_DEADLOCK FALSE
