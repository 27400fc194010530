CONSTANTS
  Job = {"a","b"} Id = {"a","b"} IdOf <- MCIdOf LeaseId = {1, 2} MaxLeases = 2 MaxSlots = 1
  MaxRounds = 1 MaxCalls = 1
SPECIFICATION Spec
INVARIANTS LeasesConserved
PROPERTIES EveryJobSettles KeepsTheSpine
CHECK_DEADLOCK FALSE
