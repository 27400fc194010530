CONSTANTS
  None = None  r1 = r1  r2 = r2
  Job = {"a"}  Id = {"a"}  IdOf <- MCIdOf
  LeaseId = {1}  MaxLeases = 1  MaxSlots = 2
  Remover = {r1, r2}
  Scenario <- MCScenario
SYMMETRY Sym
SPECIFICATION Spec
INVARIANTS RestoreExact NoResurrection
PROPERTIES ManifestOutlivesWorker KeepsTheSpine
CHECK_DEADLOCK FALSE
