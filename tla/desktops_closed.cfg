SPECIFICATION Spec
CONSTANTS
  Guid = {d1, d2}
  ZeroGuid = zero
  User = {"create", "close"}
  Faults = {}
  MaxCalls = 3
SYMMETRY Symmetry
CHECK_DEADLOCK FALSE
INVARIANT ListIsExact
