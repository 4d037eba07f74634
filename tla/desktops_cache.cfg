SPECIFICATION Spec
CONSTANTS
  Guid = {d1, d2, d3}
  ZeroGuid = zero
  User = {"create", "close", "move", "switch"}
  Faults = {"desktops", "alloc", "explorer"}
  MaxCalls = 3
SYMMETRY Symmetry
CHECK_DEADLOCK FALSE
INVARIANTS TypeOK UniqueEntries OwnInterface RefsBalanced AnswersMatch ListIsComplete
PROPERTY EntriesStay
