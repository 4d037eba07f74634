SPECIFICATION Spec
CONSTANTS
  ctrl = ctrl
  shift = shift
  k = k
  Key <- MCKey
  Combo <- MCCombo
  Suppressible <- NoCombos
  Bindable <- ThreeCombos
  Callback = {c1, c2, c3}
  SuppressMax = 1
  KeybindMax = 2
  Faults = {"input", "alloc", "timeout"}
  Careful = FALSE
  MaxQueue = 1
SYMMETRY Symmetry
INVARIANTS TypeOK UniqueCombos BoundExactlyLive RunsWhatIsDue
PROPERTY ImplementsMap
