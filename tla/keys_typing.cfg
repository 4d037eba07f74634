SPECIFICATION Spec
CONSTANTS
  ctrl = ctrl
  shift = shift
  k = k
  Key <- MCKey
  Combo <- MCCombo
  Suppressible <- MCCombo
  Bindable <- NoCombos
  Callback = {c1}
  SuppressMax = 2
  KeybindMax = 1
  Faults = {"input"}
  Careful = TRUE
  MaxQueue = 3
SYMMETRY Symmetry

INVARIANTS KeybindsFollowHook NoPhantomKey NoStuckKey
