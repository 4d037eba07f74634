SPECIFICATION Spec
CONSTANTS
  ctrl = ctrl
  shift = shift
  k = k
  Key <- MCKey
  Combo <- MCCombo
  Suppressible <- NoCombos
  Bindable <- TwoCombos
  Callback = {c1, c2, c3}
  SuppressMax = 1
  KeybindMax = 2
  Faults = {}
  Careful = FALSE
  MaxQueue = 2
SYMMETRY Symmetry
INVARIANT OncePerPress
