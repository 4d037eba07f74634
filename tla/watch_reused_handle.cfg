SPECIFICATION Spec
CONSTANTS
  Handle = {h1}
  NoHandle = none
  WindowPollTicks = 2
  Faults = {}
  MaxWindows = 2
  MaxHooks = 3
  MaxEvents = 3
SYMMETRY Symmetry
INVARIANT ShownIsAnnounced
