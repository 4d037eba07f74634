SPECIFICATION Spec
CONSTANTS
  Handle = {h1, h2}
  NoHandle = none
  WindowPollTicks = 2
  Faults = {}
  MaxWindows = 1
  MaxHooks = 3
  MaxEvents = 2
SYMMETRY Symmetry
INVARIANTS TypeOK OpenBeforeClose CreatedOnce QuietAfterClose ShownIsAnnounced FocusIsReported
