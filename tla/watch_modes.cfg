SPECIFICATION FairSpec
CONSTANTS
  Handle = {h1}
  NoHandle = none
  WindowPollTicks = 3
  Faults = {"input", "process", "hook"}
  MaxWindows = 1
  MaxHooks = 3
  MaxEvents = 2
CHECK_DEADLOCK FALSE
INVARIANT CreatedOnce
PROPERTIES EventuallyAnnounced EventuallyRetracted
