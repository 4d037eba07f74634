SPECIFICATION Spec
CONSTANTS
  Window = {w1, w2}
  Desktop = {d1, d2}
  NoDesktop = none
  NoWindow = no_window
  Faults = {"target", "refresh", "mc_wm", "view", "move", "switch",
            "current", "enumerate", "cloaked", "desktop", "resolve"}
  MaxCalls = 2
  MaxChanges = 2
SYMMETRY Symmetry
CHECK_DEADLOCK FALSE
INVARIANTS TypeOK AnswerIsSound NoneLeftOut SwitchesAreTold
