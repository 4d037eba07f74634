SPECIFICATION Spec
CONSTANTS
  Key = {"ctrl", "x"}
  Plus = "+"
  WM_KEY_COMBO_MAX = 2
  Self <- MCSelf
  WorkerFlag = "--worker"
  RestartFlag = "--restart"
  ScriptFlag = "-c"
  DefaultScript <- MCDefaultScript
  Blank = " "
  Quote = "quote"
  Backslash = "backslash"
  Foreign = {"e'"}
  Replacement = "?"
  CHILD_ARGS_MAX = 3
  ARG_WIDE_CAP = 3
  COMMAND_LINE_CAP = 19
  Arguments <- MCArguments
  Text <- MCText
  Faults = {"record", "apartment", "shell", "manager", "vdm", "avc", "window", "foreground", "spawn", "input", "lua"}
CHECK_DEADLOCK FALSE
INVARIANTS TypeOK ChildIsWorker ScriptAsAsked CombosMeanTheirText TargetIsWhole LoopHasInput
