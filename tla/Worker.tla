----------------------------------- MODULE Worker -----------------------------------
(***************************************************************************)
(* The life of a worker process: from the arguments of uniwm.exe over the  *)
(* command line of the child (uniwm/src/main.c, uniwm/src/proc_win.c) to   *)
(* run_worker, which starts the input and the window watch, opens the      *)
(* windows target when first needed (libuniwm/src/wm.c, input.c,           *)
(* uniwm-windows/src/desktop_win.c), runs the script, loops if the script  *)
(* has asked for it, and closes down.                                      *)
(*                                                                         *)
(* What the script's calls do to their tables is in Keybinds, DesktopCache *)
(* and WindowWatch; here they need the input and the target.  All of it    *)
(* runs on one thread.                                                     *)
(***************************************************************************)
EXTENDS KeyCombo, CommandLine

CONSTANTS
  Arguments,  \* the arguments uniwm.exe is started with
  Text,       \* the texts of key combos
  Faults      \* what may fail

\* The parts of the target, in the order in which win_init gets them.
Parts == <<"record", "apartment", "shell", "manager", "vdm", "avc">>
Part  == ToSet(Parts)
Hook  == {"window", "foreground"}

\* Without these there is no target.
Required == {"record", "apartment", "shell", "manager"}

ASSUME FaultAssumption == Faults \subseteq Part \cup Hook \cup {"spawn", "input", "lua"}
ASSUME InputAssumption == Text \subseteq Seq(STRING) /\ Arguments \subseteq Seq(Seq(STRING))

VARIABLES
  pc,      \* where the process is
  args,    \* its arguments
  line,    \* the command line of the child
  child,   \* the process was started by wm_proc_spawn_self
  asked,   \* the script the user has asked for
  exact,   \* every argument reaches the child as it is
  script,  \* the script of run_worker
  input,   \* input_wm.wm exists
  loop,    \* input_wm.loop
  active,  \* watch.active
  poll,    \* watch.poll
  ready,   \* process_ready
  next,    \* the part that win_init gets next
  caller,  \* what has called wm_process
  held,    \* the parts of the target held
  hooks,   \* the hooks installed
  lua,     \* the Lua state exists
  parsed   \* the last key combo parsed, and its text

launchVars == <<args, line, child, asked, exact>>
inputVars  == <<input, loop, active, poll>>
targetVars == <<ready, next, caller, held, hooks>>
vars == <<pc, launchVars, script, inputVars, targetVars, lua, parsed>>

Place == {"main", "spawn", "start", "script_chosen", "input", "watch", "init", "hook_window",
          "hook_foreground", "lua", "script", "combo", "keyboard", "loop", "close", "fini", "gone"}

NoParse == [text |-> <<>>, combo |-> Invalid]

\* The type invariant: a combo never outgrows its array.
TypeOK ==
  /\ pc \in Place
  /\ args \in Seq(Seq(STRING))
  /\ line \in Seq(STRING)
  /\ child \in BOOLEAN
  /\ asked \in Seq(STRING)
  /\ exact \in BOOLEAN
  /\ script \in Seq(STRING)
  /\ input \in BOOLEAN /\ loop \in BOOLEAN /\ active \in BOOLEAN /\ poll \in BOOLEAN
  /\ ready \in BOOLEAN
  /\ next \in 1 .. Len(Parts)
  /\ caller \in {"watch", "script", "keyboard"}
  /\ held \subseteq Part
  /\ hooks \subseteq Hook
  /\ lua \in BOOLEAN
  /\ parsed.combo = Invalid \/ parsed.combo \in Combos

MayFail(fault) == IF fault \in Faults THEN BOOLEAN ELSE {FALSE}

\* An input that could not be made is made the next time one is needed.
wm_input_ensure == \E failed \in MayFail("input") : input' = (input \/ ~failed)

-----------------------------------------------------------------------------
(* The supervisor and its child.                                           *)

\* main: a worker runs, every other process supervises one.
main ==
  /\ pc = "main"
  /\ pc' = IF IsWorker(args) THEN "start" ELSE "spawn"
  /\ UNCHANGED <<launchVars, script, inputVars, targetVars, lua, parsed>>

\* The line, and CreateProcess: the child takes its arguments out of the line.
\* The supervisor is followed no further.
wm_proc_spawn_self ==
  /\ pc = "spawn"
  /\ \/ /\ "spawn" \in Faults \/ ~Convertible(child_args(args))
        /\ pc' = "gone"
        /\ UNCHANGED launchVars
     \/ /\ Convertible(child_args(args))
        /\ pc' = "main"
        /\ line' = CommandLineOf(child_args(args))
        /\ args' = ArgumentsOf(line')
        /\ child' = TRUE
        /\ asked' = parse_script(Kept(args))
        /\ exact' = Faithful(args)
  /\ UNCHANGED <<script, inputVars, targetVars, lua, parsed>>

-----------------------------------------------------------------------------
(* run_worker up to the script.                                            *)

ChooseScript ==
  /\ pc = "start"
  /\ script' = parse_script(args)
  /\ pc' = "script_chosen"
  /\ UNCHANGED <<launchVars, inputVars, targetVars, lua, parsed>>

\* wm_set_default looks at no failure.  What was found on the command line is not looked at any more.
wm_set_default ==
  /\ pc = "script_chosen"
  /\ args' = <<>> /\ line' = <<>> /\ asked' = <<>> /\ exact' = FALSE /\ script' = <<>>
  /\ wm_input_ensure
  /\ pc' = "watch"
  /\ UNCHANGED <<child, loop, active, poll, targetVars, lua, parsed>>

\* Mutant: the watch is active whether it has an input or not.
WatchAlways ==
  /\ pc = "watch"
  /\ active' = TRUE
  /\ wm_input_ensure
  /\ pc' = IF input' THEN "init" ELSE "lua"
  /\ caller' = "watch"
  /\ UNCHANGED <<launchVars, script, loop, poll, ready, next, held, hooks, lua, parsed>>

\* wm_window_watch_ensure, which asks for the input again.
wm_window_watch_ensure ==
  /\ pc = "watch"
  /\ wm_input_ensure
  /\ active' = input'
  /\ pc' = IF input' THEN "init" ELSE "lua"
  /\ caller' = "watch"
  /\ UNCHANGED <<launchVars, script, loop, poll, ready, next, held, hooks, lua, parsed>>

-----------------------------------------------------------------------------
(* wm_process and win_init.                                                *)

\* The watch goes on to its hooks if there is a target, a call of the script with
\* what it is about.
Reached(found) ==
  /\ \/ caller = "watch"    /\ pc' = IF found THEN "hook_window" ELSE "lua"
     \/ caller = "keyboard" /\ pc' = IF found THEN "keyboard" ELSE "script"
     \/ caller = "script"   /\ pc' = "script"
  /\ poll' = (poll \/ (caller = "watch" /\ ~found))

\* Mutant: a target without a manager keeps the shell's interface.
UndoneButShell ==
  [record |-> {}, apartment |-> {"record"}, shell |-> {"apartment", "record"},
   manager |-> {"apartment", "record"}]

\* What win_init gives back when it cannot get a part it needs.
Undone ==
  [record |-> {}, apartment |-> {"record"}, shell |-> {"apartment", "record"},
   manager |-> {"shell", "apartment", "record"}]

win_init ==
  /\ pc = "init" /\ ~ready
  /\ \E failed \in MayFail(Parts[next]) :
       IF failed /\ Parts[next] \in Required
       THEN /\ held' = held \ Undone[Parts[next]]
            /\ next' = 1
            /\ ready' = FALSE
            /\ Reached(FALSE)
       ELSE /\ held' = IF failed THEN held ELSE held \cup {Parts[next]}
            /\ next' = IF next = Len(Parts) THEN 1 ELSE next + 1
            /\ ready' = (next = Len(Parts))
            /\ IF next = Len(Parts) THEN Reached(TRUE) ELSE UNCHANGED <<pc, poll>>
  /\ UNCHANGED <<launchVars, script, input, loop, active, caller, hooks, lua, parsed>>

\* win_on_window_changed; without both hooks the watch polls.
InstallHook(hook, then) ==
  \E failed \in MayFail(hook) :
    /\ hooks' = IF failed THEN hooks ELSE hooks \cup {hook}
    /\ poll' = (poll \/ failed)
    /\ pc' = IF failed THEN "lua" ELSE then
    /\ UNCHANGED <<launchVars, script, input, loop, active, ready, next, caller, held, lua, parsed>>

InstallWindowHook     == pc = "hook_window" /\ InstallHook("window", "hook_foreground")
InstallForegroundHook == pc = "hook_foreground" /\ InstallHook("foreground", "lua")

-----------------------------------------------------------------------------
(* The script.                                                             *)

\* Without a Lua state the process ends as it is.
luaL_newstate ==
  /\ pc = "lua"
  /\ \E failed \in MayFail("lua") :
       /\ lua' = ~failed
       /\ pc' = IF failed THEN "gone" ELSE "script"
  /\ UNCHANGED <<launchVars, script, inputVars, targetVars, parsed>>

\* current_wm, for every call that is about the target.
CallTarget ==
  /\ pc = "script" /\ ~ready
  /\ pc' = "init"
  /\ caller' = "script"
  /\ UNCHANGED <<launchVars, script, inputVars, ready, next, held, hooks, lua, parsed>>

\* The calls that take a key combo read it first.
ReadCombo ==
  /\ pc = "script"
  /\ \E text \in Text : parsed' = [text |-> text, combo |-> wm_key_combo_from_str(text)]
  /\ pc' = "combo"
  /\ UNCHANGED <<launchVars, script, inputVars, targetVars, lua>>

\* Then they need the target; an error is the script's to handle.
ComboRead ==
  /\ pc = "combo"
  /\ pc' = IF parsed.combo = Invalid THEN "script" ELSE IF ready THEN "keyboard" ELSE "init"
  /\ caller' = "keyboard"
  /\ parsed' = NoParse
  /\ UNCHANGED <<launchVars, script, inputVars, ready, next, held, hooks, lua>>

enable_keyboard ==
  /\ pc = "keyboard"
  /\ wm_input_ensure
  /\ loop' = (loop \/ input')
  /\ pc' = "script"
  /\ UNCHANGED <<launchVars, script, active, poll, targetVars, lua, parsed>>

\* unregister_keybind and unsupress_key, and a binding that finds no memory.
EndWithoutKeyboard ==
  /\ pc = "keyboard"
  /\ pc' = "script"
  /\ UNCHANGED <<launchVars, script, inputVars, targetVars, lua, parsed>>

\* window() asks for the input.
l_window ==
  /\ pc = "script"
  /\ wm_input_ensure
  /\ UNCHANGED <<pc, launchVars, script, loop, active, poll, targetVars, lua, parsed>>

wm_should_run == loop \/ active

\* The script ends, with or without an error.
ScriptEnds ==
  /\ pc = "script"
  /\ \E rc \in {0, -1} : pc' = IF rc = 0 /\ wm_should_run THEN "loop" ELSE "close"
  /\ UNCHANGED <<launchVars, script, inputVars, targetVars, lua, parsed>>

-----------------------------------------------------------------------------
(* The end of a process.                                                   *)

lua_close ==
  /\ pc = "close"
  /\ lua' = FALSE
  /\ pc' = "fini"
  /\ UNCHANGED <<launchVars, script, inputVars, targetVars, parsed>>

win_destroy == held' = {} /\ hooks' = {}

wm_process_fini ==
  /\ pc = "fini"
  /\ IF ready THEN win_destroy ELSE UNCHANGED <<held, hooks>>
  /\ ready' = FALSE
  /\ pc' = "gone"
  /\ UNCHANGED <<launchVars, script, inputVars, next, caller, lua, parsed>>

-----------------------------------------------------------------------------
Init ==
  /\ pc = "main"
  /\ args \in Arguments
  /\ line = <<>> /\ child = FALSE /\ asked = <<>> /\ exact = FALSE
  /\ script = <<>>
  /\ input = FALSE /\ loop = FALSE /\ active = FALSE /\ poll = FALSE
  /\ ready = FALSE /\ next = 1 /\ caller = "watch" /\ held = {} /\ hooks = {}
  /\ lua = FALSE
  /\ parsed = NoParse

Launch == main \/ wm_proc_spawn_self \/ ChooseScript \/ wm_set_default \/ wm_window_watch_ensure

Target == win_init \/ InstallWindowHook \/ InstallForegroundHook

Script == luaL_newstate \/ CallTarget \/ ReadCombo \/ ComboRead \/ enable_keyboard
          \/ EndWithoutKeyboard \/ l_window \/ ScriptEnds

End == lua_close \/ wm_process_fini

Next == Launch \/ Target \/ Script \/ End

Spec == Init /\ [][Next]_vars

-----------------------------------------------------------------------------
(* The command line.                                                       *)

\* A child of the supervisor is a worker, whatever the user's arguments do to the
\* quoting: it never supervises a child of its own (main.c:114-141, proc_win.c:41-88).
ChildIsWorker == child => pc # "spawn"

\* The script of a child is the one that was asked for on the command line of the
\* supervisor, as long as no argument has a character outside ASCII or a backslash
\* before a quote or at its end and all of them fit (main.c:33-41, 114-135,
\* proc_win.c:41-88).
ScriptAsAsked == pc = "script_chosen" /\ child /\ exact => script = asked

-----------------------------------------------------------------------------
(* Key combos.                                                             *)

\* A text is a combo exactly if it spells one, of a known key at least and of no
\* more than there is room for, and it is that combo (wm.c:78-112).
CombosMeanTheirText ==
  IF parsed.combo = Invalid
  THEN \A keys \in Combos : Spelling(keys) # parsed.text
  ELSE Spelling(parsed.combo) = parsed.text

-----------------------------------------------------------------------------
(* The target and the loop.                                                *)

\* Between two calls of win_init there is a target with all it needs, or nothing of
\* it is left, not even a hook: whichever part failed, and after the process has
\* closed down (desktop_win.c:320-411, wm.c:52-76).
TargetIsWhole ==
  pc # "init" =>
    IF ready THEN Required \subseteq held ELSE held = {} /\ hooks = {}

\* The loop never polls an input that could not be made (main.c:58-64,
\* input.c:170-180, 488-516).
LoopHasInput == pc = "loop" => input

====================================================================================
