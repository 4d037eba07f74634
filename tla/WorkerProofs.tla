-------------------------------- MODULE WorkerProofs --------------------------------
(***************************************************************************)
(* Proofs about the life of a worker, for every command line, every set of *)
(* texts and every set of failures.                                        *)
(***************************************************************************)
EXTENDS Worker, ParserProofs, TLAPS

LEMMA MayFailType == \A fault : MayFail(fault) \subseteq BOOLEAN
BY DEF MayFail

-----------------------------------------------------------------------------
(* The loop.  Whatever asks for the loop has made the input, and nothing   *)
(* takes the input away.                                                   *)

LoopInv ==
  /\ input \in BOOLEAN
  /\ loop \in BOOLEAN
  /\ active \in BOOLEAN
  /\ loop \/ active => input
  /\ pc = "loop" => loop \/ active

LEMMA LoopInvInit == Init => LoopInv
BY DEF Init, LoopInv

LEMMA InputStays ==
  ASSUME LoopInv, wm_input_ensure
  PROVE  input' \in BOOLEAN /\ (input => input')
BY MayFailType DEF LoopInv, wm_input_ensure

\* The calls that leave the input, the loop and the watch as they are.
LEMMA LoopInvKept ==
  ASSUME LoopInv, UNCHANGED <<input, loop, active>>, pc' # "loop"
  PROVE  LoopInv'
BY DEF LoopInv

LEMMA LoopInvLaunch == ASSUME LoopInv, Launch PROVE LoopInv'
<1>1. CASE main
  BY <1>1, LoopInvKept DEF main, inputVars
<1>2. CASE wm_proc_spawn_self
  BY <1>2, LoopInvKept DEF wm_proc_spawn_self, inputVars
<1>3. CASE ChooseScript
  BY <1>3, LoopInvKept DEF ChooseScript, inputVars
<1>4. CASE wm_set_default
  BY <1>4, InputStays DEF wm_set_default, LoopInv
<1>5. CASE wm_window_watch_ensure
  BY <1>5, InputStays DEF wm_window_watch_ensure, LoopInv
<1> QED
  BY <1>1, <1>2, <1>3, <1>4, <1>5 DEF Launch

LEMMA LoopInvTarget == ASSUME LoopInv, Target PROVE LoopInv'
<1>1. CASE win_init
  <2>1. UNCHANGED <<input, loop, active>>
    BY <1>1 DEF win_init
  <2>2. pc = "init" /\ (pc' = pc \/ pc' # "loop")
    BY <1>1 DEF win_init, Reached
  <2> QED
    BY <2>1, <2>2, LoopInvKept
<1>2. CASE InstallWindowHook
  BY <1>2, LoopInvKept DEF InstallWindowHook, InstallHook
<1>3. CASE InstallForegroundHook
  BY <1>3, LoopInvKept DEF InstallForegroundHook, InstallHook
<1> QED
  BY <1>1, <1>2, <1>3 DEF Target

LEMMA LoopInvScript == ASSUME LoopInv, Script PROVE LoopInv'
<1>1. CASE luaL_newstate
  BY <1>1, LoopInvKept DEF luaL_newstate, inputVars
<1>2. CASE CallTarget
  BY <1>2, LoopInvKept DEF CallTarget, inputVars
<1>3. CASE ReadCombo
  BY <1>3, LoopInvKept DEF ReadCombo, inputVars
<1>4. CASE ComboRead
  BY <1>4, LoopInvKept DEF ComboRead, inputVars
<1>5. CASE enable_keyboard
  BY <1>5, InputStays DEF enable_keyboard, LoopInv
<1>6. CASE EndWithoutKeyboard
  BY <1>6, LoopInvKept DEF EndWithoutKeyboard, inputVars
<1>7. CASE l_window
  BY <1>7, InputStays DEF l_window, LoopInv
<1>8. CASE ScriptEnds
  BY <1>8 DEF ScriptEnds, wm_should_run, inputVars, LoopInv
<1> QED
  BY <1>1, <1>2, <1>3, <1>4, <1>5, <1>6, <1>7, <1>8 DEF Script

LEMMA LoopInvEnd == ASSUME LoopInv, End PROVE LoopInv'
BY LoopInvKept DEF End, lua_close, wm_process_fini, inputVars

LEMMA LoopInvStep == LoopInv /\ [Next]_vars => LoopInv'
<1> SUFFICES ASSUME LoopInv, [Next]_vars PROVE LoopInv'
  OBVIOUS
<1>1. CASE Next
  BY <1>1, LoopInvLaunch, LoopInvTarget, LoopInvScript, LoopInvEnd DEF Next
<1>2. CASE UNCHANGED vars
  BY <1>2 DEF vars, inputVars, LoopInv
<1> QED
  BY <1>1, <1>2

\* The loop never polls an input that could not be made (main.c:58-64).
THEOREM LoopPollsInput == Spec => []LoopHasInput
<1>1. LoopInv => LoopHasInput
  BY DEF LoopInv, LoopHasInput
<1> QED
  BY LoopInvInit, LoopInvStep, <1>1, PTL DEF Spec

-----------------------------------------------------------------------------
(* The target.  While win_init runs, the parts held are among those it has *)
(* come to, all it needs of them included.                                 *)

Before(n) == {Parts[i] : i \in 1 .. n - 1}

BeforeInit == {"main", "spawn", "start", "script_chosen", "watch", "init"}

TargetInv ==
  /\ ready \in BOOLEAN
  /\ next \in 1 .. 6
  /\ ready => Required \subseteq held /\ pc \notin BeforeInit
  /\ ~ready => hooks = {}
  /\ pc # "init" => next = 1 /\ (~ready => held = {})
  /\ pc = "init" => held \subseteq Before(next) /\ Required \cap Before(next) \subseteq held
  /\ pc \in {"hook_window", "hook_foreground"} => ready

LEMMA PartsInOrder ==
  /\ Before(1) = {}
  /\ Before(2) = {"record"}
  /\ Before(3) = {"record", "apartment"}
  /\ Before(4) = {"record", "apartment", "shell"}
  /\ Required \subseteq Before(5)
  /\ Required \subseteq Before(6)
  /\ Parts[1] = "record" /\ Parts[2] = "apartment" /\ Parts[3] = "shell"
  /\ Parts[4] = "manager" /\ Parts[5] = "vdm" /\ Parts[6] = "avc"
  /\ Len(Parts) = 6
<1>1. /\ Parts[1] = "record" /\ Parts[2] = "apartment" /\ Parts[3] = "shell"
      /\ Parts[4] = "manager" /\ Parts[5] = "vdm" /\ Parts[6] = "avc"
      /\ Len(Parts) = 6
  BY DEF Parts
<1>2. 1 .. 1 - 1 = {} /\ 1 .. 2 - 1 = {1} /\ 1 .. 3 - 1 = {1, 2} /\ 1 .. 4 - 1 = {1, 2, 3}
  OBVIOUS
<1>3. 1 .. 5 - 1 = {1, 2, 3, 4} /\ 1 .. 6 - 1 = {1, 2, 3, 4, 5}
  OBVIOUS
<1>4. /\ Before(1) = {}
      /\ Before(2) = {Parts[1]}
      /\ Before(3) = {Parts[1], Parts[2]}
      /\ Before(4) = {Parts[1], Parts[2], Parts[3]}
  BY <1>2 DEF Before
<1>5. {Parts[1], Parts[2], Parts[3], Parts[4]} \subseteq Before(5) \cap Before(6)
  BY <1>3 DEF Before
<1> QED
  BY <1>1, <1>4, <1>5 DEF Required

LEMMA NextBefore ==
  ASSUME NEW n \in 1 .. 6
  PROVE  Before(n + 1) = Before(n) \cup {Parts[n]}
<1>1. 1 .. (n + 1) - 1 = (1 .. n - 1) \cup {n}
  OBVIOUS
<1> QED
  BY <1>1 DEF Before

LEMMA TargetInvNone ==
  ASSUME ~ready, ready \in BOOLEAN, next = 1, held = {}, hooks = {},
         pc \notin {"init", "hook_window", "hook_foreground"}
  PROVE  TargetInv
<1>1. next \in 1 .. 6
  OBVIOUS
<1> QED
  BY <1>1 DEF TargetInv

LEMMA TargetInvInit == Init => TargetInv
BY TargetInvNone DEF Init

\* A step that has no part in win_init leaves the target as it is.
LEMMA TargetInvKept ==
  ASSUME TargetInv, UNCHANGED <<ready, next, held, hooks>>,
         pc' \notin {"hook_window", "hook_foreground"},
         pc' \in BeforeInit => pc \in BeforeInit \/ ~ready,
         pc # "init", pc' = "init" => ~ready
  PROVE  TargetInv'
<1>1. pc' = "init" => held = {} /\ next = 1
  BY DEF TargetInv
<1> QED
  BY <1>1, PartsInOrder DEF TargetInv, BeforeInit

LEMMA TargetInvLaunch == ASSUME TargetInv, Launch PROVE TargetInv'
<1>1. /\ UNCHANGED <<ready, next, held, hooks>>
      /\ pc \in BeforeInit \ {"init"}
      /\ pc' \notin {"hook_window", "hook_foreground"}
  BY DEF Launch, main, wm_proc_spawn_self, ChooseScript, wm_set_default,
         wm_window_watch_ensure, targetVars, BeforeInit
<1>2. ~ready
  BY <1>1 DEF TargetInv
<1> QED
  BY <1>1, <1>2, TargetInvKept

\* win_init: the part is had, or done without, or what came before it is given back.
LEMMA TargetInvWinInit == ASSUME TargetInv, win_init PROVE TargetInv'
<1>1. next \in 1 .. 6 /\ held \subseteq Before(next) /\ Required \cap Before(next) \subseteq held
      /\ ~ready /\ hooks = {} /\ pc = "init" /\ hooks' = hooks
  BY DEF TargetInv, win_init
<1>2. PICK failed \in BOOLEAN :
        IF failed /\ Parts[next] \in Required
        THEN /\ held' = held \ Undone[Parts[next]]
             /\ next' = 1
             /\ ready' = FALSE
             /\ Reached(FALSE)
        ELSE /\ held' = IF failed THEN held ELSE held \cup {Parts[next]}
             /\ next' = IF next = Len(Parts) THEN 1 ELSE next + 1
             /\ ready' = (next = Len(Parts))
             /\ IF next = Len(Parts) THEN Reached(TRUE) ELSE UNCHANGED <<pc, poll>>
  BY MayFailType DEF win_init
<1>3. CASE failed /\ Parts[next] \in Required
  <2>1. next \in {1, 2, 3, 4}
    BY <1>1, <1>3, PartsInOrder DEF Required
  <2>2. Before(next) \subseteq Undone[Parts[next]]
    BY <2>1, PartsInOrder DEF Undone
  <2>3. held' = {} /\ next' = 1 /\ ready' = FALSE
    BY <1>1, <1>2, <1>3, <2>2
  <2>4. pc' \notin {"init", "hook_window", "hook_foreground"}
    BY <1>2, <1>3 DEF Reached
  <2>5. next' \in 1 .. 6 /\ hooks' = {}
    BY <1>1, <2>3
  <2>6. ready' \in BOOLEAN
    BY <2>3, Zenon
  <2> QED
    BY <2>3, <2>4, <2>5, <2>6 DEF TargetInv
<1>4. CASE ~(failed /\ Parts[next] \in Required) /\ next # 6
  <2>1. next' = next + 1 /\ next' \in 1 .. 6 /\ ready' = FALSE /\ pc' = "init"
    <3>1. next' = next + 1 /\ ready' = FALSE /\ pc' = pc
      BY <1>2, <1>4, PartsInOrder
    <3>2. next + 1 \in 1 .. 6
      BY <1>1, <1>4
    <3> QED
      BY <1>1, <3>1, <3>2
  <2>2. held' = IF failed THEN held ELSE held \cup {Parts[next]}
    BY <1>2, <1>4
  <2>3. Before(next') = Before(next) \cup {Parts[next]}
    BY <1>1, <2>1, NextBefore
  <2>4. held' \subseteq Before(next') /\ Required \cap Before(next') \subseteq held'
    BY <1>1, <1>4, <2>2, <2>3
  <2> QED
    BY <1>1, <2>1, <2>4 DEF TargetInv, Before
<1>5. CASE ~(failed /\ Parts[next] \in Required) /\ next = 6
  <2>1. next' = 1 /\ ready' = TRUE /\ held \subseteq held' /\ Reached(TRUE)
    BY <1>2, <1>5, PartsInOrder
  <2>2. Required \subseteq held'
    BY <1>1, <1>5, <2>1, PartsInOrder
  <2>3. pc' \notin BeforeInit
    BY <2>1 DEF Reached, BeforeInit
  <2> QED
    BY <1>1, <2>1, <2>2, <2>3 DEF TargetInv, BeforeInit
<1> QED
  BY <1>3, <1>4, <1>5

LEMMA TargetInvTarget == ASSUME TargetInv, Target PROVE TargetInv'
<1>1. CASE win_init
  BY <1>1, TargetInvWinInit
<1>2. CASE InstallWindowHook
  BY <1>2 DEF InstallWindowHook, InstallHook, TargetInv, BeforeInit
<1>3. CASE InstallForegroundHook
  BY <1>3 DEF InstallForegroundHook, InstallHook, TargetInv, BeforeInit
<1> QED
  BY <1>1, <1>2, <1>3 DEF Target

LEMMA TargetInvScript == ASSUME TargetInv, Script PROVE TargetInv'
<1>1. CASE luaL_newstate
  BY <1>1, TargetInvKept DEF luaL_newstate, targetVars, BeforeInit
<1>2. CASE CallTarget
  BY <1>2, TargetInvKept DEF CallTarget, BeforeInit
<1>3. CASE ReadCombo
  BY <1>3, TargetInvKept DEF ReadCombo, targetVars, BeforeInit
<1>4. CASE ComboRead
  BY <1>4, TargetInvKept DEF ComboRead, BeforeInit
<1>5. CASE enable_keyboard
  BY <1>5, TargetInvKept DEF enable_keyboard, targetVars, BeforeInit
<1>6. CASE EndWithoutKeyboard
  BY <1>6, TargetInvKept DEF EndWithoutKeyboard, targetVars, BeforeInit
<1>7. CASE l_window
  BY <1>7, TargetInvKept DEF l_window, targetVars, BeforeInit
<1>8. CASE ScriptEnds
  BY <1>8, TargetInvKept DEF ScriptEnds, targetVars, BeforeInit
<1> QED
  BY <1>1, <1>2, <1>3, <1>4, <1>5, <1>6, <1>7, <1>8 DEF Script

LEMMA TargetInvEnd == ASSUME TargetInv, End PROVE TargetInv'
<1>1. CASE lua_close
  BY <1>1, TargetInvKept DEF lua_close, targetVars, BeforeInit
<1>2. CASE wm_process_fini
  <2>1. held' = {} /\ hooks' = {}
    BY <1>2 DEF wm_process_fini, win_destroy, TargetInv
  <2>2. ready' = FALSE /\ pc' = "gone" /\ next' = next
    BY <1>2 DEF wm_process_fini
  <2>3. next = 1
    BY <1>2 DEF TargetInv, wm_process_fini
  <2> QED
    BY <2>1, <2>2, <2>3 DEF TargetInv
<1> QED
  BY <1>1, <1>2 DEF End

LEMMA TargetInvStep == TargetInv /\ [Next]_vars => TargetInv'
<1> SUFFICES ASSUME TargetInv, [Next]_vars PROVE TargetInv'
  OBVIOUS
<1>1. CASE Next
  BY <1>1, TargetInvLaunch, TargetInvTarget, TargetInvScript, TargetInvEnd DEF Next
<1>2. CASE UNCHANGED vars
  BY <1>2 DEF vars, targetVars, TargetInv
<1> QED
  BY <1>1, <1>2

\* Outside win_init the target has all it needs or nothing of it is left, not even a
\* hook (desktop_win.c:320-411, wm.c:52-76).
THEOREM TargetWholeOrGone == Spec => []TargetIsWhole
<1>1. TargetInv => TargetIsWhole
  BY DEF TargetInv, TargetIsWhole
<1> QED
  BY TargetInvInit, TargetInvStep, <1>1, PTL DEF Spec

-----------------------------------------------------------------------------
(* Key combos.  ReadCombo reads one, ComboRead forgets it.                 *)

ComboInv ==
  parsed = NoParse \/
  \E text \in Text : parsed = [text |-> text, combo |-> wm_key_combo_from_str(text)]

LEMMA ComboInvStep == ComboInv /\ [Next]_vars => ComboInv'
<1>. SUFFICES ASSUME ComboInv, [Next]_vars PROVE ComboInv'
  OBVIOUS
<1>1. CASE UNCHANGED parsed
  BY <1>1 DEF ComboInv
<1>2. CASE ReadCombo
  BY <1>2 DEF ReadCombo, ComboInv
<1>3. CASE ComboRead
  BY <1>3 DEF ComboRead, ComboInv
<1>4. [Next]_vars => UNCHANGED parsed \/ ReadCombo \/ ComboRead
  BY DEF Next, Launch, Target, Script, End, main, wm_proc_spawn_self, ChooseScript,
         wm_set_default, wm_window_watch_ensure, win_init, InstallWindowHook,
         InstallForegroundHook, InstallHook, luaL_newstate, CallTarget, enable_keyboard,
         EndWithoutKeyboard, l_window, ScriptEnds, lua_close, wm_process_fini, vars
<1>. QED
  BY <1>1, <1>2, <1>3, <1>4

LEMMA ComboInvRead ==
  ASSUME ComboInv
  PROVE  CombosMeanTheirText /\ (parsed.combo = Invalid \/ parsed.combo \in Combos)
<1>1. CASE parsed = NoParse
  BY <1>1, NothingSpellsNothing DEF NoParse, CombosMeanTheirText
<1>2. CASE \E text \in Text : parsed = [text |-> text, combo |-> wm_key_combo_from_str(text)]
  <2>1. PICK text \in Text : parsed = [text |-> text, combo |-> wm_key_combo_from_str(text)]
    BY <1>2
  <2>2. text \in Seq(STRING)
    BY InputAssumption
  <2>3. parsed.text = text /\ parsed.combo = wm_key_combo_from_str(text)
    BY <2>1
  <2>4. /\ parsed.combo = Invalid => \A keys \in Combos : Spelling(keys) # text
        /\ parsed.combo # Invalid => parsed.combo \in Combos /\ Spelling(parsed.combo) = text
    BY <2>2, <2>3, ComboIsItsText
  <2>. QED
    BY <2>3, <2>4 DEF CombosMeanTheirText
<1>. QED
  BY <1>1, <1>2 DEF ComboInv

\* A text that the script passes is taken exactly if it spells a combo, and for that
\* combo, of any length and with any room for keys (wm.c:78-112).
THEOREM CombosAreRead == Spec => []CombosMeanTheirText
<1>1. Init => ComboInv
  BY DEF Init, ComboInv
<1>2. ComboInv => CombosMeanTheirText
  BY ComboInvRead
<1>. QED
  BY <1>1, <1>2, ComboInvStep, PTL DEF Spec

-----------------------------------------------------------------------------
(* The command line.  It is looked at up to ChooseScript, and what is found *)
(* of it is the worker's flag and, if every argument has come through, the *)
(* script that was asked for.                                              *)

LaunchInv ==
  /\ args \in Seq(Seq(STRING))
  /\ line \in Seq(STRING)
  /\ child \in BOOLEAN
  /\ asked \in Seq(STRING)
  /\ exact \in BOOLEAN
  /\ script \in Seq(STRING)
  /\ child => pc # "spawn" /\ (pc = "main" => IsWorker(args))
  /\ child /\ exact =>
       /\ pc \in {"main", "start"} => parse_script(args) = asked
       /\ pc = "script_chosen" => script = asked

LEMMA LaunchInvInit == Init => LaunchInv
<1>. SUFFICES ASSUME Init PROVE LaunchInv
  OBVIOUS
<1>1. args \in Seq(Seq(STRING)) /\ <<>> \in Seq(STRING)
  BY InputAssumption DEF Init
<1>. QED
  BY <1>1 DEF Init, LaunchInv

\* Nothing after the launch comes back to it.
LEMMA LaunchInvKept ==
  ASSUME LaunchInv, UNCHANGED <<launchVars, script>>,
         pc' \notin {"main", "spawn", "start", "script_chosen"}
  PROVE  LaunchInv'
BY DEF LaunchInv, launchVars

LEMMA LaunchInvMain == ASSUME LaunchInv, main PROVE LaunchInv'
<1>1. UNCHANGED <<args, line, child, asked, exact, script>> /\ pc = "main"
      /\ pc' = IF IsWorker(args) THEN "start" ELSE "spawn"
  BY DEF main, launchVars
<1>2. child => IsWorker(args)
  BY <1>1 DEF LaunchInv
<1>3. child => pc' = "start"
  BY <1>1, <1>2
<1>4. child /\ exact => parse_script(args) = asked
  BY <1>1 DEF LaunchInv
<1>. QED
  BY <1>1, <1>3, <1>4 DEF LaunchInv

LEMMA LaunchInvSpawn == ASSUME LaunchInv, wm_proc_spawn_self PROVE LaunchInv'
<1>1. CASE pc' = "gone" /\ UNCHANGED launchVars
  BY <1>1, LaunchInvKept DEF wm_proc_spawn_self
<1>2. CASE /\ pc' = "main"
           /\ line' = CommandLineOf(child_args(args))
           /\ args' = ArgumentsOf(line')
           /\ child' = TRUE
           /\ asked' = parse_script(Kept(args))
           /\ exact' = Faithful(args)
  <2>. DEFINE sent == child_args(args)
  <2>1. args \in Seq(Seq(Character))
    BY DEF LaunchInv, Character
  <2>2. sent \in Seq(Seq(Character)) /\ Kept(args) \in Seq(Seq(Character))
    BY <2>1, ChildArgs
  <2>3. asked' \in Seq(STRING)
    BY <1>2, <2>2, ScriptTyped DEF Character
  <2>4. line' \in Seq(STRING) /\ args' \in Seq(Seq(STRING))
    <3>1. CommandLineOf(sent) \in Seq(Character) /\ ArgumentsOf(CommandLineOf(sent)) \in Seq(Seq(Character))
      <4>. HIDE DEF sent
      <4>. QED
        BY <2>2, ArgumentsTyped
    <3>. QED
      BY <1>2, <3>1 DEF Character
  <2>5. child' \in BOOLEAN /\ exact' \in BOOLEAN
    BY <1>2, Zenon DEF Faithful
  <2>6. script' \in Seq(STRING)
    BY DEF wm_proc_spawn_self, LaunchInv
  <2>7. IsWorker(args')
    <3>1. args \in Seq(Seq(STRING))
      BY DEF LaunchInv
    <3>. QED
      BY <1>2, <3>1, FlagArrives
  <2>8. exact' => parse_script(args') = asked'
    BY <1>2, <2>1, ScriptArrives
  <2>. QED
    BY <1>2, <2>3, <2>4, <2>5, <2>6, <2>7, <2>8 DEF LaunchInv
<1>. QED
  BY <1>1, <1>2 DEF wm_proc_spawn_self

LEMMA LaunchInvChoose == ASSUME LaunchInv, ChooseScript PROVE LaunchInv'
<1>1. UNCHANGED <<args, line, child, asked, exact>> /\ script' = parse_script(args)
      /\ pc = "start" /\ pc' = "script_chosen"
  BY DEF ChooseScript, launchVars
<1>2. script' \in Seq(STRING)
  <2>1. args \in Seq(Seq(Character))
    BY DEF LaunchInv, Character
  <2>. QED
    BY <1>1, <2>1, ScriptTyped DEF Character
<1>3. child /\ exact => script' = asked
  BY <1>1 DEF LaunchInv
<1>. QED
  BY <1>1, <1>2, <1>3 DEF LaunchInv

LEMMA LaunchInvStep == LaunchInv /\ [Next]_vars => LaunchInv'
<1>. SUFFICES ASSUME LaunchInv, [Next]_vars PROVE LaunchInv'
  OBVIOUS
<1>1. CASE Launch
  <2>1. CASE wm_set_default
    <3>1. <<>> \in Seq(STRING) /\ <<>> \in Seq(Seq(STRING))
      OBVIOUS
    <3>. QED
      BY <2>1, <3>1 DEF wm_set_default, LaunchInv
  <2>2. CASE wm_window_watch_ensure
    BY <2>2, LaunchInvKept DEF wm_window_watch_ensure
  <2>. QED
    BY <1>1, <2>1, <2>2, LaunchInvMain, LaunchInvSpawn, LaunchInvChoose DEF Launch
<1>2. CASE Target
  <2>1. CASE win_init
    BY <2>1, LaunchInvKept DEF win_init, Reached
  <2>2. CASE InstallWindowHook
    BY <2>2, LaunchInvKept DEF InstallWindowHook, InstallHook
  <2>3. CASE InstallForegroundHook
    BY <2>3, LaunchInvKept DEF InstallForegroundHook, InstallHook
  <2>. QED
    BY <1>2, <2>1, <2>2, <2>3 DEF Target
<1>3. CASE Script
  BY <1>3, LaunchInvKept DEF Script, luaL_newstate, CallTarget, ReadCombo, ComboRead,
     enable_keyboard, EndWithoutKeyboard, l_window, ScriptEnds
<1>4. CASE End
  BY <1>4, LaunchInvKept DEF End, lua_close, wm_process_fini
<1>5. CASE UNCHANGED vars
  BY <1>5 DEF vars, launchVars, LaunchInv
<1>. QED
  BY <1>1, <1>2, <1>3, <1>4, <1>5 DEF Next

\* A child never supervises a child of its own, whatever the user's arguments do to the
\* quoting and however many there are (main.c:114-141, proc_win.c:41-88).
THEOREM ChildWorks == Spec => []ChildIsWorker
<1>1. LaunchInv => ChildIsWorker
  BY DEF LaunchInv, ChildIsWorker
<1>. QED
  BY LaunchInvInit, LaunchInvStep, <1>1, PTL DEF Spec

\* A child runs the script that its supervisor was asked for, as long as no argument has
\* a character outside ASCII or a backslash before a quote or at its end and all of them
\* fit (main.c:33-41, 114-135, proc_win.c:41-88).
THEOREM ScriptIsAsked == Spec => []ScriptAsAsked
<1>1. LaunchInv => ScriptAsAsked
  BY DEF LaunchInv, ScriptAsAsked
<1>. QED
  BY LaunchInvInit, LaunchInvStep, <1>1, PTL DEF Spec

-----------------------------------------------------------------------------
(* Types.                                                                  *)

RestTyped ==
  /\ pc \in Place
  /\ poll \in BOOLEAN
  /\ caller \in {"watch", "script", "keyboard"}
  /\ held \subseteq Part
  /\ hooks \subseteq Hook
  /\ lua \in BOOLEAN

LEMMA PartsTyped == \A i \in 1 .. 6 : Parts[i] \in Part
BY PartsInOrder DEF Part, ToSet, Parts

LEMMA ReachedTyped ==
  ASSUME NEW found \in BOOLEAN, Reached(found), poll \in BOOLEAN
  PROVE  pc' \in Place /\ poll' \in BOOLEAN
<1>1. pc' \in Place
  BY DEF Reached, Place
<1>2. poll' \in BOOLEAN
  BY Zenon DEF Reached
<1>. QED
  BY <1>1, <1>2

LEMMA WinInitTyped == ASSUME RestTyped, TargetInv, win_init PROVE RestTyped'
<1>1. PICK failed \in BOOLEAN :
        IF failed /\ Parts[next] \in Required
        THEN /\ held' = held \ Undone[Parts[next]]
             /\ next' = 1
             /\ ready' = FALSE
             /\ Reached(FALSE)
        ELSE /\ held' = IF failed THEN held ELSE held \cup {Parts[next]}
             /\ next' = IF next = Len(Parts) THEN 1 ELSE next + 1
             /\ ready' = (next = Len(Parts))
             /\ IF next = Len(Parts) THEN Reached(TRUE) ELSE UNCHANGED <<pc, poll>>
  BY MayFailType DEF win_init
<1>2. Parts[next] \in Part
  BY PartsTyped DEF TargetInv
<1>3. held' \subseteq Part
  BY <1>1, <1>2 DEF RestTyped
<1>4. Reached(FALSE) \/ Reached(TRUE) \/ UNCHANGED <<pc, poll>>
  BY <1>1, Zenon
<1>5. poll \in BOOLEAN /\ TRUE \in BOOLEAN /\ FALSE \in BOOLEAN
  BY DEF RestTyped
<1>6. pc' \in Place /\ poll' \in BOOLEAN
  <2>1. CASE UNCHANGED <<pc, poll>>
    BY <2>1 DEF RestTyped
  <2>2. CASE Reached(TRUE) \/ Reached(FALSE)
    BY <1>5, <2>2, ReachedTyped
  <2>. QED
    BY <1>4, <2>1, <2>2
<1>. QED
  BY <1>3, <1>6 DEF RestTyped, win_init

LEMMA InstallTyped ==
  ASSUME RestTyped, NEW hook \in Hook, NEW then \in Place, InstallHook(hook, then)
  PROVE  RestTyped'
<1>1. PICK failed \in BOOLEAN :
        /\ hooks' = IF failed THEN hooks ELSE hooks \cup {hook}
        /\ poll' = (poll \/ failed)
        /\ pc' = IF failed THEN "lua" ELSE then
        /\ UNCHANGED <<caller, held, lua>>
  BY MayFailType DEF InstallHook
<1>2. poll' \in BOOLEAN
  BY <1>1, Zenon
<1>3. hooks' \subseteq Hook
  BY <1>1 DEF RestTyped
<1>4. pc' \in Place
  BY <1>1 DEF Place
<1>. QED
  BY <1>1, <1>2, <1>3, <1>4 DEF RestTyped

LEMMA RestTypedStep == RestTyped /\ TargetInv /\ [Next]_vars => RestTyped'
<1>. SUFFICES ASSUME RestTyped, TargetInv, [Next]_vars PROVE RestTyped'
  OBVIOUS
<1>1. CASE Launch
  BY <1>1 DEF Launch, main, wm_proc_spawn_self, ChooseScript, wm_set_default,
     wm_window_watch_ensure, targetVars, inputVars, RestTyped, Place
<1>2. CASE win_init
  BY <1>2, WinInitTyped
<1>3. CASE InstallWindowHook \/ InstallForegroundHook
  <2>1. "window" \in Hook /\ "foreground" \in Hook /\ "hook_foreground" \in Place /\ "lua" \in Place
    BY DEF Hook, Place
  <2>. QED
    BY <1>3, <2>1, InstallTyped DEF InstallWindowHook, InstallForegroundHook
<1>4. CASE Script
  <2>1. UNCHANGED <<poll, held, hooks>>
    BY <1>4 DEF Script, luaL_newstate, CallTarget, ReadCombo, ComboRead, enable_keyboard,
       EndWithoutKeyboard, l_window, ScriptEnds, inputVars, targetVars
  <2>2. pc' \in Place
    BY <1>4 DEF Script, luaL_newstate, CallTarget, ReadCombo, ComboRead, enable_keyboard,
       EndWithoutKeyboard, l_window, ScriptEnds, RestTyped, Place
  <2>3. caller' \in {"watch", "script", "keyboard"}
    BY <1>4 DEF Script, luaL_newstate, CallTarget, ReadCombo, ComboRead, enable_keyboard,
       EndWithoutKeyboard, l_window, ScriptEnds, targetVars, RestTyped
  <2>4. lua' \in BOOLEAN
    <3>1. lua' = lua \/ luaL_newstate
      BY <1>4 DEF Script, luaL_newstate, CallTarget, ReadCombo, ComboRead, enable_keyboard,
         EndWithoutKeyboard, l_window, ScriptEnds
    <3>2. luaL_newstate => lua' \in BOOLEAN
      BY Zenon DEF luaL_newstate
    <3>. QED
      BY <3>1, <3>2 DEF RestTyped
  <2>. QED
    BY <2>1, <2>2, <2>3, <2>4 DEF RestTyped
<1>5. CASE lua_close
  <2>1. lua' \in BOOLEAN
    BY <1>5, Zenon DEF lua_close
  <2>. QED
    BY <1>5, <2>1 DEF lua_close, RestTyped, Place, inputVars, targetVars
<1>6. CASE wm_process_fini
  BY <1>6 DEF wm_process_fini, win_destroy, RestTyped, Place, inputVars
<1>7. CASE UNCHANGED vars
  BY <1>7 DEF vars, targetVars, inputVars, RestTyped
<1>. QED
  BY <1>1, <1>2, <1>3, <1>4, <1>5, <1>6, <1>7 DEF Next, Target, End

\* Every variable has its type, and a combo never outgrows its array (wm.c:78-112).
THEOREM WorkerTypes == Spec => []TypeOK
<1>1. Init => RestTyped
  <2>. SUFFICES ASSUME Init PROVE RestTyped
    OBVIOUS
  <2>1. lua \in BOOLEAN /\ poll \in BOOLEAN
    BY Zenon DEF Init
  <2>. QED
    BY <2>1 DEF Init, RestTyped, Place
<1>2. Init => ComboInv
  BY DEF Init, ComboInv
<1>3. RestTyped /\ LaunchInv /\ LoopInv /\ TargetInv /\ ComboInv => TypeOK
  BY ComboInvRead, PartsInOrder DEF RestTyped, LaunchInv, LoopInv, TargetInv, TypeOK
<1>. QED
  BY LaunchInvInit, LaunchInvStep, LoopInvInit, LoopInvStep, TargetInvInit, TargetInvStep,
     ComboInvStep, RestTypedStep, <1>1, <1>2, <1>3, PTL DEF Spec

====================================================================================
