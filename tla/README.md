# uniwm in TLA+

Specifications of uniwm, a scriptable companion to the Windows desktop: it hooks
the keyboard, watches windows, drives Explorer's virtual desktops and runs a Lua
script that uses all three, in a worker process that a supervisor starts again
when it ends. The modules here are translated from the C source; each says which
functions it models, and `PROJECT.json` maps every definition to its lines.

Check one run with `tlc -config watch_modes.cfg MCWindowWatch.tla`, one module of
proofs with `tlapm WindowWatchProofs.tla`.

## 1. The system

### Components

| Component | State | Operations | Source |
|---|---|---|---|
| Window watch | `watch.list` (entries: handle, known or only opened), `watch.focused`, `watch.poll`, `window_poll_tick`, the mc_wm event queue, the two WinEvent hooks | `wm_window_watch_ensure`, `target_window_sink`, `poll_windows`, `emit_window_event`, `wm_process_event`, `wm_tick`, `win_event_proc`, `win_on_window_changed` | `libuniwm/src/input.c`, `uniwm-windows/src/desktop_win.c` |
| Key suppression and bindings | `suppress` (combos, down array), `keybind` (bindings, down array), `input_wm.loop`, the `LuaCallback` records | `suppress_cb`, `wm_suppress_key`, `wm_unsuppress_key`, `wm_bind_key`, `wm_unbind_key`, `process_keybinds`, `l_supress_key`, `l_unsupress_key`, `l_register_keybind`, `l_unregister_keybind` | `libuniwm/src/input.c`, `libuniwm-lua/src/uniwm-lua.c` |
| Virtual desktops | `t->items` (entries: id, COM interface, name), the COM proxies of Explorer, the weak Lua table of desktop tables, queued `VDESKTOP_CHANGED` events | `refresh`, `win_get_vdesk`, `win_vdesk_current`, `win_vdesk_create`, `win_vdesk_open`, `notify_vdesk_changed`, `win_vdesk_windows`, `win_vdesk_move_window`, `l_vdesk_list`, `l_vdesk_current`, `l_vdesk_create`, `vdesk_switch`, `vdesk_windows`, `vdesk_move_window`, also size | `uniwm-windows/src/desktop_win.c`, `libuniwm/src/wm.c`, `libuniwm-lua/src/uniwm-lua.c` |
| Supervisor | the child's handles, the job, the time of the start | `run_supervisor`, `wm_proc_spawn_self`, `ensure_job`, `wm_proc_wait`, `wm_proc_close` | `uniwm/src/main.c`, `uniwm/src/proc_win.c` |
| Process lifecycle | `process_wm`, `process_ready`, `default_ti`, `input_wm`, `watch.active`, `watch.poll`, the parts of the target and its hooks, the Lua state | `wm_set_default`, `wm_input_ensure`, `wm_process`, `win_init`, `win_destroy`, `wm_process_fini`, `run_worker` | `libuniwm/src/wm.c`, `libuniwm/src/input.c`, `uniwm-windows/src/desktop_win.c`, `uniwm/src/main.c` |
| Key combo parser | none | `wm_key_combo_from_str` | `libuniwm/src/wm.c` |
| Command line | none | `append_quoted`, `parse_script`, the argument loop of `main` | `uniwm/src/proc_win.c`, `uniwm/src/main.c` |
| Lua surface and sample script | none of its own | `open_libuniwm`, `lua/uniwm.lua`, `config.lua` | |

External to the repository, and modelled from how the code uses it: Windows (its
windows, WinEvents, keyboard hook, processes and jobs), Explorer (its desktops,
through undocumented COM interfaces), and the mc library (the event queue, the
low-level keyboard hook and the enumeration of windows).

### How they interact

- *Everything in the worker runs on one thread*, but not in program order: Windows
  runs the keyboard hook and the WinEvent callbacks on it whenever it pumps
  messages, which it does in `mc_wm_poll_event` and inside calls into other
  processes (COM, and what callbacks do).
- Hook and WinEvent callbacks change `suppress.down`, `watch.list` and
  `watch.focused` at once and *queue* events. The loop of `run_worker` takes them
  out one by one, runs the Lua subscribers, then `wm_process_event`, which runs key
  callbacks and was meant to release the entries of destroyed windows.
- Lua callbacks call back into the tables and into Explorer.
- Explorer and its user change the desktops between any two calls into it.
- The supervisor shares nothing with its workers but process handles and a job. What a
  worker is and which script it runs reach it through one string, the command line,
  which the C runtime takes apart again.
- Almost every call of a script may be the first to need the target, which is then
  made part by part, or not at all.

### What is hard, and what makes each part correct

- *Window watch*: three sources (baseline poll, WinEvents, fallback poll) feed one
  registry at different times; events are late; handles are reused; the second hook
  may fail after the first. Correct when subscribers hear of each window once, in the
  order open, close, and in the end know what is on screen.
- *Keys*: two views of the keyboard separated by a queue; a table changed under the
  loop that walks it; memory owned by bindings. Correct when the table is a map, each
  press runs what it is due, and no key is left down for anyone.
- *Desktops*: a cache of another process's objects, filled one call at a time while
  that process changes. Correct when a desktop has one entry for good, each entry owns
  one reference to its own interface, and every answer is about the right desktop.
- *Windows of a desktop*: a list is put together window by window while windows open,
  move and close and the user switches. Correct when it names nothing that was never
  there and leaves out nothing that was there all along.
- *Lifecycle*: startup looks at few of its failures. Correct when the target is whole
  or gone after each attempt, and nothing is used that was never made.
- *Texts*: parsing and quoting at the limits of fixed arrays. Correct when a text means
  what it spells, and a child is the worker that was asked for.
- *Supervisor*: any step may fail and the process may be killed after any step.
  Correct when one worker runs at a time, none survives its supervisor, nothing leaks
  and a worker comes back without a tight loop.

`PROJECT.json` lists 40 hazards of this kind, each at its line with the properties
that would catch it or the reason none does yet.

## 2. The modules

| Module | What it is |
|---|---|
| `WindowWatch` | the window watch, the hooks of the windows target, other processes' windows, the worker's loop |
| `Keybinds` | both key tables, the keyboard and the hook, the Lua functions, `process_keybinds` |
| `BindingMap` | what the keybind table promises: a map from combos to callbacks (abstract) |
| `DesktopCache` | `refresh` and its cache, Explorer and its user, the Lua functions that answer from the cache |
| `DesktopWindows` | `windows()`, `move_window()` and `switch()`, the windows and desktops they act on, the `VDESKTOP_CHANGED` events |
| `SequenceFilter` | taking elements out of a table, in a form that can be reasoned about |
| `KeyCombo` | `wm_key_combo_from_str`, and the spelling of a combo it is compared with |
| `CommandLine` | the arguments `main` passes on, `append_quoted`, and the runtime that takes the line apart |
| `Worker` | `run_worker` from its arguments to its end; composes `KeyCombo` and `CommandLine` |
| `Supervisor` | `run_supervisor` and `wm_proc_*`, workers, the job, time |
| `MCWindowWatch`, `MCKeybinds`, `MCDesktopCache`, `MCDesktopWindows`, `MCWorker`, `MCSupervisor` | symmetry sets, and the combos, texts and arguments TLC uses |
| `InductionProofs` | lemmas: induction over the naturals, functions defined by iteration, what `Without` leaves |
| `ParserProofs` | theorems about `KeyCombo` and `CommandLine` |
| `WindowWatchProofs`, `KeybindsProofs`, `DesktopCacheProofs`, `DesktopWindowsProofs`, `WorkerProofs`, `SupervisorProofs` | theorems about the modules of those names |

A definition whose comment starts with "Mutant:" is a plausible bug in the definition
below it; it is part of no specification and shows that a property notices it.

### WindowWatch

`os`, `root`, `foreground` and `hooks` are Windows; `reg`, `focused`, `poll` and
`tick` are `watch.list`, `watch.focused`, `watch.poll` and `window_poll_tick`; `queue`
and `handling` are the mc_wm queue and the event the loop took. `reg` is a function
from handles because an entry is pushed only where `find_window` found none.

- `wm_window_watch_ensure` is one action per call, since other processes run between
  them: `WatchStarts` (with the baseline poll), `FindTarget`, `InstallWindowHook`,
  `InstallForegroundHook`, or `WatchUnavailable`.
- `DeliverWinEvent` runs `win_event_proc` for the oldest WinEvent, and with it the
  whole of `target_window_sink` (`SinkOpened`, `SinkCreated`, `SinkDestroyed`,
  `SinkFocused`).
- `PollEvent`, `ProcessEvent` and `QueueDrained` are the loop; `wm_tick` holds the
  whole of `poll_windows(true)`.
- `belief`, `told`, `reported` and `unhooked` are history: what a subscriber to every
  event knows, and which changes passed before a hook could see them. `told` tells the
  windows of one handle apart. `tick` is the remainder of `window_poll_tick`, which runs on.

Assumed of Windows: a handle is given out again only after everything raised for its
last window was handled (handles are recycled late), and WinEvents arrive in order.
The identity of an mc_wm window is its HWND, as `lua/uniwm.lua:92-94` says. A JSON
null read as a number is 0, the null handle. The MC_WindowRef counts are left out.

### Keybinds

A combo is a sequence of at most four keys. `supDown` is `suppress.down`, changed by
the hook in `KeyChanges`; `bindDown` is `keybind.down`, changed by `process_keybinds`
when it takes the event out of `queue`. `live` is the set of allocated `LuaCallback`
records. The loop over the bindings is `RunCallback`, `CallbackReturns` and
`LoopEnds`: between the first two, scripts register, unregister, suppress and type.
`wm_unbind_key` is `Unbound`, with the swap of the last binding into the hole.
`held` and `app` are the user's fingers and what applications saw; `due`, `intact` and
`fired` are history.

`Careful` restricts the user and the script for two properties that hold only then:
keys are released in the reverse order and suppressions change while no key is held.
The fault "timeout" is a hook that Windows does not wait for.

### DesktopCache

An entry is never removed before `win_destroy`, so its place in `items` stands for the
`WM_VDesktop` pointer and for the Lua table made for it. `refs` counts the references
to each desktop's interface. `refresh` is `GetDesktops`, one `RefreshElement` per
element and `RefreshEnds`, so that Explorer changes in between; each Lua function is a
`Call…` action, one or more refreshes and an action that answers. `current()` and
`create()` refresh again in `push_vdesk_ptr`. `answer` is history: what was returned,
and what it should have been about. The fault "id" is a `GetID` that fails: `refresh`
then compares an uninitialised `GUID`, so any id is possible (`IdReadByRefresh`). The fault
"count" is a `GetCount` that fails, which nobody looks at: `refresh` then succeeds without
having visited an element.
"explorer" is an Explorer that goes away, whose proxies fail for ever.

### DesktopWindows

`world` is Explorer and the windows: the open desktops, the one on screen, and for each
window its desktop and whether it is plain, a ghost (cloaked by Windows although its
desktop is on screen) or hidden (not visible, or untitled). That a table stays its own
desktop's is what `DesktopCache` shows, so here a table *is* its desktop and the refresh
in `checked_vdesk` only succeeds or fails.

`win_vdesk_windows` is `wm_vdesktop_windows` (is there a manager), `vdesk_is_current`
(which decides once whether cloaked windows are left out), `EnumWindows`, and for each
window `FilterWindow` and `MatchWindow`; `Explorer` takes steps between any two of these.
`GetViewForHwnd` and `MoveViewToDesktop` are `win_vdesk_move_window`, `SwitchDesktop` and
`notify_vdesk_changed` are `wm_vdesktop_switch`. `worlds` is history: the states that
passed during the call, against which an answer is judged, and `silent` the failures of
the call that the code does not look at: `windows()` then answers as if nothing had
happened. `told` and `external` are history too: what subscribers have heard, and whether somebody else has switched since.

### KeyCombo and CommandLine

Functions without state. A text is a sequence of characters in which the name of a key,
or a flag, counts as one. `wm_key_combo_from_str` walks a text as the code does and is
compared with `Spelling`, which writes a combo down. `CommandLineOf` builds the line with
its limits and with only the quotes escaped; `ArgumentsOf` is the C runtime, external.
`MultiByteToWideChar` is what becomes of an argument on the way: `main` has it in the code
page of the system and the code reads it as UTF-8, so that a character which is not ASCII
(`Foreign`) comes out as a `Replacement`. The code page is taken to have one byte for a
character.

The loops are recursive functions, not `SelectSeq`, `FoldLeft` or `RECURSIVE` operators,
which the provers cannot follow; for the same reason the tables of `Keybinds` and the
arguments `main` passes on use `Without` where `SelectSeq` would do.

### Worker

A behaviour starts with the arguments of `uniwm.exe`, goes over the command line into the
child, and follows `run_worker`. `win_init` is one action per part it asks for; a part it
needs and does not get gives back what `Undone` says. `caller` is where `wm_process`
returns to: the window watch, a call about the target or one about the keyboard. The calls
of a script appear only as far as they need the input or the target; what they do to their
tables is in the other modules. `wm_set_default` forgets the arguments, which are not
looked at again.

### Supervisor

One action per call of `wm_proc_spawn_self` that can fail or that a kill can separate
from the next one. `held` are the processes with open handles, `jobbed` those in the
job; when the supervisor ends, its handles close and the job's processes die. `ran` and
`left` count time up to the limits the code compares with; one unit is 500 ms in
`super_restarts.cfg`. A process that `TerminateProcess` ends is gone at once (the code
closes its handles without waiting); the fault "terminate" is one that goes on.

## 3. What the runs show

| Run | Bounds | Result |
|---|---|---|
| `watch_reactive` | 2 handles, one window each, 3 WinEvents and about 2 events waiting, no failures | `TypeOK`, `OpenBeforeClose`, `CreatedOnce`, `QuietAfterClose`, `ShownIsAnnounced`, `FocusIsReported` |
| `watch_modes` | 1 handle, one window, polls every 3 ticks, the input, target and hooks may fail | `CreatedOnce`, `EventuallyAnnounced`, `EventuallyRetracted` |
| `watch_reused_handle` | 1 handle, two windows in turn | `ShownIsAnnounced` fails |
| `keys_tables` | 3 combos on 3 keys, a table of 2, 3 records, registration and allocation may fail, the hook may time out | `TypeOK`, `UniqueCombos`, `BoundExactlyLive`, `RunsWhatIsDue`, `ImplementsMap` |
| `keys_typing` | 4 combos on 3 keys, a table of 2, 3 events waiting, careful typing | `KeybindsFollowHook`, `NoPhantomKey`, `NoStuckKey` |
| `keys_rerun` | 2 combos, a table of 2 | `OncePerPress` fails |
| `desktops_cache` | 3 desktops, 3 calls, the user creates, closes, moves and switches; failing calls, allocations, and an Explorer that goes away | `TypeOK`, `UniqueEntries`, `OwnInterface`, `RefsBalanced`, `AnswersMatch`, `ListIsComplete`, `EntriesStay` |
| `desktops_closed` | 2 desktops | `ListIsExact` fails |
| `desktops_current` | 2 desktops | `CurrentIsFound` fails |
| `desktops_windows` | 2 windows, 2 desktops, 2 calls, 2 changes by others; all failures but that of an event (below) | `TypeOK`, `AnswerIsSound`, `NoneLeftOut`, `SwitchesAreTold` |
| `worker_launch` | all command lines of up to 3 arguments of up to 2 characters (one of 3), all texts of up to 5 names and pluses, limits of 3 arguments, 19 characters and 2 keys, every failure | `TypeOK`, `ChildIsWorker`, `ScriptAsAsked`, `CombosMeanTheirText`, `TargetIsWhole`, `LoopHasInput` |
| `super_restarts` | 3 processes, both delays, spawn, allocation and kills | `TypeOK`, `OneWorker`, `NoOrphanRuns`, `NoHandleLeaks`, `StartsApart`, `WorkerComesBack` |

Why the bounds are enough. Windows interact only through the shared queue and
`watch.focused`, so two handles show every interference; three WinEvents hold the
create, show and destroy of a window at once. A table of two bindings has a hole in
the middle, a last entry to swap and an overflow with three combos; plain, Ctrl and
Shift on one key give a shorter and two equally specific combos. Three calls suffice
to fill the cache, to grow it and to use a table handed out before. In `desktops_windows`
a window can be changed twice within a call, or once while another is visited, and a
switch by the user can fall before and after one by the script; no property tells two
windows or two desktops apart. The limits of `worker_launch` are small so that each is
met: the fourth argument is dropped, the line is full in the middle of an argument,
between a backslash and its quote and before the closing quote, one argument is too long
to be converted, and a text names a third key. The supervisor
never works on two processes at once; the third is room for one it lost track of.
Deadlock is checked except where a run may really stop: the script of
`DesktopCache` and `DesktopWindows` has made its `MaxCalls`, the worker is in its loop or
gone, the supervisor has ended, or the watch never started (`watch_modes`).

Five failures in `windows()` go unnoticed by the code, which answers all the same. A current
desktop that cannot be asked for counts as not current ("current", `desktop_win.c:537`) and
a window that `DwmGetWindowAttribute` says nothing of as not cloaked ("cloaked", 509): in
both cases ghosts are listed. An enumeration that fails visits some windows only
("enumerate", 565), and a window whose desktop is not told ("desktop", 523-526) or that
cannot be resolved ("resolve", `wm.c:183-197`) is passed over. All five occur in
`desktops_windows`; `AnswerIsSound` speaks of ghosts only in calls in which neither of the
first two was met, and `NoneLeftOut` only of calls without the other three. Each of the five
exceptions is needed: without it TLC finds the property violated. That no other failure
does harm is part of what is proved. An event that cannot be made is dropped and breaks
`SwitchesAreTold`; it is the one failure the run leaves out.

`watch_reactive` gives each window a handle of its own. With two windows to a handle
`ShownIsAnnounced` is violated, which `watch_reused_handle` shows, and `FocusIsReported` is
too: `watch.focused` keeps the handle of a window that has closed, so that the focus of a
new window with that handle is taken for no change (`input.c:474`). No line of the
repository speaks of the second, so it is a note on its hazard and no run of its own.

### Where the code differs from what it says

- `watch_reused_handle` (`input.c:559`): the release of a destroyed window reads
  `"window"`, which is null, instead of `"window_id"`. No entry ever goes: a reused
  handle is never announced, and with the fallback poll every closed window is reported
  destroyed again every 8 ticks. With the other key the run passes, and `watch_modes`
  passes with two windows per handle.
- `keys_rerun` (`input.c:547`): a callback that registers its own combo again is run
  a second time by the same press (not a third: the binding is then the last one); the same walk over a changing table leaves a combo out when
  a callback removes one that was run before it.
- `desktops_closed` (`desktop_win.c:247`): `valid` is written and never read, so
  `list()` keeps closed desktops, in the order they were first seen.
- `desktops_current` (`desktop_win.c:470`): only an empty cache is refreshed, so
  `current()` is nil on a desktop created since.

Other behaviours met on the way are hazards with a note: with the fault "id" a desktop
can get two entries; with "wait" two workers can run; with "terminate" one that could
not be kept can run beside the next; with "count" a list that is empty although refresh
succeeded; with "job" or "assign" a worker can outlive its supervisor; with "resume" the supervisor waits for ever; without
`Careful` an application can keep a key down; when the user leaves a desktop while
`windows()` lists it, all its windows are cloaked and the list can be empty; an argument
with a backslash before a quote or at its end, or with a character that is not ASCII, does
not reach the worker as it is (`Faithful`), so a script whose path has an umlaut is not
found; a worker whose input was made late loops without a window watch.

### Fairness

- `WindowWatch!FairSpec`: the worker's thread keeps running (`WF(Worker)`); a
  subscriber returns and a queued event is taken (`WF` of `PollEvent` and
  `ProcessEvent`). `SF(DeliverWinEvent)` and `SF(QueueDrained)` say that each round of
  the loop pumps and that a queue which is empty again and again lets a round reach
  `wm_tick`: `mc_wm_poll_event` pumps before it answers and the loop then sleeps 16 ms
  (`main.c:62-71`). Other processes owe nothing.
- `Supervisor!FairSpec`: the supervisor is scheduled and time passes (`WF`); a spawn
  retried for ever succeeds at last (`SF` of its three fallible steps), the assumption
  under which retrying makes sense. Nothing makes a worker exit, and nothing makes a
  supervisor that has returned go away.

## 4. What is proved

TLAPS proves these for every value of the constants: any number of handles, keys,
combos, desktops, windows and processes, texts and arguments of any length, any limits and,
unless named, any set of failures. Every invariant and every property of single steps that
a passing run checks is a theorem; what a theorem assumes is what the run's constants say.

- *WindowWatch*: `TypeCorrect`; `AnnouncedOnce` (`CreatedOnce`) unless an entry cannot
  be made ("resolve", "grow"); `DestroyedWasAnnounced` (`OpenBeforeClose`) unless an
  event cannot be made or a hook fails ("event", "hook"). The first rests on
  `OpenIsKnown`: a window the subscribers take to be open has a known entry, because no
  step makes a known entry unknown while the entry is never released with the window
  gone. The second rests on `KnownIsAnnounced`, its converse, and on `NoHookYet`:
  before the hooks every entry comes from the baseline poll.
  `FocusIsKnown` (`FocusIsReported`), `NothingAfterClose` (`QuietAfterClose`) and
  `ShownIsKnown` (`ShownIsAnnounced`) assume `MaxWindows = 1`: any number of windows, but
  none with the handle of one before. That is no convenience: the first and the last are
  violated by reuse (section 3). `FocusIsKnown` holds unless an event cannot be made:
  `FocusInv` says that the window last told of is the one `watch.focused` has the handle of,
  and that the last focus event among the WinEvents waiting is that of the foreground
  window, or none waits and it was told already. All three rest on `GoneInv`, that a window which is gone stays gone and that a WinEvent of an end,
  or an end told, is of such a window. `NothingAfterClose` assumes the reactive mode (no failure of
  "process" or "hook"), for the fallback poll retracts closed windows again and again;
  `QuietInv` says that at most one WinEvent of a window's end waits and that its end has not
  been told. `ShownIsKnown` assumes that windows can be enumerated and entries and events made;
  `ShownInv` says that a visible window is announced, has a "show" waiting, or was shown
  between the baseline poll and the hook, and that no entry is known without having been told.
- *Keybinds*: `CombosAreUnique`, `RecordsAreBound`, `TableImplementsMap`,
  `BindingsFollowHook` (`KeybindsFollowHook`) and `PressRunsWhatIsDue` (`RunsWhatIsDue`)
  with any failures; `NoPhantom` (`NoPhantomKey`) as long as Windows waits for the hook;
  `NoKeyStuck` (`NoStuckKey`) if the typing is careful as well; `KeyboardTypes` (`TypeOK`). The
  invariant `TableInv` says that the bindings have distinct combos and distinct records
  and that the records are exactly the live ones; none of the parts is inductive alone,
  since `wm_unbind_key` removes only the first match and frees only its record. The
  refinement maps each combo to the set of its contexts; a registration is one step of
  `BindingMap`, a failed one an `Unbind`. `QueueInv` says that the events waiting lead from
  `keybind.down` to `suppress.down` and that each knows whether its key was up where it
  stands, so the worker finds a press fresh exactly when the hook did. `HeldInv` adds to
  `NoPhantomKey` that nothing is noted before there is a hook. `FireInv` says that, until a
  callback changes the table, the loop has run of the combos due those bound before its
  index; it needs `UniqueCombos` for "once", `QueueInv` for what is fresh, and that a combo
  has at most 4 keys, so that there is a longest.
  `CarefulInv` says that the hook decides on the release of a key as on its press: the keys
  held are distinct and the hook knows them, as long as anything is suppressed, those held
  under a key are the same at both, and a key whose press would be swallowed now is down in
  no application. It needs the order of the keys held, not only their set, and a guess
  without the clause on suppressions fails: the hook may be installed while keys are held.
- *DesktopCache*: `TypeCorrect` and `ReferencesBalance` with any failures;
  `DesktopsHaveOneEntry`, `TablesReachTheirDesktop`, `AnswersAreRight` and
  `EntriesOutlastRefresh` unless `GetID` fails (an entry can then get the interface of
  another desktop); `ListLeavesOutNone` unless `GetID`, `GetAt` or `GetCount` fails. The
  invariant `CacheInv` joins the types with `RefsBalanced`, because a count can only be
  kept from falling below zero by the entry that holds it; `AnswerInv` adds that an
  entry has its own desktop's id and interface and that the call under way holds the
  entry of the desktop it is about, across every refresh between. `ListInv` says that each
  desktop refresh has passed has an entry, which stays since entries are never removed.
- *DesktopWindows*: `TypeCorrect`, `NothingFalse` (`AnswerIsSound`) and `NothingMissing`
  (`NoneLeftOut`) with any failures, the properties themselves naming the silent failures
  of the call that excuse it; `LastSwitchIsTold` (`SwitchesAreTold`) unless an event cannot
  be made. The answers are false of the world the call ends in, so the invariants speak of
  the worlds it has seen: `SoundInv` that each window past the filter and each one listed
  has its witnesses among them, `CompleteInv` that a window wanted in all of them is still
  to be visited, being looked up or listed. Both grow only weaker as `worlds` grows, which
  is why a step of Explorer keeps them. `ToldInv` says that the last event queued names
  the desktop on screen, or the switch is about to queue it.
- *Worker*: `TargetWholeOrGone` (`TargetIsWhole`) and `LoopPollsInput` (`LoopHasInput`)
  with any failures. `TargetInv` says that while `win_init` is under way what it holds is
  what it needs of the parts before the next one, whatever optional ones failed, and that
  hooks are installed only with a target; `LoopInv` that whatever asks for the loop has
  made the input, which nothing takes away. `ChildWorks` (`ChildIsWorker`), `ScriptIsAsked`
  (`ScriptAsAsked`), `CombosAreRead` (`CombosMeanTheirText`) and `WorkerTypes` (`TypeOK`) hold
  for every set of texts and command lines: `LaunchInv` says what is known of the line from
  the supervisor's `main` to the child's choice of a script, and the rest is what the parsers
  compute, below.
- *Parsers*, for texts of any length: `ComboIsItsText` (`wm_key_combo_from_str` takes exactly
  the texts that spell a combo, and for that combo), `ArgumentsArrive` (the runtime reads the
  arguments that were written, if all are ASCII, none has a backslash before a quote or at its
  end and there is room for all) and `FlagArrives` (the child reads the worker's flag whatever follows it, in whatever characters,
  and wherever the line is cut). What a recursive function computes is shown in two steps: a
  function that satisfies the equations is given (`Reading` for the combos; by `Iteration`,
  a function that goes from element to element, for the loops), and no other one satisfies
  them, for at the first place where two differ they agree on what that place is made of.
  `InductionProofs` has the induction for both, with sets for predicates, which the provers
  can instantiate. `ArgumentsArrive` rests on an invariant of the reader: inside the quotes of
  an argument it has the arguments before, the characters so far and the backslashes still
  open, which are the last ones of the argument (`EscapedReads`, `QuotedReads`); a blank or
  the end of the line closes the argument (`Ended`). For `FlagArrives` only the first
  argument counts: the flag fits (`CapAssumption`), is read first (`FlagFits`), and no
  character written later changes an argument that is complete (`MarkedLine`).
- *Supervisor*: `TypeCorrect`, `HandlesComeBack`, `StartsAreApart` with any failures;
  `OneWorkerRuns` unless the wait or `TerminateProcess` fails; `NoOrphanEver` unless the job cannot be made
  or joined. `HandleInv` ties the open handles to the place in the code; `DelayInv`
  says that a sleep and the time since the start add up to the delay; `OneInv` and
  `JobInv` say where the one process that may run is.

The assumptions on constants are those of the `ASSUME`s: finite handles, positive
period, `RestartDelay <= MinHealthy` (1000 and 2000 in `main.c`), characters and flags that
differ, flags and separators of ASCII, a path of the executable without quotes that leaves
room for the flag (`GetModuleFileNameW` gives at most `MAX_PATH` characters, and Windows
allows no quote in a file's name). The history variables exist in the models only.

Only model-checked: the liveness properties `EventuallyAnnounced`, `EventuallyRetracted` and
`WorkerComesBack`, since fairness is beyond TLAPS here. TLC checks them within the bounds. The
properties of the violation runs are false of the code, so there is nothing to prove.

## 5. What is not modelled

- `size()`: it reads the work area of the monitor and changes nothing.
- Names of desktops, titles and the text of messages; the Lua argument checks, the module
  tables and the weak table of desktop tables, which Lua keeps.
- MC_WindowRef counts, and what a callback raises: `keybind_cb` uses its record after the
  call, also when the callback has unregistered itself. By `BoundExactlyLive` the record
  is freed by then; nothing in the repository says what should happen.
- The script itself: `config.lua` is an example, and a script is any sequence of calls.
- Build files and headers, which hold no behaviour.

## 6. Plan

Done, in this order: `WindowWatch`; `Keybinds` with `BindingMap` and the refinement between
them; `DesktopCache`; `Supervisor`; `DesktopWindows`; `KeyCombo`, `CommandLine` and
`Worker`; a theorem for every invariant of the runs. Left:

1. An abstract specification of the watch (a window's life as its subscribers see it:
   unknown, open, closed) and the proof that `WindowWatch` implements it when nothing fails,
   from `OpenIsKnown`, `KnownIsAnnounced` and `GoneInv`.
2. What the theorems say of each failure they exclude: that it alone, and not the others,
   breaks the property; and the action properties of `WindowWatch` and `Supervisor`.
3. Callbacks that raise, and the record that `keybind_cb` uses afterwards, in `Keybinds`;
   window references in `WindowWatch`.
