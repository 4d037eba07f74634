----------------------------- MODULE DesktopWindows -----------------------------
(***************************************************************************)
(* What a script does with the table of a virtual desktop: windows(),      *)
(* move_window() and switch() (libuniwm-lua/src/uniwm-lua.c), through      *)
(* libuniwm/src/wm.c down to the windows target                            *)
(* (uniwm-windows/src/desktop_win.c), and the VDESKTOP_CHANGED events that *)
(* a switch queues for the worker's loop.                                  *)
(*                                                                         *)
(* Windows, their processes and the user of Explorer go on between any two *)
(* calls the worker makes.  That a table stays one desktop's is what       *)
(* DesktopCache shows, so a table is its desktop here and the refresh in   *)
(* checked_vdesk only succeeds or fails.  Windows cloaks what is not on    *)
(* the desktop on screen; a ghost is a window that is cloaked even there.  *)
(***************************************************************************)
EXTENDS Integers, Sequences, FiniteSets

CONSTANTS
  Window,     \* top-level windows
  Desktop,    \* the desktops scripts have tables of
  NoDesktop,  \* where a window is that does not exist
  NoWindow,   \* what a call names that takes no window
  Faults,     \* the calls that may fail
  MaxCalls,   \* bound: calls of the script in one run
  MaxChanges  \* bound: what the user and the processes do in one run

\* The failures that windows() goes on after without a word.
Silent == {"current", "enumerate", "cloaked", "desktop", "resolve"}

FaultKind == Silent \cup {"target", "refresh", "mc_wm", "view", "move", "switch", "event"}

ASSUME NoneAssumption   == NoDesktop \notin Desktop /\ NoWindow \notin Window
ASSUME FaultAssumption   == Faults \subseteq FaultKind
ASSUME BoundAssumption   == MaxCalls \in Nat /\ MaxChanges \in Nat

VARIABLES
  \* Explorer and the windows
  world,     \* the desktops that are open, the one on screen, per window its desktop and
             \* its style: "plain", "ghost", or "hidden" when not visible or untitled
  changes,   \* changes so far
  \* the worker
  target,    \* the optional interfaces that win_init found
  pc,        \* where the worker is
  call,      \* the call under way
  skip,      \* skip_cloaked
  todo,      \* windows that EnumWindows has still to visit
  passed,    \* the window whose desktop is looked up next
  listed,    \* the windows collected
  calls,     \* calls so far
  queue,     \* VDESKTOP_CHANGED events, by their desktop
  \* history
  told,      \* the desktop that the last event handled has named
  external,  \* the desktop on screen is not the choice of the last switch()
  worlds,    \* the states of the windows during the call
  silent,    \* the silent failures during the call
  answer     \* what the last call answered

historyVars == <<told, external>>
seenVars    == <<worlds, silent>>
listingVars == <<skip, todo, passed, listed>>
vars == <<world, changes, target, pc, call, skip, todo,
          passed, listed, calls, queue, told, external, worlds, silent, answer>>

Control  == {"script", "check", "manager", "current", "enumerate", "visit", "view",
             "move", "open", "notify"}
Call     == [of : {"windows", "switch"}, desk : Desktop, win : {NoWindow}]
              \cup [of : {"move"}, desk : Desktop, win : Window]
NoCall   == [of |-> "none", desk |-> NoDesktop, win |-> NoWindow]
World    == [open : SUBSET Desktop, current : Desktop,
             place : [Window -> Desktop \cup {NoDesktop}],
             style : [Window -> {"plain", "ghost", "hidden"}]]
Answer   == [of : {"none", "windows", "move", "switch", "error"},
             desk : Desktop \cup {NoDesktop}, windows : SUBSET Window]
NoAnswer == [of |-> "none", desk |-> NoDesktop, windows |-> {}]

\* The type invariant: a window passes the filter only while it is being visited
\* (desktop_win.c:512-533).
TypeOK ==
  /\ world \in World
  /\ changes \in 0 .. MaxChanges
  /\ target \subseteq {"vdm", "avc"}
  /\ pc \in Control
  /\ call \in Call \cup {NoCall}
  /\ pc = "script" <=> call = NoCall
  /\ skip \in BOOLEAN
  /\ todo \subseteq Window
  /\ passed \subseteq Window
  /\ passed # {} => pc = "visit" /\ passed \cap todo = {}
  /\ listed \subseteq Window
  /\ calls \in 0 .. MaxCalls
  /\ queue \in Seq(Desktop)
  /\ told \in Desktop \cup {NoDesktop}
  /\ external \in BOOLEAN
  /\ worlds \subseteq World
  /\ silent \subseteq Silent
  /\ answer \in Answer

MayFail(fault) == IF fault \in Faults THEN BOOLEAN ELSE {FALSE}

\* None of these calls fails, or one does.
Failing(some) == {{}} \cup {{fault} : fault \in some \cap Faults}

-----------------------------------------------------------------------------
(* Explorer, its user and the processes of the windows.                    *)

Exists(w) == world.place[w] # NoDesktop

\* Visible, with a title.
Shown(w) == Exists(w) /\ world.style[w] # "hidden"

\* DWMWA_CLOAKED
Cloaked(w) == world.place[w] # world.current \/ world.style[w] = "ghost"

UserSwitches == \E d \in world.open : world' = [world EXCEPT !.current = d]

\* The windows of a desktop that is closed go to another one, which is shown if
\* the one closed was on screen.
DesktopCloses ==
  \E d, fallback \in world.open :
    /\ d # fallback
    /\ world' = [world EXCEPT
         !.open = @ \ {d},
         !.current = IF @ = d THEN fallback ELSE @,
         !.place = [w \in Window |-> IF @[w] = d THEN fallback ELSE @[w]]]

WindowOpens ==
  \E w \in Window, s \in {"plain", "ghost", "hidden"} :
    /\ ~Exists(w)
    /\ world' = [world EXCEPT !.place[w] = world.current, !.style[w] = s]

WindowMoves ==
  \E w \in Window, d \in world.open : Exists(w) /\ world' = [world EXCEPT !.place[w] = d]

WindowChanges ==
  \E w \in Window, s \in {"plain", "ghost", "hidden"} :
    Exists(w) /\ world' = [world EXCEPT !.style[w] = s]

WindowCloses ==
  \E w \in Window :
    Exists(w) /\ world' = [world EXCEPT !.place[w] = NoDesktop, !.style[w] = "hidden"]

Explorer ==
  /\ changes < MaxChanges
  /\ changes' = changes + 1
  /\ \/ UserSwitches
     \/ DesktopCloses
     \/ WindowOpens
     \/ WindowMoves
     \/ WindowChanges
     \/ WindowCloses
  /\ external' = (external \/ world'.current # world.current)
  /\ worlds' = IF pc = "script" THEN {} ELSE worlds \cup {world'}
  /\ silent' = IF pc = "script" THEN {} ELSE silent
  /\ answer' = NoAnswer
  /\ UNCHANGED <<target, pc, call, listingVars, calls, queue, told>>

-----------------------------------------------------------------------------
(* The calls of the script.                                                *)

Return(of, windows) ==
  /\ pc' = "script"
  /\ call' = NoCall
  /\ answer' = [of |-> of, desk |-> call.desk, windows |-> windows]

RaiseError == Return("error", {})

GoOn(at) == pc' = at /\ UNCHANGED <<call, answer>>

CallTable ==
  /\ pc = "script"
  /\ calls < MaxCalls
  /\ calls' = calls + 1
  /\ call' \in Call
  /\ pc' = "check"
  /\ worlds' = {world}
  /\ silent' = {}
  /\ answer' = NoAnswer
  /\ UNCHANGED <<world, changes, target, listingVars, queue, historyVars>>

\* What comes after the test of the table.
First == [windows |-> "manager", move |-> "view", switch |-> "open"]

checked_vdesk ==
  /\ pc = "check"
  /\ \E failed \in MayFail("refresh") :
       IF failed THEN RaiseError ELSE GoOn(First[call.of])
  /\ UNCHANGED <<world, changes, target, listingVars, calls, queue, historyVars, seenVars>>

\* wm_vdesktop_windows, up to the test of vdm in win_vdesk_windows.
wm_vdesktop_windows ==
  /\ pc = "manager"
  /\ \E failed \in MayFail("mc_wm") :
       IF failed \/ "vdm" \notin target THEN RaiseError ELSE GoOn("current")
  /\ UNCHANGED <<world, changes, target, listingVars, calls, queue, historyVars, seenVars>>

\* A desktop that cannot be asked for is not the current one.
vdesk_is_current ==
  /\ pc = "current"
  /\ \E failed \in Failing({"current"}) :
       /\ skip' = (failed = {} /\ world.current = call.desk)
       /\ silent' = silent \cup failed
  /\ GoOn("enumerate")
  /\ UNCHANGED <<world, changes, target, todo, passed, listed, calls, queue,
                 historyVars, worlds>>

\* The result of EnumWindows is not looked at: if it fails, it visits some windows.
EnumWindows ==
  /\ pc = "enumerate"
  /\ \E failed \in Failing({"enumerate"}), left \in SUBSET Window :
       /\ failed = {} => left = {}
       /\ todo' = {w \in Window \ left : Exists(w)}
       /\ silent' = silent \cup failed
  /\ GoOn("visit")
  /\ UNCHANGED <<world, changes, target, skip, passed, listed, calls, queue, historyVars, worlds>>

\* Mutant: cloaked windows are left out of every desktop's list.
FilterAlways ==
  /\ pc = "visit" /\ passed = {}
  /\ \E w \in todo :
       /\ todo' = todo \ {w}
       /\ passed' = {v \in {w} : Shown(v) /\ ~Cloaked(v)}
  /\ UNCHANGED <<world, changes, target, pc, call, skip, listed, calls, queue,
                 historyVars, seenVars, answer>>

\* enum_vdesk_windows, up to the test for cloaked windows: one that DwmGetWindowAttribute
\* says nothing of is not cloaked.
FilterWindow ==
  /\ pc = "visit" /\ passed = {}
  /\ \E w \in todo, failed \in Failing({"cloaked"}) :
       /\ failed # {} => skip /\ Shown(w)
       /\ todo' = todo \ {w}
       /\ passed' = {v \in {w} : Shown(v) /\ (skip /\ Cloaked(v) => failed # {})}
       /\ silent' = silent \cup failed
  /\ UNCHANGED <<world, changes, target, pc, call, skip, listed, calls, queue,
                 historyVars, worlds, answer>>

\* Mutant: the desktop of a window is not looked up on the current desktop.
MatchUncloaked ==
  /\ passed # {}
  /\ passed' = {}
  /\ listed' = listed \cup {w \in passed : skip \/ world.place[w] = call.desk}
  /\ UNCHANGED <<world, changes, target, pc, call, skip, todo, calls, queue,
                 historyVars, seenVars, answer>>

\* enum_vdesk_windows asks for the window's desktop; resolve_window_handle passes
\* it on to collect_vdesk_window.  A window whose desktop is not told, or that cannot
\* be resolved, is passed over.
MatchWindow ==
  /\ passed # {}
  /\ passed' = {}
  /\ \E failed \in Failing({"desktop", "resolve"}) :
       LET here == {w \in passed : world.place[w] = call.desk} IN
       /\ failed = {"resolve"} => here # {}
       /\ listed' = IF failed = {} THEN listed \cup here ELSE listed
       /\ silent' = silent \cup failed
  /\ UNCHANGED <<world, changes, target, pc, call, skip, todo, calls, queue,
                 historyVars, worlds, answer>>

\* Mutant: the answer is given while the last window is still looked at.
AnswersEarly ==
  /\ pc = "visit" /\ todo = {}
  /\ Return("windows", listed)
  /\ listed' = {}
  /\ skip' = FALSE
  /\ UNCHANGED <<world, changes, target, todo, passed, calls, queue, historyVars, seenVars>>

WindowsAnswers ==
  /\ pc = "visit" /\ passed = {} /\ todo = {}
  /\ Return("windows", listed)
  /\ listed' = {}
  /\ skip' = FALSE
  /\ UNCHANGED <<world, changes, target, todo, passed, calls, queue, historyVars, seenVars>>

\* win_vdesk_move_window: the view of the window, and then the move.
GetViewForHwnd ==
  /\ pc = "view"
  /\ \E failed \in MayFail("view") :
       IF failed \/ "avc" \notin target \/ ~Exists(call.win) THEN RaiseError ELSE GoOn("move")
  /\ UNCHANGED <<world, changes, target, listingVars, calls, queue, historyVars, seenVars>>

MoveViewToDesktop ==
  /\ pc = "move"
  /\ \/ /\ "move" \in Faults \/ ~Exists(call.win) \/ call.desk \notin world.open
        /\ RaiseError
        /\ UNCHANGED <<world, worlds>>
     \/ /\ Exists(call.win) /\ call.desk \in world.open
        /\ world' = [world EXCEPT !.place[call.win] = call.desk]
        /\ worlds' = worlds \cup {world'}
        /\ Return("move", {})
  /\ UNCHANGED <<changes, target, listingVars, calls, queue, historyVars, silent>>

\* Mutant: the event is queued before the switch is made.
OpenNotifiesFirst ==
  /\ pc = "open"
  /\ queue' = Append(queue, call.desk)
  /\ IF call.desk \in world.open
     THEN /\ world' = [world EXCEPT !.current = call.desk]
          /\ external' = FALSE
          /\ worlds' = worlds \cup {world'}
          /\ Return("switch", {})
     ELSE RaiseError /\ UNCHANGED <<world, external, worlds>>
  /\ UNCHANGED <<changes, target, listingVars, calls, told, silent>>

\* win_vdesk_open.
SwitchDesktop ==
  /\ pc = "open"
  /\ \/ /\ "switch" \in Faults \/ call.desk \notin world.open
        /\ RaiseError
        /\ UNCHANGED <<world, external, worlds>>
     \/ /\ call.desk \in world.open
        /\ world' = [world EXCEPT !.current = call.desk]
        /\ external' = FALSE
        /\ worlds' = worlds \cup {world'}
        /\ GoOn("notify")
  /\ UNCHANGED <<changes, target, listingVars, calls, queue, told, silent>>

\* notify_vdesk_changed.
notify_vdesk_changed ==
  /\ pc = "notify"
  /\ \E failed \in MayFail("event") :
       queue' = IF failed THEN queue ELSE Append(queue, call.desk)
  /\ Return("switch", {})
  /\ UNCHANGED <<world, changes, target, listingVars, calls, historyVars, seenVars>>

\* The worker's loop runs the subscribers of the next event.
DispatchEvent ==
  /\ pc = "script"
  /\ queue # <<>>
  /\ told' = Head(queue)
  /\ queue' = Tail(queue)
  /\ worlds' = {}
  /\ silent' = {}
  /\ answer' = NoAnswer
  /\ UNCHANGED <<world, changes, target, pc, call, listingVars, calls, external>>

Script ==
  \/ CallTable
  \/ checked_vdesk
  \/ wm_vdesktop_windows
  \/ vdesk_is_current
  \/ EnumWindows
  \/ FilterWindow
  \/ MatchWindow
  \/ WindowsAnswers
  \/ GetViewForHwnd
  \/ MoveViewToDesktop
  \/ SwitchDesktop
  \/ notify_vdesk_changed
  \/ DispatchEvent

-----------------------------------------------------------------------------
Init ==
  /\ world \in {x \in World : x.open = Desktop}
  /\ \A w \in Window : ~Exists(w) => world.style[w] = "hidden"
  /\ changes = 0
  /\ target \in IF "target" \in Faults THEN SUBSET {"vdm", "avc"} ELSE {{"vdm", "avc"}}
  /\ pc = "script"
  /\ call = NoCall
  /\ skip = FALSE
  /\ todo = {}
  /\ passed = {}
  /\ listed = {}
  /\ calls = 0
  /\ queue = <<>>
  /\ told = NoDesktop
  /\ external = TRUE
  /\ worlds = {}
  /\ silent = {}
  /\ answer = NoAnswer

Next == Explorer \/ Script

Spec == Init /\ [][Next]_vars

-----------------------------------------------------------------------------
(* What windows() answers, against the states that passed during the call. *)

Steady(d) == \A x \in worlds : x.current = d

\* windows() names no window that was not on the desktop, or not visible, all
\* through the call, and no ghost on the desktop that stayed on screen, unless it could
\* not ask what is on screen or cloaked: whatever else failed on the way
\* (uniwm.lua:30-31, desktop_win.c:507-568).
AnswerIsSound ==
  answer.of = "windows" =>
    \A w \in answer.windows :
      /\ \E x \in worlds : x.place[w] = answer.desk
      /\ \E x \in worlds : x.style[w] # "hidden"
      /\ Steady(answer.desk) /\ silent \cap {"current", "cloaked"} = {} =>
           \E x \in worlds : x.style[w] = "plain"

\* A window to be listed: visible, and no ghost where ghosts are left out.
Listable(w, x) ==
  /\ x.place[w] = answer.desk
  /\ x.style[w] = "plain" \/ (x.style[w] = "ghost" /\ x.current # answer.desk)

\* windows() leaves out no window that was to be listed all through the call, as
\* long as the desktop on screen stays the same (the test of vdesk_is_current is
\* not repeated while the windows are visited) and every window was visited and told of:
\* even if it could not ask what is on screen or cloaked (desktop_win.c:507-568).
NoneLeftOut ==
  /\ answer.of = "windows"
  /\ silent \cap {"enumerate", "desktop", "resolve"} = {}
  /\ \E d \in Desktop : Steady(d)
  => \A w \in Window : (\A x \in worlds : Listable(w, x)) => w \in answer.windows

-----------------------------------------------------------------------------
(* What subscribers learn.                                                 *)

\* Once the events are handled, the last one has named the desktop on screen,
\* unless somebody else has switched since (wm.c:118-153).
SwitchesAreTold ==
  pc = "script" /\ queue = <<>> /\ ~external => told = world.current

=================================================================================
