----------------------------- MODULE WindowWatch -----------------------------
(***************************************************************************)
(* The window watch of libuniwm (libuniwm/src/input.c) together with the   *)
(* WinEvent source of the windows target (win_event_proc and               *)
(* win_on_window_changed in uniwm-windows/src/desktop_win.c) and the loop  *)
(* of the worker process (run_worker in uniwm/src/main.c).                 *)
(*                                                                         *)
(* Other processes open, show, hide, focus and close windows at any time.  *)
(* The watch learns of it from WinEvents, which Windows queues for the     *)
(* worker's thread and which run when that thread pumps messages, or, when *)
(* the hooks cannot be installed, from an enumeration every                *)
(* WINDOW_POLL_TICKS ticks.  What it learns it turns into events in the    *)
(* queue of the mc_wm library; the worker's loop takes them out, runs the  *)
(* Lua subscribers and then wm_process_event.                              *)
(*                                                                         *)
(* watch.list is a function from handles to the state of their entry: an   *)
(* entry is pushed only where find_window found none, so the list never    *)
(* holds a handle twice and its order only decides the order of the        *)
(* DESTROYED events of one poll, which is left open here.                  *)
(***************************************************************************)
EXTENDS Integers, Sequences, FiniteSets

CONSTANTS
  Handle,           \* the HWND values; a handle is reused once its window is gone
  NoHandle,         \* the null HWND, which is also a JSON null read as a number
  WindowPollTicks,  \* WINDOW_POLL_TICKS
  Faults,           \* the calls that may fail
  MaxWindows,       \* bound: windows opened with one handle in one run
  MaxHooks,         \* bound: WinEvents waiting for the worker's thread
  MaxEvents         \* bound: mc_wm events at which no further WinEvent is taken

FaultKind == {"input", "process", "hook", "resolve", "grow", "event", "enumerate"}

ASSUME HandleAssumption == IsFiniteSet(Handle) /\ NoHandle \notin Handle
ASSUME TicksAssumption  == WindowPollTicks \in Nat \ {0}
ASSUME FaultsAssumption == Faults \subseteq FaultKind
ASSUME BoundsAssumption == MaxWindows \in Nat \ {0} /\ MaxHooks \in Nat /\ MaxEvents \in Nat

VARIABLES
  \* Windows: the windows of all processes and the events raised for them
  os,          \* per handle: no window, a hidden one or a visible one
  root,        \* per handle: its window passes is_root_window
  opens,       \* per handle: windows opened so far
  foreground,  \* the last window a foreground event was raised for
  installed,   \* the WinEvent hooks in place
  hooks,       \* WinEvents waiting for the worker's thread to pump
  \* the worker process
  pc,          \* where its thread is
  reg,         \* watch.list: per handle, no entry, known = false or known = true
  focused,     \* watch.focused
  poll,        \* watch.poll
  tick,        \* the remainder of window_poll_tick by WINDOW_POLL_TICKS
  queue,       \* the mc_wm event queue
  handling,    \* the event the loop took last
  \* history
  belief,      \* per handle: what a subscriber to every event takes it to be
  told,        \* the last window reported focused: its handle, which one of the handle
  reported,    \* the pairs of an event's type and the belief it found
  unhooked     \* handles last shown or closed between the first poll and the hook

osVars      == <<os, root, opens, foreground, hooks, unhooked>>
watchVars   == <<reg, focused, poll, tick>>
historyVars == <<belief, told, reported>>
vars == <<os, root, opens, foreground, installed, hooks, pc, reg, focused,
          poll, tick, queue, handling, belief, told, reported, unhooked>>

-----------------------------------------------------------------------------
(* Types.                                                                   *)

WinEvent  == [kind : {"create", "show", "foreground", "destroy"}, hwnd : Handle]
EventType == {"created", "destroyed", "focused"}
Event     == [type : EventType, window_id : Handle, window : {NoHandle}]
NoEvent   == [type |-> "none", window_id |-> NoHandle, window |-> NoHandle]
Control   == {"start", "process", "hook_window", "hook_foreground", "loop",
              "dispatch", "tick", "inactive"}
Belief    == {"unknown", "open", "closed"}
Focus     == (Handle \cup {NoHandle}) \X (0 .. MaxWindows)

\* The type invariant: an event always names a window under "window_id" and none
\* under "window", and watch.focused is a window's handle or null (input.c:334-355,
\* 473-481).
TypeOK ==
  /\ os \in [Handle -> {"none", "hidden", "shown"}]
  /\ root \in [Handle -> BOOLEAN]
  /\ opens \in [Handle -> 0 .. MaxWindows]
  /\ foreground \in Handle \cup {NoHandle}
  /\ installed \subseteq {"window", "foreground"}
  /\ hooks \in Seq(WinEvent)
  /\ pc \in Control
  /\ reg \in [Handle -> {"absent", "opened", "known"}]
  /\ focused \in Handle \cup {NoHandle}
  /\ poll \in BOOLEAN
  /\ tick \in 0 .. WindowPollTicks - 1
  /\ queue \in Seq(Event)
  /\ handling \in Event \cup {NoEvent}
  /\ belief \in [Handle -> Belief]
  /\ told \in Focus
  /\ reported \subseteq EventType \X Belief
  /\ unhooked \subseteq Handle

-----------------------------------------------------------------------------
(* Windows.  A handle is given out again only after everything raised for  *)
(* its last window has been handled: HWND values are recycled late.        *)

Exists(h) == os[h] # "none"
ExistingWindows == {h \in Handle : Exists(h)}

is_root_window(h) == Exists(h) /\ root[h]

Pending(h) ==
  \/ \E i \in 1 .. Len(hooks) : hooks[i].hwnd = h
  \/ \E i \in 1 .. Len(queue) : queue[i].window_id = h
  \/ handling.window_id = h

\* The hook is told of the event, if it is installed.
Raise(hook, kind, h) ==
  IF hook \in installed
  THEN /\ Len(hooks) < MaxHooks
       /\ hooks' = Append(hooks, [kind |-> kind, hwnd |-> h])
  ELSE hooks' = hooks

WindowOpens(h) ==
  /\ os[h] = "none"
  /\ opens[h] < MaxWindows
  /\ ~Pending(h)
  /\ os' = [os EXCEPT ![h] = "hidden"]
  /\ \E r \in BOOLEAN : root' = [root EXCEPT ![h] = r]
  /\ opens' = [opens EXCEPT ![h] = @ + 1]
  /\ Raise("window", "create", h)
  /\ UNCHANGED <<foreground, unhooked>>

\* History: the change goes by without a WinEvent after the first poll.
Noted(h) == IF pc # "start" /\ "window" \notin installed
            THEN unhooked \cup {h} ELSE unhooked \ {h}

WindowShows(h) ==
  /\ os[h] = "hidden"
  /\ os' = [os EXCEPT ![h] = "shown"]
  /\ unhooked' = Noted(h)
  /\ Raise("window", "show", h)
  /\ UNCHANGED <<root, opens, foreground>>

\* EVENT_OBJECT_HIDE lies outside the range the hook asks for.
WindowHides(h) ==
  /\ os[h] = "shown"
  /\ os' = [os EXCEPT ![h] = "hidden"]
  /\ UNCHANGED <<root, opens, foreground, hooks, unhooked>>

WindowTakesFocus(h) ==
  /\ Exists(h)
  /\ foreground' = IF "foreground" \in installed THEN h ELSE foreground
  /\ Raise("foreground", "foreground", h)
  /\ UNCHANGED <<os, root, opens, unhooked>>

WindowCloses(h) ==
  /\ Exists(h)
  /\ os' = [os EXCEPT ![h] = "none"]
  /\ root' = [root EXCEPT ![h] = FALSE]
  /\ foreground' = IF foreground = h THEN NoHandle ELSE foreground
  /\ unhooked' = Noted(h)
  /\ Raise("window", "destroy", h)
  /\ UNCHANGED opens

System ==
  /\ \E h \in Handle :
       \/ WindowOpens(h)
       \/ WindowShows(h)
       \/ WindowHides(h)
       \/ WindowTakesFocus(h)
       \/ WindowCloses(h)
  /\ UNCHANGED <<installed, pc, watchVars, queue, handling, historyVars>>

-----------------------------------------------------------------------------
(* The registry and the events.                                            *)

MayFail(fault) == IF fault \in Faults THEN BOOLEAN ELSE {FALSE}

\* The part of S for which a call succeeds.
Some(fault, S) == IF fault \in Faults THEN SUBSET S ELSE {S}

\* register_window: nothing for an entry that exists, and nothing when the
\* window cannot be resolved or the vector cannot grow.
register_window(h, status) ==
  \E failed \in MayFail("resolve") \cup MayFail("grow") :
    reg' = IF reg[h] = "absent" /\ ~failed
           THEN [reg EXCEPT ![h] = status] ELSE reg

\* unregister_window, for an identity that need not be a handle.
Unregistered(identity) == [h \in Handle |-> IF h = identity THEN "absent" ELSE reg[h]]

\* Mutant: the payload's two keys are confused.
EventUnderWindow(type, h) == [type |-> type, window_id |-> NoHandle, window |-> h]

\* The payload names the window under "window_id" and has null under "window".
WindowEvent(type, h) == [type |-> type, window_id |-> h, window |-> NoHandle]

Told(type, b) ==
  CASE type = "created"   -> "open"
    [] type = "destroyed" -> "closed"
    [] OTHER              -> b

emit_window_event(type, h) ==
  \E failed \in MayFail("event") :
    IF failed
    THEN UNCHANGED <<queue, historyVars>>
    ELSE /\ queue' = Append(queue, WindowEvent(type, h))
         /\ belief' = [belief EXCEPT ![h] = Told(type, @)]
         /\ told' = IF type = "focused" THEN <<h, opens[h]>> ELSE told
         /\ reported' = reported \cup {<<type, belief[h]>>}

-----------------------------------------------------------------------------
(* target_window_sink, one operator per WM_WindowChange.                   *)

\* Mutant: a window that is only created counts as announced.
OpenedAsKnown(h) ==
  /\ register_window(h, "known")
  /\ UNCHANGED <<focused, queue, historyVars>>

SinkOpened(h) ==
  /\ register_window(h, "opened")
  /\ UNCHANGED <<focused, queue, historyVars>>

\* Mutant: an entry that is known already is announced again.
CreatedEveryShow(h) ==
  /\ \/ /\ reg[h] # "absent"
        /\ reg' = [reg EXCEPT ![h] = "known"]
        /\ emit_window_event("created", h)
     \/ /\ reg[h] = "absent"
        /\ register_window(h, "known")
        /\ emit_window_event("created", h)
  /\ UNCHANGED focused

SinkCreated(h) ==
  /\ \/ /\ reg[h] = "known"
        /\ UNCHANGED <<reg, queue, historyVars>>
     \/ /\ reg[h] = "opened"
        /\ reg' = [reg EXCEPT ![h] = "known"]
        /\ emit_window_event("created", h)
     \/ /\ reg[h] = "absent"
        /\ register_window(h, "known")
        /\ emit_window_event("created", h)
  /\ UNCHANGED focused

\* Mutant: an entry that was only opened is announced as destroyed.
DestroyedEveryEntry(h) ==
  /\ \/ /\ reg[h] = "absent"
        /\ UNCHANGED <<reg, queue, historyVars>>
     \/ /\ reg[h] # "absent"
        /\ emit_window_event("destroyed", h)
        /\ UNCHANGED reg
  /\ UNCHANGED focused

\* Mutant: the window with the focus is skipped.
DestroyedByOthers(h) ==
  /\ \/ /\ reg[h] # "known"
        /\ UNCHANGED <<reg, queue, historyVars>>
     \/ /\ reg[h] = "known"
        /\ IF h = focused
           THEN UNCHANGED <<queue, historyVars>>
           ELSE emit_window_event("destroyed", h)
        /\ UNCHANGED reg
  /\ UNCHANGED focused

SinkDestroyed(h) ==
  /\ \/ /\ reg[h] = "absent"
        /\ UNCHANGED <<reg, queue, historyVars>>
     \/ /\ reg[h] = "known"
        /\ emit_window_event("destroyed", h)
        /\ UNCHANGED reg
     \/ /\ reg[h] = "opened"
        /\ reg' = Unregistered(h)
        /\ UNCHANGED <<queue, historyVars>>
  /\ UNCHANGED focused

\* Mutant: only a window announced before may get the focus.
FocusedOnceKnown(h) ==
  \/ /\ h = focused
     /\ UNCHANGED <<reg, focused, queue, historyVars>>
  \/ /\ h # focused
     /\ focused' = h
     /\ register_window(h, "opened")
     /\ IF reg[h] = "known"
        THEN emit_window_event("focused", h)
        ELSE UNCHANGED <<queue, historyVars>>

SinkFocused(h) ==
  \/ /\ h = focused
     /\ UNCHANGED <<reg, focused, queue, historyVars>>
  \/ /\ h # focused
     /\ focused' = h
     /\ register_window(h, "opened")
     /\ emit_window_event("focused", h)

\* win_event_proc: every event but a destruction is dropped when the window
\* is no root window, or no window any more, by the time it is delivered.
win_event_proc(e) ==
  \/ /\ e.kind # "destroy"
     /\ ~is_root_window(e.hwnd)
     /\ UNCHANGED <<reg, focused, queue, historyVars>>
  \/ /\ is_root_window(e.hwnd)
     /\ \/ e.kind = "create"     /\ SinkOpened(e.hwnd)
        \/ e.kind = "show"       /\ SinkCreated(e.hwnd)
        \/ e.kind = "foreground" /\ SinkFocused(e.hwnd)
  \/ /\ e.kind = "destroy"
     /\ SinkDestroyed(e.hwnd)

-----------------------------------------------------------------------------
(* poll_windows.                                                           *)

\* The registry after the visits: an entry for each new window that was kept.
Visited(kept) == [h \in Handle |-> IF h \in kept /\ reg[h] = "absent"
                                   THEN "known" ELSE reg[h]]

Orderings(S) == {s \in [1 .. Cardinality(S) -> S] :
                   \A i, j \in DOMAIN s : s[i] = s[j] => i = j}

\* A batch of events of one type, in any order.
Batches(type, S) ==
  {[i \in DOMAIN s |-> WindowEvent(type, s[i])] : s \in Orderings(S)}

\* poll_windows(false): the windows the worker finds when it starts.
BaselinePoll ==
  \E listed \in Some("enumerate", ExistingWindows) :
    \E kept \in Some("grow", listed) :
      /\ reg' = Visited(kept)
      /\ belief' = [h \in Handle |-> IF h \in kept THEN "open" ELSE belief[h]]

\* window_visit: the windows that had no entry, of those the enumeration lists.
Fresh(listed) == {h \in listed : reg[h] = "absent"}

\* The entries that were not seen.
Missing(kept, seen) == {h \in Handle : Visited(kept)[h] # "absent"} \ seen

\* The events of one poll.
PollEmits(created, destroyed) ==
  /\ \E first \in Batches("created", created),
        second \in Batches("destroyed", destroyed) :
       queue' = queue \o first \o second
  /\ belief' = [h \in Handle |-> IF h \in destroyed THEN "closed"
                                 ELSE IF h \in created THEN "open"
                                 ELSE belief[h]]
  /\ told' = told
  /\ reported' = reported
       \cup {<<"created", belief[h]>> : h \in created}
       \cup {<<"destroyed", IF h \in created THEN "open" ELSE belief[h]>> :
               h \in destroyed}

\* poll_windows(true).  An enumeration that fails, an identity that cannot be
\* read and a vector that cannot grow all leave windows out of "seen".
poll_windows ==
  \E listed \in Some("enumerate", ExistingWindows) :
    \E kept \in Some("grow", Fresh(listed)), seen \in Some("grow", listed) :
      /\ reg' = Visited(kept)
      /\ \E created \in Some("event", Fresh(listed)),
            destroyed \in Some("event", Missing(kept, seen)) :
           PollEmits(created, destroyed)

-----------------------------------------------------------------------------
(* wm_window_watch_ensure, called once by wm_set_default.  Other processes *)
(* run between its calls.                                                  *)

\* wm_input_ensure fails: the process goes on without a watch.
WatchUnavailable ==
  /\ pc = "start"
  /\ "input" \in Faults
  /\ pc' = "inactive"
  /\ UNCHANGED <<installed, watchVars, queue, handling, historyVars>>

WatchStarts ==
  /\ pc = "start"
  /\ pc' = "process"
  /\ BaselinePoll
  /\ UNCHANGED <<installed, focused, poll, tick, queue, handling, told, reported>>

\* wm_process: without a window manager there is no target to ask for events.
FindTarget ==
  /\ pc = "process"
  /\ \E failed \in MayFail("process") :
       /\ pc' = IF failed THEN "loop" ELSE "hook_window"
       /\ poll' = failed
  /\ UNCHANGED <<installed, reg, focused, tick, queue, handling, historyVars>>

\* win_on_window_changed.  When the second hook fails the first one stays.
InstallHook(at, hook, next) ==
  /\ pc = at
  /\ \E failed \in MayFail("hook") :
       /\ installed' = IF failed THEN installed ELSE installed \cup {hook}
       /\ pc' = IF failed THEN "loop" ELSE next
       /\ poll' = failed
  /\ UNCHANGED <<reg, focused, tick, queue, handling, historyVars>>

InstallWindowHook     == InstallHook("hook_window", "window", "hook_foreground")
InstallForegroundHook == InstallHook("hook_foreground", "foreground", "loop")

-----------------------------------------------------------------------------
(* The loop of run_worker.                                                 *)

\* The thread pumps messages in mc_wm_poll_event and in the calls into other
\* processes that a subscriber makes.
DeliverWinEvent ==
  /\ pc \in {"loop", "dispatch"}
  /\ hooks # <<>>
  /\ Len(queue) < MaxEvents
  /\ hooks' = Tail(hooks)
  /\ win_event_proc(Head(hooks))
  /\ UNCHANGED <<installed, pc, poll, tick, handling>>

PollEvent ==
  /\ pc = "loop"
  /\ queue # <<>>
  /\ handling' = Head(queue)
  /\ queue' = Tail(queue)
  /\ pc' = "dispatch"
  /\ UNCHANGED <<hooks, installed, watchVars, historyVars>>

\* The number release_destroyed_window takes for the window's identity.
ReleasedIdentity(event) == event.window

\* wm_process_event, once the subscribers have run.
ProcessEvent ==
  /\ pc = "dispatch"
  /\ reg' = IF handling.type = "destroyed"
            THEN Unregistered(ReleasedIdentity(handling)) ELSE reg
  /\ handling' = NoEvent
  /\ pc' = "loop"
  /\ UNCHANGED <<hooks, installed, focused, poll, tick, queue, historyVars>>

\* mc_wm_poll_event has pumped and has no event left.  Other processes may have
\* raised more since.
QueueDrained ==
  /\ pc = "loop"
  /\ queue = <<>>
  /\ pc' = "tick"
  /\ UNCHANGED <<hooks, installed, watchVars, queue, handling, historyVars>>

\* window_poll_tick runs on; only its remainder is ever looked at.
NextTick == (tick + 1) % WindowPollTicks

\* Mutant: the fallback poll runs beside the hooks.
TickPollsAlways ==
  /\ pc = "tick"
  /\ IF tick = 0
     THEN poll_windows
     ELSE UNCHANGED <<reg, queue, historyVars>>
  /\ tick' = NextTick
  /\ pc' = "loop"
  /\ UNCHANGED <<hooks, installed, focused, poll, handling>>

wm_tick ==
  /\ pc = "tick"
  /\ IF poll /\ tick = 0
     THEN poll_windows
     ELSE UNCHANGED <<reg, queue, historyVars>>
  /\ tick' = NextTick
  /\ pc' = "loop"
  /\ UNCHANGED <<hooks, installed, focused, poll, handling>>

Startup ==
  /\ \/ WatchUnavailable
     \/ WatchStarts
     \/ FindTarget
     \/ InstallWindowHook
     \/ InstallForegroundHook
  /\ UNCHANGED hooks

Worker ==
  /\ \/ Startup
     \/ DeliverWinEvent
     \/ PollEvent
     \/ ProcessEvent
     \/ QueueDrained
     \/ wm_tick
  /\ UNCHANGED <<os, root, opens, foreground, unhooked>>

-----------------------------------------------------------------------------
(* The specification.  The windows that exist when the worker starts are   *)
(* arbitrary.                                                              *)

Init ==
  /\ os \in [Handle -> {"none", "hidden", "shown"}]
  /\ root \in {r \in [Handle -> BOOLEAN] : \A h \in Handle : r[h] => Exists(h)}
  /\ opens = [h \in Handle |-> IF Exists(h) THEN 1 ELSE 0]
  /\ foreground = NoHandle
  /\ installed = {}
  /\ hooks = <<>>
  /\ pc = "start"
  /\ reg = [h \in Handle |-> "absent"]
  /\ focused = NoHandle
  /\ poll = FALSE
  /\ tick = 0
  /\ queue = <<>>
  /\ handling = NoEvent
  /\ belief = [h \in Handle |-> "unknown"]
  /\ told = <<NoHandle, 0>>
  /\ reported = {}
  /\ unhooked = {}

Next == System \/ Worker

Spec == Init /\ [][Next]_vars

\* The worker's thread keeps running; no other process has to do anything.  Each
\* round of the loop calls mc_wm_poll_event, which pumps and returns: a WinEvent
\* that waits is not left out round after round, and WinEvents that add nothing
\* to the queue do not keep the loop from its tick.  A subscriber returns.
ByWorker(A) == A /\ UNCHANGED <<os, root, opens, foreground, unhooked>>

FairSpec ==
  /\ Spec
  /\ WF_vars(Worker)
  /\ WF_vars(ByWorker(PollEvent))
  /\ WF_vars(ByWorker(ProcessEvent))
  /\ SF_vars(ByWorker(DeliverWinEvent))
  /\ SF_vars(ByWorker(QueueDrained))

-----------------------------------------------------------------------------
(* Safety.                                                                  *)

\* No WINDOW_DESTROYED names a window that its subscribers never heard of: an
\* entry that was only opened is dropped without an event (input.c:459-471).
OpenBeforeClose == <<"destroyed", "unknown">> \notin reported

\* No WINDOW_CREATED names a window that its subscribers already take to be
\* open: hiding and showing a window again, or finding it by two ways, is not
\* announced twice (input.c:445-457).
CreatedOnce == <<"created", "open">> \notin reported

\* Nothing at all is reported of a window after its WINDOW_DESTROYED: a late
\* WinEvent of a window that is gone is dropped (desktop_win.c:610-659).
QuietAfterClose == \A type \in EventType : <<type, "closed">> \notin reported

\* Both hooks are in place and every WinEvent raised so far has been handled.
CaughtUp == pc = "loop" /\ ~poll /\ hooks = <<>>

Shown(h) == is_root_window(h) /\ os[h] = "shown"

\* Once the hooks have caught up, the subscribers know of each visible root
\* window, except of one last shown before the hook was in place (input.c:433-512).
ShownIsAnnounced ==
  CaughtUp => \A h \in Handle : Shown(h) /\ h \notin unhooked => belief[h] = "open"

\* Once the hooks have caught up, the subscribers have been told of the root window
\* that has the foreground, and not only of an earlier one with its handle: the
\* filter on watch.focused suppresses no change (input.c:473-481).
FocusIsReported ==
  CaughtUp /\ foreground # NoHandle /\ is_root_window(foreground) =>
    told = <<foreground, opens[foreground]>>

-----------------------------------------------------------------------------
(* Liveness.                                                                *)

\* A change that neither a hook nor a poll can see.
Missed(h) == ~poll /\ h \in unhooked

\* A visible root window is announced in the end, by the hooks or by the poll
\* (input.c:412-431, 445-457).
EventuallyAnnounced ==
  \A h \in Handle :
    (pc = "loop" /\ Shown(h) /\ ~Missed(h))
      ~> (belief[h] = "open" \/ ~Shown(h) \/ Missed(h))

\* A window its subscribers take to be open and that is closed is reported
\* destroyed in the end (input.c:412-431, 459-471).
EventuallyRetracted ==
  \A h \in Handle :
    (pc = "loop" /\ ~Exists(h) /\ belief[h] = "open" /\ ~Missed(h))
      ~> (belief[h] = "closed" \/ Exists(h) \/ Missed(h))

==============================================================================
