--------------------------- MODULE WindowWatchProofs ---------------------------
(***************************************************************************)
(* What holds of the window watch for every set of handles, every period   *)
(* of the poll, every bound and every set of faults.                       *)
(***************************************************************************)
EXTENDS WindowWatch, FiniteSetTheorems, TLAPS

-----------------------------------------------------------------------------
(* Types.                                                                   *)

USE DEF Control, Belief, FaultKind

\* WindowEvent makes an event.
LEMMA EventTyped ==
  ASSUME NEW type \in EventType, NEW h \in Handle
  PROVE  WindowEvent(type, h) \in Event
BY DEF WindowEvent, Event

\* An event is pushed and told, or nothing happens.
LEMMA EmitCases ==
  ASSUME NEW type, NEW h \in Handle, emit_window_event(type, h)
  PROVE  \/ "event" \in Faults /\ UNCHANGED <<queue, belief, told, reported>>
         \/ /\ queue' = Append(queue, WindowEvent(type, h))
            /\ belief' = [belief EXCEPT ![h] = Told(type, @)]
            /\ told' = IF type = "focused" THEN <<h, opens[h]>> ELSE told
            /\ reported' = reported \cup {<<type, belief[h]>>}
BY DEF emit_window_event, MayFail, historyVars

\* Pushing an event keeps the types of the queue and of the history.
LEMMA EmitTyped ==
  ASSUME TypeOK, NEW type \in EventType, NEW h \in Handle, emit_window_event(type, h)
  PROVE  /\ queue' \in Seq(Event)
         /\ belief' \in [Handle -> Belief]
         /\ told' \in Focus
         /\ reported' \subseteq EventType \X Belief
<1>1. WindowEvent(type, h) \in Event
  BY EventTyped
<1>2. belief[h] \in Belief /\ Told(type, belief[h]) \in Belief
  BY DEF TypeOK, Told
<1>3. Append(queue, WindowEvent(type, h)) \in Seq(Event)
  BY <1>1 DEF TypeOK
<1>4. reported \cup {<<type, belief[h]>>} \subseteq EventType \X Belief
  BY <1>2 DEF TypeOK
<1>5. [belief EXCEPT ![h] = Told(type, @)] \in [Handle -> Belief]
  BY <1>2 DEF TypeOK
<1>6. CASE UNCHANGED <<queue, belief, told, reported>>
  BY <1>6 DEF TypeOK
<1>7. CASE /\ queue' = Append(queue, WindowEvent(type, h))
           /\ belief' = [belief EXCEPT ![h] = Told(type, @)]
           /\ told' = IF type = "focused" THEN <<h, opens[h]>> ELSE told
           /\ reported' = reported \cup {<<type, belief[h]>>}
  <2>1. told \in Focus /\ <<h, opens[h]>> \in Focus
    BY DEF TypeOK, Focus
  <2>. QED
    BY <1>3, <1>4, <1>5, <1>7, <2>1
<1>. QED
  BY <1>6, <1>7, EmitCases

\* register_window keeps the type of the registry.
LEMMA RegisterTyped ==
  ASSUME TypeOK, NEW h \in Handle, NEW status \in {"opened", "known"},
         register_window(h, status)
  PROVE  reg' \in [Handle -> {"absent", "opened", "known"}]
BY DEF TypeOK, register_window

\* Every order of a finite set of windows makes a sequence of events.
LEMMA BatchTyped ==
  ASSUME NEW type \in EventType, NEW S \in SUBSET Handle,
         NEW batch \in Batches(type, S)
  PROVE  batch \in Seq(Event)
<1>1. IsFiniteSet(S)
  BY FS_Subset, HandleAssumption
<1>2. Cardinality(S) \in Nat
  BY <1>1, FS_CardinalityType
<1>3. PICK s \in [1 .. Cardinality(S) -> S] :
        batch = [i \in DOMAIN s |-> WindowEvent(type, s[i])]
  BY DEF Batches, Orderings
<1>4. batch \in [1 .. Cardinality(S) -> Event]
  BY <1>3, EventTyped
<1>. QED
  BY <1>2, <1>4

\* What win_event_proc and the poll change.
WatchTyped ==
  /\ reg \in [Handle -> {"absent", "opened", "known"}]
  /\ focused \in Handle \cup {NoHandle}
  /\ queue \in Seq(Event)
  /\ belief \in [Handle -> Belief]
  /\ told \in Focus
  /\ reported \subseteq EventType \X Belief

\* target_window_sink keeps the types, by the kind of the change.
LEMMA SinkTyped ==
  ASSUME TypeOK, NEW h \in Handle,
         SinkOpened(h) \/ SinkCreated(h) \/ SinkDestroyed(h) \/ SinkFocused(h)
  PROVE  WatchTyped'
<1>. USE DEF TypeOK, WatchTyped, historyVars, EventType
<1>1. CASE SinkOpened(h)
  BY <1>1, RegisterTyped DEF SinkOpened
<1>2. CASE SinkCreated(h)
  <2>1. focused' = focused
    BY <1>2 DEF SinkCreated
  <2>2. CASE reg[h] = "known" /\ UNCHANGED <<reg, queue, historyVars>>
    BY <2>1, <2>2
  <2>3. CASE reg[h] = "opened" /\ reg' = [reg EXCEPT ![h] = "known"]
               /\ emit_window_event("created", h)
    BY <2>1, <2>3, EmitTyped
  <2>4. CASE register_window(h, "known") /\ emit_window_event("created", h)
    BY <2>1, <2>4, EmitTyped, RegisterTyped
  <2>. QED
    BY <1>2, <2>2, <2>3, <2>4 DEF SinkCreated
<1>3. CASE SinkDestroyed(h)
  <2>1. focused' = focused
    BY <1>3 DEF SinkDestroyed
  <2>2. CASE UNCHANGED <<reg, queue, historyVars>>
    BY <2>1, <2>2
  <2>3. CASE emit_window_event("destroyed", h) /\ UNCHANGED reg
    BY <2>1, <2>3, EmitTyped
  <2>4. CASE reg' = Unregistered(h) /\ UNCHANGED <<queue, historyVars>>
    BY <2>1, <2>4 DEF Unregistered
  <2>. QED
    BY <1>3, <2>2, <2>3, <2>4 DEF SinkDestroyed
<1>4. CASE SinkFocused(h)
  <2>1. CASE UNCHANGED <<reg, focused, queue, historyVars>>
    BY <2>1
  <2>2. CASE focused' = h /\ register_window(h, "opened") /\ emit_window_event("focused", h)
    BY <2>2, EmitTyped, RegisterTyped
  <2>. QED
    BY <1>4, <2>1, <2>2 DEF SinkFocused
<1>. QED
  BY <1>1, <1>2, <1>3, <1>4

\* What a poll does, and what it does when a fault is ruled out.
LEMMA PollCases ==
  ASSUME poll_windows
  PROVE  \E listed \in SUBSET Handle, kept \in SUBSET Handle,
            created \in SUBSET Handle, destroyed \in SUBSET Handle :
           /\ kept \subseteq Fresh(listed) /\ created \subseteq Fresh(listed)
           /\ destroyed \subseteq {h \in Handle : Visited(kept)[h] # "absent"}
           /\ "grow" \notin Faults => kept = Fresh(listed)
           /\ "event" \notin Faults => created = Fresh(listed)
           /\ reg' = Visited(kept)
           /\ PollEmits(created, destroyed)
<1>0. PICK listed \in Some("enumerate", ExistingWindows) :
        \E kept \in Some("grow", Fresh(listed)), seen \in Some("grow", listed) :
          /\ reg' = Visited(kept)
          /\ \E created \in Some("event", Fresh(listed)),
                destroyed \in Some("event", Missing(kept, seen)) :
               PollEmits(created, destroyed)
  BY Zenon DEF poll_windows
<1>1. PICK kept \in Some("grow", Fresh(listed)), seen \in Some("grow", listed) :
        /\ reg' = Visited(kept)
        /\ \E created \in Some("event", Fresh(listed)),
              destroyed \in Some("event", Missing(kept, seen)) :
             PollEmits(created, destroyed)
  BY <1>0, Zenon
<1>2. PICK created \in Some("event", Fresh(listed)),
           destroyed \in Some("event", Missing(kept, seen)) :
        PollEmits(created, destroyed)
  BY <1>1
<1>3. \A fault, S, T :
        T \in Some(fault, S) => T \subseteq S /\ (fault \notin Faults => T = S)
  BY DEF Some
<1>4. listed \in SUBSET Handle
  BY <1>3 DEF ExistingWindows
<1>5. kept \subseteq Fresh(listed) /\ ("grow" \notin Faults => kept = Fresh(listed))
  BY <1>3
<1>6. created \subseteq Fresh(listed) /\ ("event" \notin Faults => created = Fresh(listed))
  BY <1>2, <1>3
<1>7. destroyed \subseteq {h \in Handle : Visited(kept)[h] # "absent"}
  <2>1. destroyed \subseteq Missing(kept, seen)
    BY <1>2, <1>3
  <2>. QED
    BY <2>1 DEF Missing
<1>8. Fresh(listed) \subseteq Handle
  BY <1>4 DEF Fresh
<1>. QED
  BY <1>1, <1>2, <1>4, <1>5, <1>6, <1>7, <1>8

\* poll_windows keeps the types.
LEMMA PollTyped ==
  ASSUME TypeOK, poll_windows, UNCHANGED focused
  PROVE  WatchTyped'
<1>1. PICK listed \in SUBSET Handle, kept \in SUBSET Handle,
            created \in SUBSET Handle, destroyed \in SUBSET Handle :
        reg' = Visited(kept) /\ PollEmits(created, destroyed)
  BY PollCases
<1>2. reg' \in [Handle -> {"absent", "opened", "known"}]
  BY <1>1 DEF Visited, TypeOK
<1>3. queue' \in Seq(Event)
  <2>1. PICK first \in Batches("created", created),
              second \in Batches("destroyed", destroyed) :
          queue' = queue \o first \o second
    BY <1>1 DEF PollEmits
  <2>2. first \in Seq(Event) /\ second \in Seq(Event)
    BY <2>1, BatchTyped DEF EventType
  <2>. QED
    BY <2>1, <2>2 DEF TypeOK
<1>4. belief' \in [Handle -> Belief]
  BY <1>1 DEF PollEmits, TypeOK
<1>5. reported' \subseteq EventType \X Belief
  BY <1>1 DEF PollEmits, TypeOK, EventType
<1>6. /\ told' \in Focus
      /\ focused' \in Handle \cup {NoHandle}
  BY <1>1 DEF PollEmits, TypeOK
<1>. QED
  BY <1>2, <1>3, <1>4, <1>5, <1>6 DEF WatchTyped

\* A WinEvent is queued for the worker's thread or is not.
LEMMA RaiseTyped ==
  ASSUME TypeOK, NEW hook, NEW kind \in {"create", "show", "foreground", "destroy"},
         NEW h \in Handle, Raise(hook, kind, h)
  PROVE  hooks' \in Seq(WinEvent)
<1>1. [kind |-> kind, hwnd |-> h] \in WinEvent
  BY DEF WinEvent
<1>2. hooks \in Seq(WinEvent)
  BY DEF TypeOK
<1>3. Append(hooks, [kind |-> kind, hwnd |-> h]) \in Seq(WinEvent)
  BY <1>1, <1>2
<1>. QED
  BY <1>2, <1>3 DEF Raise

\* What other processes do keeps the types.
LEMMA SystemTyped ==
  ASSUME TypeOK, System
  PROVE  TypeOK'
<1>1. UNCHANGED <<installed, pc, reg, focused, poll, tick, queue, handling,
                  belief, told, reported>>
  BY DEF System, watchVars, historyVars
<1>2. PICK h \in Handle : \/ WindowOpens(h) \/ WindowShows(h) \/ WindowHides(h)
                          \/ WindowTakesFocus(h) \/ WindowCloses(h)
  BY DEF System
<1>. USE DEF TypeOK
<1>3. CASE WindowOpens(h)
  <2>1. opens' \in [Handle -> 0 .. MaxWindows]
    BY <1>3, BoundsAssumption DEF WindowOpens
  <2>2. hooks' \in Seq(WinEvent)
    BY <1>3, RaiseTyped DEF WindowOpens
  <2>. QED
    BY <1>1, <1>3, <2>1, <2>2 DEF WindowOpens
<1>4. CASE WindowShows(h)
  BY <1>1, <1>4, RaiseTyped DEF WindowShows, Noted
<1>5. CASE WindowHides(h)
  BY <1>1, <1>5 DEF WindowHides
<1>6. CASE WindowTakesFocus(h)
  BY <1>1, <1>6, RaiseTyped DEF WindowTakesFocus
<1>7. CASE WindowCloses(h)
  BY <1>1, <1>7, RaiseTyped DEF WindowCloses, Noted
<1>. QED
  BY <1>2, <1>3, <1>4, <1>5, <1>6, <1>7

\* wm_window_watch_ensure keeps the types.
LEMMA StartupTyped ==
  ASSUME TypeOK, Startup, UNCHANGED <<os, root, opens, foreground, unhooked>>
  PROVE  TypeOK'
<1>. USE DEF TypeOK, watchVars, historyVars, MayFail
<1>1. hooks' = hooks
  BY DEF Startup
<1>2. CASE WatchUnavailable
  BY <1>1, <1>2 DEF WatchUnavailable
<1>3. CASE WatchStarts
  <2>1. PICK kept \in SUBSET Handle :
          /\ reg' = Visited(kept)
          /\ belief' = [h \in Handle |-> IF h \in kept THEN "open" ELSE belief[h]]
    BY <1>3 DEF WatchStarts, BaselinePoll, Some, ExistingWindows
  <2>2. reg' \in [Handle -> {"absent", "opened", "known"}]
    BY <2>1 DEF Visited
  <2>3. belief' \in [Handle -> Belief]
    BY <2>1
  <2>. QED
    BY <1>1, <1>3, <2>2, <2>3 DEF WatchStarts
<1>4. CASE FindTarget
  BY <1>1, <1>4 DEF FindTarget
<1>5. CASE InstallWindowHook
  BY <1>1, <1>5 DEF InstallWindowHook, InstallHook
<1>6. CASE InstallForegroundHook
  BY <1>1, <1>6 DEF InstallForegroundHook, InstallHook
<1>. QED
  BY <1>2, <1>3, <1>4, <1>5, <1>6 DEF Startup

\* The worker's steps keep the types: one step per action.
LEMMA WorkerTyped ==
  ASSUME TypeOK, Worker
  PROVE  TypeOK'
<1>. USE DEF watchVars, historyVars
<1>1. UNCHANGED <<os, root, opens, foreground, unhooked>>
  BY DEF Worker
<1>2. CASE Startup
  BY <1>1, <1>2, StartupTyped
<1>3. CASE DeliverWinEvent
  <2>1. hooks \in Seq(WinEvent) /\ hooks # <<>>
    BY <1>3 DEF DeliverWinEvent, TypeOK
  <2>2. Head(hooks).hwnd \in Handle /\ hooks' \in Seq(WinEvent)
    <3>1. Head(hooks) \in WinEvent /\ Tail(hooks) \in Seq(WinEvent)
      BY <2>1
    <3>. QED
      BY <1>3, <3>1 DEF DeliverWinEvent, WinEvent
  <2>3. WatchTyped'
    <3>1. CASE UNCHANGED <<reg, focused, queue, historyVars>>
      BY <3>1 DEF TypeOK, WatchTyped
    <3>2. CASE \/ SinkOpened(Head(hooks).hwnd) \/ SinkCreated(Head(hooks).hwnd)
               \/ SinkDestroyed(Head(hooks).hwnd) \/ SinkFocused(Head(hooks).hwnd)
      BY <2>2, <3>2, SinkTyped
    <3>. QED
      BY <1>3, <3>1, <3>2 DEF DeliverWinEvent, win_event_proc
  <2>4. UNCHANGED <<installed, pc, poll, tick, handling>>
    BY <1>3 DEF DeliverWinEvent
  <2>. QED
    BY <1>1, <2>2, <2>3, <2>4 DEF TypeOK, WatchTyped
<1>4. CASE PollEvent
  BY <1>1, <1>4 DEF PollEvent, TypeOK
<1>5. CASE ProcessEvent
  BY <1>1, <1>5 DEF ProcessEvent, Unregistered, TypeOK
<1>6. CASE QueueDrained
  BY <1>1, <1>6 DEF QueueDrained, TypeOK
<1>7. CASE wm_tick
  <2>1. tick' \in 0 .. WindowPollTicks - 1
    BY <1>7, TicksAssumption DEF wm_tick, NextTick, TypeOK
  <2>2. UNCHANGED <<hooks, installed, focused, poll, handling>> /\ pc' = "loop"
    BY <1>7 DEF wm_tick
  <2>3. WatchTyped'
    <3>1. CASE poll_windows
      BY <2>2, <3>1, PollTyped
    <3>2. CASE UNCHANGED <<reg, queue, historyVars>>
      BY <2>2, <3>2 DEF TypeOK, WatchTyped
    <3>. QED
      BY <1>7, <3>1, <3>2 DEF wm_tick
  <2>. QED
    BY <1>1, <2>1, <2>2, <2>3 DEF TypeOK, WatchTyped
<1>. QED
  BY <1>2, <1>3, <1>4, <1>5, <1>6, <1>7 DEF Worker

\* The initial states are typed.
LEMMA InitTyped ==
  ASSUME Init
  PROVE  TypeOK
<1>1. 0 \in 0 .. MaxWindows /\ 1 \in 0 .. MaxWindows
  BY BoundsAssumption
<1>2. opens \in [Handle -> 0 .. MaxWindows]
  BY <1>1 DEF Init
<1>3. 0 \in 0 .. WindowPollTicks - 1
  BY TicksAssumption
<1>4. root \in [Handle -> BOOLEAN] /\ os \in [Handle -> {"none", "hidden", "shown"}]
  BY DEF Init
<1>5. belief \in [Handle -> Belief] /\ reg \in [Handle -> {"absent", "opened", "known"}]
  BY DEF Init
<1>6. hooks \in Seq(WinEvent) /\ queue \in Seq(Event)
  BY DEF Init
<1>7. told \in Focus
  BY <1>1 DEF Init, Focus
<1>. QED
  BY <1>2, <1>3, <1>4, <1>5, <1>6, <1>7 DEF Init, TypeOK

\* Every step keeps the types.
LEMMA NextTyped ==
  ASSUME TypeOK, [Next]_vars
  PROVE  TypeOK'
<1>1. CASE UNCHANGED vars
  BY <1>1 DEF TypeOK, vars
<1>. QED
  BY <1>1, SystemTyped, WorkerTyped DEF Next

\* Every variable keeps its type: in particular an event always names a window under
\* "window_id" and none under "window".
THEOREM TypeCorrect == Spec => []TypeOK
<1>1. Init => TypeOK
  BY InitTyped
<1>2. TypeOK /\ [Next]_vars => TypeOK'
  BY NextTyped
<1>. QED
  BY <1>1, <1>2, PTL DEF Spec

\* What the worker releases names no window.
LEMMA ReleasesNothing ==
  ASSUME TypeOK, ProcessEvent
  PROVE  reg' = reg /\ pc' = "loop" /\ UNCHANGED <<hooks, installed, poll>>
<1>1. handling.window = NoHandle
  BY DEF TypeOK, Event, NoEvent
<1>2. Unregistered(ReleasedIdentity(handling)) = reg
  BY <1>1, HandleAssumption DEF Unregistered, ReleasedIdentity, TypeOK
<1>. QED
  BY <1>2 DEF ProcessEvent

-----------------------------------------------------------------------------
(* CreatedOnce.  It holds because an entry remembers that its window was   *)
(* announced for as long as the subscribers take the window to be open; it *)
(* needs every window that is announced to get its entry.                  *)

OpenIsKnown ==
  /\ pc = "start" => \A h \in Handle : reg[h] = "absent"
  /\ \A h \in Handle : belief[h] = "open" => reg[h] = "known"

CreatedInv == TypeOK /\ OpenIsKnown /\ CreatedOnce

\* A WinEvent does not announce an entry that is known (input.c:445-457).
LEMMA CreatedInvDeliver ==
  ASSUME CreatedInv, "resolve" \notin Faults, "grow" \notin Faults, DeliverWinEvent
  PROVE  OpenIsKnown' /\ CreatedOnce'
<1>. USE DEF CreatedInv, OpenIsKnown, CreatedOnce
<1>. DEFINE hwnd == Head(hooks).hwnd
<1>0. pc' # "start" /\ hwnd \in Handle
  <2>1. hooks \in Seq(WinEvent) /\ hooks # <<>> /\ pc' # "start"
    BY DEF DeliverWinEvent, TypeOK
  <2>2. Head(hooks) \in WinEvent
    BY <2>1
  <2>. QED
    BY <2>1, <2>2 DEF WinEvent
<1>. HIDE DEF hwnd
<1>1. reg \in [Handle -> {"absent", "opened", "known"}] /\ belief \in [Handle -> Belief]
  BY DEF TypeOK
<1>2. CASE UNCHANGED <<reg, queue, historyVars>>
  BY <1>0, <1>2 DEF historyVars
<1>3. ASSUME NEW status, register_window(hwnd, status)
      PROVE  reg' = IF reg[hwnd] = "absent" THEN [reg EXCEPT ![hwnd] = status] ELSE reg
  BY <1>3 DEF register_window, MayFail
<1>4. CASE SinkOpened(hwnd)
  BY <1>0, <1>1, <1>3, <1>4 DEF SinkOpened, historyVars
<1>5. CASE SinkCreated(hwnd)
  <2>1. CASE UNCHANGED <<reg, queue, historyVars>>
    BY <1>2, <2>1
  <2>2. CASE reg[hwnd] # "known" /\ reg' = [reg EXCEPT ![hwnd] = "known"]
               /\ emit_window_event("created", hwnd)
    BY <1>0, <1>1, <2>2, EmitCases DEF Told
  <2>. QED
    BY <1>3, <1>5, <2>1, <2>2 DEF SinkCreated
<1>6. CASE SinkDestroyed(hwnd)
  <2>1. CASE UNCHANGED <<reg, queue, historyVars>>
    BY <1>2, <2>1
  <2>2. CASE UNCHANGED reg /\ emit_window_event("destroyed", hwnd)
    BY <1>0, <1>1, <2>2, EmitCases DEF Told
  <2>3. CASE reg[hwnd] = "opened" /\ reg' = Unregistered(hwnd)
               /\ UNCHANGED <<queue, historyVars>>
    BY <1>0, <1>1, <2>3 DEF Unregistered, historyVars
  <2>. QED
    BY <1>6, <2>1, <2>2, <2>3 DEF SinkDestroyed
<1>7. CASE SinkFocused(hwnd)
  <2>1. CASE UNCHANGED <<reg, focused, queue, historyVars>>
    BY <1>2, <2>1
  <2>2. CASE register_window(hwnd, "opened") /\ emit_window_event("focused", hwnd)
    BY <1>0, <1>1, <1>3, <2>2, EmitCases DEF Told
  <2>. QED
    BY <1>7, <2>1, <2>2 DEF SinkFocused
<1>. QED
  BY <1>2, <1>4, <1>5, <1>6, <1>7 DEF DeliverWinEvent, win_event_proc, hwnd

\* A poll announces only windows that had no entry (input.c:385-410).
LEMMA CreatedInvPoll ==
  ASSUME CreatedInv, "grow" \notin Faults, poll_windows, pc' # "start"
  PROVE  OpenIsKnown' /\ CreatedOnce'
<1>1. PICK listed \in SUBSET Handle, created \in SUBSET Handle,
            destroyed \in SUBSET Handle :
        /\ created \subseteq Fresh(listed)
        /\ reg' = Visited(Fresh(listed))
        /\ PollEmits(created, destroyed)
  BY PollCases
<1>2. reg \in [Handle -> {"absent", "opened", "known"}] /\ belief \in [Handle -> Belief]
  BY DEF CreatedInv, TypeOK
<1>3. OpenIsKnown'
  BY <1>1, <1>2 DEF CreatedInv, OpenIsKnown, PollEmits, Visited, Fresh
<1>4. CreatedOnce'
  BY <1>1, <1>2 DEF CreatedInv, OpenIsKnown, CreatedOnce, PollEmits, Fresh
<1>. QED
  BY <1>3, <1>4

\* No window is reported created while its subscribers take it to be open, for
\* any number of windows, in the reactive mode, the polling mode and the mode
\* in between that a failing second hook leaves.
THEOREM AnnouncedOnce ==
  ASSUME "resolve" \notin Faults, "grow" \notin Faults
  PROVE  Spec => []CreatedOnce
<1>1. Init => CreatedInv
  <2>1. Init => TypeOK
    BY InitTyped
  <2>2. Init => OpenIsKnown /\ CreatedOnce
    BY DEF Init, OpenIsKnown, CreatedOnce
  <2>. QED
    BY <2>1, <2>2 DEF CreatedInv
<1>2. CreatedInv /\ [Next]_vars => CreatedInv'
  <2>. SUFFICES ASSUME CreatedInv, [Next]_vars PROVE CreatedInv'
    OBVIOUS
  <2>. USE DEF CreatedInv, OpenIsKnown, CreatedOnce
  <2>1. TypeOK'
    BY NextTyped
  <2>2. CASE UNCHANGED <<pc, reg, belief, reported>>
    BY <2>1, <2>2
  <2>3. CASE WatchStarts
    <3>1. PICK kept \in SUBSET Handle :
            /\ reg' = Visited(kept)
            /\ belief' = [h \in Handle |-> IF h \in kept THEN "open" ELSE belief[h]]
      BY <2>3 DEF WatchStarts, BaselinePoll, Some, ExistingWindows
    <3>. QED
      BY <2>1, <2>3, <3>1 DEF WatchStarts, Visited, TypeOK
  <2>4. CASE pc' # "start" /\ UNCHANGED <<reg, historyVars>>
    BY <2>1, <2>4 DEF historyVars
  <2>5. CASE DeliverWinEvent
    BY <2>1, <2>5, CreatedInvDeliver
  <2>6. CASE ProcessEvent
    BY <2>1, <2>6, ReleasesNothing DEF historyVars, ProcessEvent
  <2>7. CASE wm_tick
    <3>1. pc' # "start"
      BY <2>7 DEF wm_tick
    <3>. QED
      BY <2>1, <2>4, <2>7, <3>1, CreatedInvPoll DEF wm_tick
  <2>8. CASE UNCHANGED vars
    BY <2>2, <2>8 DEF vars
  <2>9. CASE System
    BY <2>2, <2>9 DEF System, watchVars, historyVars
  <2>10. CASE Startup
    BY <2>3, <2>4, <2>10
       DEF Startup, WatchUnavailable, FindTarget, InstallWindowHook,
           InstallForegroundHook, InstallHook, watchVars
  <2>11. CASE PollEvent \/ QueueDrained
    BY <2>4, <2>11 DEF PollEvent, QueueDrained, watchVars
  <2>. QED
    BY <2>5, <2>6, <2>7, <2>8, <2>9, <2>10, <2>11 DEF Next, Worker
<1>3. CreatedInv => CreatedOnce
  BY DEF CreatedInv
<1>. QED
  BY <1>1, <1>2, <1>3, PTL DEF Spec

-----------------------------------------------------------------------------
(* OpenBeforeClose.  An entry that was not announced is marked as opened,  *)
(* and only the hook makes such entries: where the poll runs, which reports *)
(* every entry it does not see, no hook is in place and there is none.     *)

NoHookYet == installed = {} /\ hooks = <<>> /\ \A h \in Handle : reg[h] # "opened"

KnownIsAnnounced ==
  /\ pc \in {"start", "process"} => NoHookYet
  /\ pc \in {"hook_window", "hook_foreground"} => ~poll
  /\ poll => NoHookYet
  /\ \A h \in Handle : reg[h] = "known" => belief[h] # "unknown"

ClosedInv == TypeOK /\ KnownIsAnnounced /\ OpenBeforeClose

\* A WinEvent retracts only an entry that is known (input.c:459-471).
LEMMA ClosedInvDeliver ==
  ASSUME ClosedInv, "event" \notin Faults, DeliverWinEvent
  PROVE  KnownIsAnnounced' /\ OpenBeforeClose'
<1>. USE DEF ClosedInv, KnownIsAnnounced, OpenBeforeClose
<1>. DEFINE hwnd == Head(hooks).hwnd
<1>0. /\ pc' \in {"loop", "dispatch"} /\ ~poll' /\ hwnd \in Handle
  <2>1. /\ hooks \in Seq(WinEvent) /\ hooks # <<>> /\ poll \in BOOLEAN
        /\ pc' \in {"loop", "dispatch"} /\ poll' = poll
    BY DEF DeliverWinEvent, TypeOK
  <2>2. Head(hooks) \in WinEvent
    BY <2>1
  <2>. QED
    BY <2>1, <2>2 DEF WinEvent, NoHookYet
<1>. HIDE DEF hwnd
<1>1. reg \in [Handle -> {"absent", "opened", "known"}] /\ belief \in [Handle -> Belief]
  BY DEF TypeOK
<1>2. CASE UNCHANGED <<reg, queue, historyVars>>
  BY <1>0, <1>2 DEF historyVars
<1>3. ASSUME NEW status, register_window(hwnd, status)
      PROVE  reg' = reg \/ reg' = [reg EXCEPT ![hwnd] = status]
  BY <1>3 DEF register_window, MayFail
<1>4. CASE SinkOpened(hwnd)
  BY <1>0, <1>1, <1>3, <1>4 DEF SinkOpened, historyVars
<1>5. CASE SinkCreated(hwnd)
  <2>1. CASE UNCHANGED <<reg, queue, historyVars>>
    BY <1>2, <2>1
  <2>2. CASE (reg' = reg \/ reg' = [reg EXCEPT ![hwnd] = "known"])
               /\ emit_window_event("created", hwnd)
    BY <1>0, <1>1, <2>2, EmitCases DEF Told
  <2>. QED
    BY <1>3, <1>5, <2>1, <2>2 DEF SinkCreated
<1>6. CASE SinkDestroyed(hwnd)
  <2>1. CASE UNCHANGED <<reg, queue, historyVars>>
    BY <1>2, <2>1
  <2>2. CASE reg[hwnd] = "known" /\ UNCHANGED reg /\ emit_window_event("destroyed", hwnd)
    BY <1>0, <1>1, <2>2, EmitCases DEF Told
  <2>3. CASE reg' = Unregistered(hwnd) /\ UNCHANGED <<queue, historyVars>>
    BY <1>0, <1>1, <2>3 DEF Unregistered, historyVars
  <2>. QED
    BY <1>6, <2>1, <2>2, <2>3 DEF SinkDestroyed
<1>7. CASE SinkFocused(hwnd)
  <2>1. CASE UNCHANGED <<reg, focused, queue, historyVars>>
    BY <1>2, <2>1
  <2>2. CASE register_window(hwnd, "opened") /\ emit_window_event("focused", hwnd)
    BY <1>0, <1>1, <1>3, <2>2, EmitCases DEF Told
  <2>. QED
    BY <1>7, <2>1, <2>2 DEF SinkFocused
<1>. QED
  BY <1>2, <1>4, <1>5, <1>6, <1>7 DEF DeliverWinEvent, win_event_proc, hwnd

\* A poll retracts only what it or an earlier step announced (input.c:412-431).
LEMMA ClosedInvPoll ==
  ASSUME ClosedInv, "event" \notin Faults, poll, poll_windows,
         UNCHANGED <<installed, hooks, poll>>, pc' = "loop"
  PROVE  KnownIsAnnounced' /\ OpenBeforeClose'
<1>1. PICK kept \in SUBSET Handle, created \in SUBSET Handle,
            destroyed \in SUBSET Handle :
        /\ kept \subseteq created
        /\ destroyed \subseteq {h \in Handle : Visited(kept)[h] # "absent"}
        /\ reg' = Visited(kept)
        /\ PollEmits(created, destroyed)
  BY PollCases
<1>2. reg \in [Handle -> {"absent", "opened", "known"}] /\ belief \in [Handle -> Belief]
  BY DEF ClosedInv, TypeOK
<1>3. \A h \in Handle : reg[h] # "opened" /\ (reg[h] = "known" => belief[h] # "unknown")
  BY DEF ClosedInv, KnownIsAnnounced, NoHookYet
<1>4. KnownIsAnnounced'
  <2>1. NoHookYet'
    BY <1>1, <1>2, <1>3 DEF ClosedInv, KnownIsAnnounced, NoHookYet, Visited
  <2>2. \A h \in Handle : reg'[h] = "known" => belief'[h] # "unknown"
    BY <1>1, <1>2, <1>3 DEF PollEmits, Visited
  <2>. QED
    BY <2>1, <2>2 DEF KnownIsAnnounced
<1>5. OpenBeforeClose'
  <2>1. \A h \in destroyed : h \in created \/ belief[h] # "unknown"
    BY <1>1, <1>2, <1>3 DEF Visited
  <2>. QED
    BY <1>1, <2>1 DEF ClosedInv, OpenBeforeClose, PollEmits
<1>. QED
  BY <1>4, <1>5

\* Before the first hook is in place every entry is the baseline poll's.
LEMMA ClosedInvStartup ==
  ASSUME ClosedInv, "hook" \notin Faults, Startup
  PROVE  KnownIsAnnounced' /\ OpenBeforeClose'
<1>. USE DEF ClosedInv, KnownIsAnnounced, OpenBeforeClose, watchVars, historyVars, MayFail
<1>1. hooks' = hooks /\ pc \in Control
  BY DEF Startup, TypeOK
<1>2. CASE WatchUnavailable
  BY <1>1, <1>2 DEF WatchUnavailable, NoHookYet
<1>3. CASE WatchStarts
  <2>1. PICK kept \in SUBSET Handle :
          /\ reg' = Visited(kept)
          /\ belief' = [h \in Handle |-> IF h \in kept THEN "open" ELSE belief[h]]
    BY <1>3 DEF WatchStarts, BaselinePoll, Some, ExistingWindows
  <2>2. pc = "start" /\ pc' = "process" /\ UNCHANGED <<installed, poll, reported>>
    BY <1>3 DEF WatchStarts
  <2>3. NoHookYet'
    BY <1>1, <2>1, <2>2 DEF NoHookYet, Visited
  <2>4. \A h \in Handle : reg'[h] = "known" => belief'[h] # "unknown"
    BY <2>1 DEF Visited, TypeOK
  <2>. QED
    BY <2>2, <2>3, <2>4
<1>4. CASE FindTarget
  BY <1>1, <1>4 DEF FindTarget, NoHookYet
<1>5. CASE InstallWindowHook
  BY <1>1, <1>5 DEF InstallWindowHook, InstallHook
<1>6. CASE InstallForegroundHook
  BY <1>1, <1>6 DEF InstallForegroundHook, InstallHook
<1>. QED
  BY <1>2, <1>3, <1>4, <1>5, <1>6 DEF Startup

\* No WinEvent is raised before a hook is in place.
LEMMA ClosedInvSystem ==
  ASSUME ClosedInv, System
  PROVE  KnownIsAnnounced' /\ OpenBeforeClose'
<1>1. UNCHANGED <<installed, pc, reg, poll, belief, reported>>
  BY DEF System, watchVars, historyVars
<1>2. installed = {} => hooks' = hooks
  BY DEF System, WindowOpens, WindowShows, WindowHides, WindowTakesFocus, WindowCloses, Raise
<1>. QED
  BY <1>1, <1>2 DEF ClosedInv, KnownIsAnnounced, OpenBeforeClose, NoHookYet

\* No window is reported destroyed that was never announced, for any number of
\* windows, as long as events can be made and a hook that the worker asks for
\* is installed.
THEOREM DestroyedWasAnnounced ==
  ASSUME "event" \notin Faults, "hook" \notin Faults
  PROVE  Spec => []OpenBeforeClose
<1>1. Init => ClosedInv
  <2>1. Init => TypeOK
    BY InitTyped
  <2>2. Init => KnownIsAnnounced /\ OpenBeforeClose
    BY DEF Init, KnownIsAnnounced, NoHookYet, OpenBeforeClose
  <2>. QED
    BY <2>1, <2>2 DEF ClosedInv
<1>2. ClosedInv /\ [Next]_vars => ClosedInv'
  <2>. SUFFICES ASSUME ClosedInv, [Next]_vars PROVE KnownIsAnnounced' /\ OpenBeforeClose'
    BY NextTyped DEF ClosedInv
  <2>1. CASE System
    BY <2>1, ClosedInvSystem
  <2>2. CASE Startup
    BY <2>2, ClosedInvStartup
  <2>3. CASE DeliverWinEvent
    BY <2>3, ClosedInvDeliver
  <2>4. CASE ProcessEvent
    <3>1. UNCHANGED <<reg, hooks, installed, poll, belief, reported>> /\ pc' = "loop"
      BY <2>4, ReleasesNothing DEF ClosedInv, ProcessEvent, historyVars
    <3>. QED
      BY <3>1 DEF ClosedInv, KnownIsAnnounced, OpenBeforeClose, NoHookYet
  <2>5. CASE wm_tick
    <3>1. UNCHANGED <<hooks, installed, poll>> /\ pc' = "loop"
      BY <2>5 DEF wm_tick
    <3>2. CASE poll /\ poll_windows
      BY <3>1, <3>2, ClosedInvPoll
    <3>3. CASE UNCHANGED <<reg, queue, historyVars>>
      BY <3>1, <3>3 DEF ClosedInv, KnownIsAnnounced, OpenBeforeClose, NoHookYet, historyVars
    <3>. QED
      BY <2>5, <3>2, <3>3 DEF wm_tick
  <2>6. CASE PollEvent \/ QueueDrained
    <3>1. /\ UNCHANGED <<reg, hooks, installed, poll, belief, reported>>
          /\ pc' \in {"dispatch", "tick"}
      BY <2>6 DEF PollEvent, QueueDrained, watchVars, historyVars
    <3>. QED
      BY <3>1 DEF ClosedInv, KnownIsAnnounced, OpenBeforeClose, NoHookYet
  <2>7. CASE UNCHANGED vars
    BY <2>7 DEF ClosedInv, KnownIsAnnounced, OpenBeforeClose, NoHookYet, vars
  <2>. QED
    BY <2>1, <2>2, <2>3, <2>4, <2>5, <2>6, <2>7 DEF Next, Worker
<1>3. ClosedInv => OpenBeforeClose
  BY DEF ClosedInv
<1>. QED
  BY <1>1, <1>2, <1>3, PTL DEF Spec

-----------------------------------------------------------------------------
(* The WinEvents waiting, as one is raised and as one is delivered.         *)

LEMMA HooksRaised ==
  ASSUME TypeOK, NEW hook, NEW kind, NEW h \in Handle, Raise(hook, kind, h)
  PROVE  /\ Len(hooks) \in Nat /\ DOMAIN hooks = 1 .. Len(hooks)
         /\ \/ hooks' = hooks /\ hook \notin installed
            \/ /\ DOMAIN hooks' = 1 .. Len(hooks) + 1
               /\ hooks'[Len(hooks) + 1].kind = kind
               /\ hooks'[Len(hooks) + 1].hwnd = h
               /\ \A i \in 1 .. Len(hooks) : hooks'[i] = hooks[i]
<1>. DEFINE e == [kind |-> kind, hwnd |-> h]
<1>1. hooks \in Seq(WinEvent) /\ e.kind = kind /\ e.hwnd = h
  BY DEF TypeOK
<1>2. hooks' = Append(hooks, e) \/ (hooks' = hooks /\ hook \notin installed)
  BY DEF Raise
<1>. HIDE DEF e
<1>3. Len(hooks) \in Nat /\ DOMAIN hooks = 1 .. Len(hooks)
  BY <1>1
<1>4. CASE hooks' = Append(hooks, e)
  BY <1>1, <1>4
<1>. QED
  BY <1>2, <1>3, <1>4

LEMMA HooksDelivered ==
  ASSUME TypeOK, DeliverWinEvent
  PROVE  /\ Len(hooks) \in Nat \ {0} /\ DOMAIN hooks = 1 .. Len(hooks)
         /\ Head(hooks) = hooks[1] /\ hooks[1].hwnd \in Handle
         /\ DOMAIN hooks' = 1 .. Len(hooks) - 1
         /\ \A i \in 1 .. Len(hooks) - 1 : hooks'[i] = hooks[i + 1]
<1>1. hooks \in Seq(WinEvent) /\ hooks # <<>> /\ hooks' = Tail(hooks)
  BY DEF TypeOK, DeliverWinEvent
<1>2. /\ Len(hooks) \in Nat \ {0} /\ DOMAIN hooks = 1 .. Len(hooks)
      /\ Head(hooks) = hooks[1] /\ hooks[1] \in WinEvent
      /\ DOMAIN hooks' = 1 .. Len(hooks) - 1
      /\ \A i \in 1 .. Len(hooks) - 1 : hooks'[i] = hooks[i + 1]
  BY <1>1
<1>. QED
  BY <1>2 DEF WinEvent

-----------------------------------------------------------------------------
(* QuietAfterClose and ShownIsAnnounced, as long as no handle is used for a *)
(* second window.  A window that is gone stays gone then, and whatever was *)
(* told of its end, in a WinEvent or to the subscribers, stays true.       *)

Gone(h) == os[h] = "none" /\ opens[h] = 1

DestroyEvent(i) == hooks[i].kind = "destroy"

GoneInv ==
  /\ pc \in {"start", "process", "hook_window", "hook_foreground"} => ~poll
  /\ \A h \in Handle : Exists(h) => opens[h] = 1
  /\ \A i \in DOMAIN hooks : DestroyEvent(i) => Gone(hooks[i].hwnd)
  /\ ~poll => \A h \in Handle : belief[h] = "closed" => Gone(h)

\* What is gone stays gone, and a handle is in use or gone once it was used.
LEMMA GoneStays ==
  ASSUME TypeOK, GoneInv, MaxWindows = 1, System
  PROVE  /\ \A h \in Handle : Gone(h) => Gone(h)'
         /\ \A h \in Handle : Exists(h)' => opens'[h] = 1
<1>1. PICK h \in Handle : \/ WindowOpens(h) \/ WindowShows(h) \/ WindowHides(h)
                          \/ WindowTakesFocus(h) \/ WindowCloses(h)
  BY DEF System
<1>2. /\ os \in [Handle -> {"none", "hidden", "shown"}]
      /\ \A g \in Handle : opens[g] \in 0 .. 1
      /\ opens \in [Handle -> 0 .. MaxWindows]
  BY DEF TypeOK
<1>. USE DEF Gone, Exists, GoneInv
<1>3. CASE WindowOpens(h)
  <2>1. opens[h] = 0
    BY <1>2, <1>3 DEF WindowOpens
  <2>2. opens'[h] = 1 /\ \A g \in Handle \ {h} : opens'[g] = opens[g] /\ os'[g] = os[g]
    BY <1>2, <1>3, <2>1 DEF WindowOpens
  <2>. QED
    BY <2>1, <2>2
<1>4. CASE WindowShows(h) \/ WindowHides(h)
  BY <1>2, <1>4 DEF WindowShows, WindowHides
<1>5. CASE WindowTakesFocus(h)
  BY <1>5 DEF WindowTakesFocus
<1>6. CASE WindowCloses(h)
  BY <1>2, <1>6 DEF WindowCloses
<1>. QED
  BY <1>1, <1>3, <1>4, <1>5, <1>6

\* A WinEvent that is raised: of a window that closes exactly if it is one of an end.
LEMMA RaisedOfEnd ==
  ASSUME TypeOK, GoneInv, System
  PROVE  /\ Len(hooks) \in Nat /\ DOMAIN hooks = 1 .. Len(hooks)
         /\ \/ hooks' = hooks
            \/ /\ DOMAIN hooks' = 1 .. Len(hooks) + 1
               /\ \A i \in 1 .. Len(hooks) : hooks'[i] = hooks[i]
               /\ hooks'[Len(hooks) + 1].kind = "destroy" =>
                    \E h \in Handle : /\ hooks'[Len(hooks) + 1].hwnd = h
                                      /\ Exists(h) /\ os'[h] = "none" /\ opens'[h] = opens[h]
<1>1. PICK h \in Handle : \/ WindowOpens(h) \/ WindowShows(h) \/ WindowHides(h)
                          \/ WindowTakesFocus(h) \/ WindowCloses(h)
  BY DEF System
<1>2. Len(hooks) \in Nat /\ DOMAIN hooks = 1 .. Len(hooks)
  <2>1. hooks \in Seq(WinEvent)
    BY DEF TypeOK
  <2>. QED
    BY <2>1
<1>3. ASSUME NEW hook, NEW kind \in {"create", "show", "foreground"}, Raise(hook, kind, h)
      PROVE  \/ hooks' = hooks
             \/ /\ DOMAIN hooks' = 1 .. Len(hooks) + 1
                /\ \A i \in 1 .. Len(hooks) : hooks'[i] = hooks[i]
                /\ hooks'[Len(hooks) + 1].kind # "destroy"
  BY <1>3, HooksRaised
<1>4. CASE WindowOpens(h) \/ WindowShows(h) \/ WindowHides(h) \/ WindowTakesFocus(h)
  BY <1>2, <1>3, <1>4 DEF WindowOpens, WindowShows, WindowHides, WindowTakesFocus
<1>5. CASE WindowCloses(h)
  <2>1. Exists(h) /\ os'[h] = "none" /\ opens' = opens /\ Raise("window", "destroy", h)
    BY <1>5 DEF WindowCloses, TypeOK
  <2>. QED
    BY <2>1, HooksRaised
<1>. QED
  BY <1>1, <1>2, <1>4, <1>5

LEMMA GoneInvSystem ==
  ASSUME TypeOK, GoneInv, MaxWindows = 1, System
  PROVE  GoneInv'
<1>1. UNCHANGED <<pc, poll, belief>>
  BY DEF System, watchVars, historyVars
<1>2. /\ \A h \in Handle : Gone(h) => Gone(h)'
      /\ \A h \in Handle : Exists(h)' => opens'[h] = 1
  BY GoneStays
<1>3. ASSUME NEW i \in DOMAIN hooks', hooks'[i].kind = "destroy"
      PROVE  Gone(hooks[i].hwnd)'
  <2>1. CASE i \in DOMAIN hooks /\ hooks'[i] = hooks[i]
    <3>1. hooks \in Seq(WinEvent) /\ hooks[i] \in WinEvent
      BY <2>1 DEF TypeOK
    <3>2. hooks[i].hwnd \in Handle
      BY <3>1 DEF WinEvent
    <3>3. Gone(hooks[i].hwnd)
      BY <1>3, <2>1 DEF GoneInv, DestroyEvent
    <3>. QED
      BY <1>2, <2>1, <3>2, <3>3 DEF Gone
  <2>2. ASSUME NEW h \in Handle, hooks'[i].hwnd = h,
               Exists(h), os'[h] = "none", opens'[h] = opens[h]
        PROVE  Gone(hooks[i].hwnd)'
    BY <2>2 DEF Gone, GoneInv
  <2>. QED
    BY <1>3, <2>1, <2>2, RaisedOfEnd
<1>. QED
  BY <1>1, <1>2, <1>3 DEF GoneInv, DestroyEvent, Gone

\* What a WinEvent tells the subscribers: an end only of a window that is gone, and
\* anything else only of one that exists.
LEMMA DeliverTells ==
  ASSUME TypeOK, GoneInv, DeliverWinEvent, NEW e, e = Head(hooks)
  PROVE  /\ e.hwnd \in Handle
         /\ \/ UNCHANGED <<belief, told, reported>>
            \/ /\ e.kind = "destroy" /\ Gone(e.hwnd)
               /\ belief' = [belief EXCEPT ![e.hwnd] = "closed"]
               /\ reported' = reported \cup {<<"destroyed", belief[e.hwnd]>>}
            \/ \E type \in {"created", "focused"} :
                 /\ is_root_window(e.hwnd)
                 /\ belief' = [belief EXCEPT ![e.hwnd] = Told(type, @)]
                 /\ reported' = reported \cup {<<type, belief[e.hwnd]>>}
<1>1. e.hwnd \in Handle /\ win_event_proc(e)
  BY HooksDelivered DEF DeliverWinEvent
<1>2. e.kind = "destroy" => Gone(e.hwnd)
  <2>1. 1 \in DOMAIN hooks /\ e = hooks[1]
    BY HooksDelivered
  <2>. QED
    BY <2>1 DEF GoneInv, DestroyEvent
<1>3. ASSUME NEW type, emit_window_event(type, e.hwnd)
      PROVE  \/ UNCHANGED <<belief, told, reported>>
             \/ /\ belief' = [belief EXCEPT ![e.hwnd] = Told(type, @)]
                /\ reported' = reported \cup {<<type, belief[e.hwnd]>>}
  BY <1>1, <1>3, EmitCases
<1>4. CASE SinkOpened(e.hwnd) \/ UNCHANGED <<reg, focused, queue, historyVars>>
  BY <1>1, <1>4 DEF SinkOpened, historyVars
<1>5. CASE is_root_window(e.hwnd) /\ SinkCreated(e.hwnd)
  BY <1>1, <1>3, <1>5 DEF SinkCreated, historyVars
<1>6. CASE is_root_window(e.hwnd) /\ SinkFocused(e.hwnd)
  BY <1>1, <1>3, <1>6 DEF SinkFocused, historyVars
<1>7. CASE e.kind = "destroy" /\ SinkDestroyed(e.hwnd)
  <2>1. Told("destroyed", belief[e.hwnd]) = "closed"
    BY DEF Told
  <2>. QED
    BY <1>1, <1>2, <1>3, <1>7, <2>1 DEF SinkDestroyed, historyVars
<1>. QED
  BY <1>1, <1>4, <1>5, <1>6, <1>7 DEF win_event_proc

LEMMA GoneInvWorker ==
  ASSUME TypeOK, GoneInv, Worker
  PROVE  GoneInv'
<1>1. UNCHANGED <<os, root, opens, foreground, unhooked>>
  BY DEF Worker
<1>2. belief \in [Handle -> Belief] /\ pc \in Control
  BY DEF TypeOK
<1>3. CASE UNCHANGED <<hooks, belief>> /\ UNCHANGED poll
             /\ pc' \notin {"start", "process", "hook_window", "hook_foreground"}
  BY <1>1, <1>3 DEF GoneInv, Gone, DestroyEvent, Exists
<1>4. CASE Startup
  <2>1. hooks' = hooks
    BY <1>4 DEF Startup
  <2>2. pc' \in {"process", "hook_window", "hook_foreground"} => ~poll'
    BY <1>4 DEF Startup, WatchUnavailable, WatchStarts, FindTarget, InstallWindowHook,
                InstallForegroundHook, InstallHook, GoneInv, watchVars
  <2>3. pc' # "start" /\ ~poll
    BY <1>4 DEF Startup, WatchUnavailable, WatchStarts, FindTarget, InstallWindowHook,
                InstallForegroundHook, InstallHook, GoneInv
  <2>4. \A h \in Handle : belief'[h] = "closed" => belief[h] = "closed"
    <3>1. CASE UNCHANGED belief
      BY <3>1
    <3>2. CASE WatchStarts
      BY <3>2 DEF WatchStarts, BaselinePoll
    <3>. QED
      BY <1>4, <3>1, <3>2 DEF Startup, WatchUnavailable, FindTarget, InstallWindowHook,
                              InstallForegroundHook, InstallHook, historyVars
  <2>. QED
    BY <1>1, <2>1, <2>2, <2>3, <2>4 DEF GoneInv, Gone, DestroyEvent, Exists
<1>5. CASE DeliverWinEvent
  <2>. DEFINE e == Head(hooks)
  <2>1. pc' = pc /\ poll' = poll /\ pc \notin {"start", "process", "hook_window", "hook_foreground"}
    BY <1>5 DEF DeliverWinEvent
  <2>2. ~poll => \A h \in Handle : belief'[h] = "closed" => Gone(h)
    <3>1. CASE UNCHANGED belief
      BY <3>1 DEF GoneInv
    <3>2. CASE Gone(e.hwnd) /\ belief' = [belief EXCEPT ![e.hwnd] = "closed"]
      BY <1>2, <3>2 DEF GoneInv
    <3>3. ASSUME NEW type \in {"created", "focused"},
                 belief' = [belief EXCEPT ![e.hwnd] = Told(type, @)], e.hwnd \in Handle
          PROVE  \A h \in Handle : belief'[h] = "closed" => belief[h] = "closed"
      BY <1>2, <3>3 DEF Told
    <3>. QED
      BY <1>5, <3>1, <3>2, <3>3, DeliverTells DEF GoneInv
  <2>3. ASSUME NEW i \in DOMAIN hooks', hooks'[i].kind = "destroy" PROVE Gone(hooks'[i].hwnd)
    <3>1. i + 1 \in DOMAIN hooks /\ hooks'[i] = hooks[i + 1]
      BY <1>5, HooksDelivered
    <3>. QED
      BY <2>3, <3>1 DEF GoneInv, DestroyEvent
  <2>. QED
    BY <1>1, <2>1, <2>2, <2>3 DEF GoneInv, Gone, DestroyEvent, Exists
<1>6. CASE wm_tick
  <2>1. /\ hooks' = hooks /\ poll' = poll /\ pc' = "loop"
        /\ ~poll => belief' = belief
    BY <1>6 DEF wm_tick, historyVars
  <2>. QED
    BY <1>1, <2>1 DEF GoneInv, Gone, DestroyEvent, Exists
<1>7. CASE PollEvent \/ ProcessEvent \/ QueueDrained
  BY <1>3, <1>7 DEF PollEvent, ProcessEvent, QueueDrained, watchVars, historyVars
<1>. QED
  BY <1>4, <1>5, <1>6, <1>7 DEF Worker

LEMMA GoneInvInductive ==
  ASSUME MaxWindows = 1
  PROVE  Spec => []GoneInv
<1>1. Init => GoneInv
  BY DEF Init, GoneInv, Exists
<1>2. TypeOK /\ GoneInv /\ [Next]_vars => GoneInv'
  <2>1. UNCHANGED vars /\ GoneInv => GoneInv'
    BY DEF vars, GoneInv, Gone, DestroyEvent, Exists
  <2>. QED
    BY <2>1, GoneInvSystem, GoneInvWorker DEF Next
<1>. QED
  BY <1>1, <1>2, TypeCorrect, PTL DEF Spec

\* At most one WinEvent of a window's end waits, and its subscribers have not heard of
\* the end.
QuietInv ==
  /\ ~poll
  /\ \A i \in DOMAIN hooks : DestroyEvent(i) => belief[hooks[i].hwnd] # "closed"
  /\ \A i, j \in DOMAIN hooks :
       DestroyEvent(i) /\ DestroyEvent(j) /\ hooks[i].hwnd = hooks[j].hwnd => i = j
  /\ QuietAfterClose

LEMMA QuietInvSystem ==
  ASSUME TypeOK, GoneInv, QuietInv, System
  PROVE  QuietInv'
<1>1. UNCHANGED <<poll, belief, reported>>
  BY DEF System, watchVars, historyVars
<1>2. Len(hooks) \in Nat /\ DOMAIN hooks = 1 .. Len(hooks)
  BY RaisedOfEnd
<1>3. CASE hooks' = hooks
  BY <1>1, <1>3 DEF QuietInv, QuietAfterClose, DestroyEvent
<1>4. CASE /\ DOMAIN hooks' = 1 .. Len(hooks) + 1
           /\ \A i \in 1 .. Len(hooks) : hooks'[i] = hooks[i]
           /\ hooks'[Len(hooks) + 1].kind # "destroy"
  <2>1. \A i \in DOMAIN hooks' : hooks'[i].kind = "destroy" =>
          i \in DOMAIN hooks /\ hooks'[i] = hooks[i]
    BY <1>2, <1>4
  <2>. QED
    BY <1>1, <2>1 DEF QuietInv, QuietAfterClose, DestroyEvent
<1>5. ASSUME NEW h \in Handle,
             DOMAIN hooks' = 1 .. Len(hooks) + 1,
             \A i \in 1 .. Len(hooks) : hooks'[i] = hooks[i],
             hooks'[Len(hooks) + 1].hwnd = h, Exists(h)
      PROVE  QuietInv'
  <2>1. ~poll => belief[h] # "closed"
    BY <1>5 DEF GoneInv, Gone, Exists
  <2>2. \A i \in DOMAIN hooks : hooks[i].kind = "destroy" => hooks[i].hwnd # h
    BY <1>5 DEF GoneInv, Gone, Exists, DestroyEvent
  <2>3. \A i \in DOMAIN hooks' : i = Len(hooks) + 1 \/ (i \in DOMAIN hooks /\ hooks'[i] = hooks[i])
    BY <1>2, <1>5
  <2>4. \A i \in DOMAIN hooks' : hooks'[i].kind = "destroy" => belief[hooks'[i].hwnd] # "closed"
    BY <1>5, <2>1, <2>3 DEF QuietInv, DestroyEvent
  <2>5. \A i, j \in DOMAIN hooks' :
          /\ hooks'[i].kind = "destroy" /\ hooks'[j].kind = "destroy"
          /\ hooks'[i].hwnd = hooks'[j].hwnd
          => i = j
    BY <1>5, <2>2, <2>3 DEF QuietInv, DestroyEvent
  <2>. QED
    BY <1>1, <2>4, <2>5 DEF QuietInv, QuietAfterClose, DestroyEvent
<1>. QED
  BY <1>3, <1>4, <1>5, RaisedOfEnd

LEMMA QuietInvDeliver ==
  ASSUME TypeOK, GoneInv, QuietInv, DeliverWinEvent
  PROVE  QuietInv'
<1>. DEFINE e == Head(hooks)
<1>1. /\ Len(hooks) \in Nat \ {0} /\ DOMAIN hooks = 1 .. Len(hooks)
      /\ e = hooks[1] /\ e.hwnd \in Handle
      /\ DOMAIN hooks' = 1 .. Len(hooks) - 1
      /\ \A i \in 1 .. Len(hooks) - 1 : hooks'[i] = hooks[i + 1]
  BY HooksDelivered
<1>2. \/ UNCHANGED <<belief, told, reported>>
      \/ /\ e.kind = "destroy" /\ Gone(e.hwnd)
         /\ belief' = [belief EXCEPT ![e.hwnd] = "closed"]
         /\ reported' = reported \cup {<<"destroyed", belief[e.hwnd]>>}
      \/ \E type \in {"created", "focused"} :
           /\ is_root_window(e.hwnd)
           /\ belief' = [belief EXCEPT ![e.hwnd] = Told(type, @)]
           /\ reported' = reported \cup {<<type, belief[e.hwnd]>>}
  BY DeliverTells
<1>. HIDE DEF e
<1>3. poll' = poll /\ ~poll /\ belief \in [Handle -> Belief]
  BY DEF DeliverWinEvent, QuietInv, TypeOK
<1>4. \A i \in DOMAIN hooks' : i + 1 \in DOMAIN hooks /\ hooks'[i] = hooks[i + 1]
  BY <1>1
<1>5. \A i \in DOMAIN hooks' : hooks'[i].kind = "destroy" => hooks'[i].hwnd \in Handle
  <2>1. hooks \in Seq(WinEvent)
    BY DEF TypeOK
  <2>2. \A i \in DOMAIN hooks : hooks[i] \in WinEvent
    BY <2>1
  <2>. QED
    BY <1>4, <2>2 DEF WinEvent
<1>6. \A i, j \in DOMAIN hooks' :
        /\ hooks'[i].kind = "destroy" /\ hooks'[j].kind = "destroy"
        /\ hooks'[i].hwnd = hooks'[j].hwnd
        => i = j
  <2>. SUFFICES ASSUME NEW i \in DOMAIN hooks', NEW j \in DOMAIN hooks',
                       hooks'[i].kind = "destroy", hooks'[j].kind = "destroy",
                       hooks'[i].hwnd = hooks'[j].hwnd
                PROVE  i = j
    OBVIOUS
  <2>1. i + 1 = j + 1
    BY <1>4 DEF QuietInv, DestroyEvent
  <2>. QED
    BY <1>1, <2>1
<1>7. \A i \in DOMAIN hooks' : hooks'[i].kind = "destroy" => belief[hooks'[i].hwnd] # "closed"
  BY <1>4 DEF QuietInv, DestroyEvent
<1>8. CASE UNCHANGED <<belief, told, reported>>
  BY <1>3, <1>6, <1>7, <1>8 DEF QuietInv, QuietAfterClose, DestroyEvent
<1>9. CASE /\ e.kind = "destroy"
           /\ belief' = [belief EXCEPT ![e.hwnd] = "closed"]
           /\ reported' = reported \cup {<<"destroyed", belief[e.hwnd]>>}
  <2>1. \A i \in DOMAIN hooks' : hooks'[i].kind = "destroy" => hooks'[i].hwnd # e.hwnd
    <3>. SUFFICES ASSUME NEW i \in DOMAIN hooks', hooks'[i].kind = "destroy",
                         hooks'[i].hwnd = e.hwnd
                  PROVE  FALSE
      OBVIOUS
    <3>1. i + 1 = 1
      BY <1>1, <1>4, <1>9 DEF QuietInv, DestroyEvent
    <3>. QED
      BY <1>1, <3>1
  <2>2. \A i \in DOMAIN hooks' : hooks'[i].kind = "destroy" => belief'[hooks'[i].hwnd] # "closed"
    BY <1>3, <1>5, <1>7, <1>9, <2>1
  <2>3. belief[e.hwnd] # "closed"
    BY <1>1, <1>9 DEF QuietInv, DestroyEvent
  <2>4. QuietAfterClose'
    BY <1>9, <2>3 DEF QuietInv, QuietAfterClose
  <2>. QED
    BY <1>3, <1>6, <2>2, <2>4 DEF QuietInv, DestroyEvent
<1>10. ASSUME NEW type \in {"created", "focused"}, is_root_window(e.hwnd),
              belief' = [belief EXCEPT ![e.hwnd] = Told(type, @)],
              reported' = reported \cup {<<type, belief[e.hwnd]>>}
       PROVE  QuietInv'
  <2>1. belief[e.hwnd] # "closed"
    BY <1>1, <1>3, <1>10 DEF GoneInv, Gone, is_root_window, Exists
  <2>2. \A h \in Handle : belief'[h] = "closed" => belief[h] = "closed"
    BY <1>1, <1>3, <1>10 DEF Told
  <2>3. \A i \in DOMAIN hooks' : hooks'[i].kind = "destroy" => belief'[hooks'[i].hwnd] # "closed"
    BY <1>5, <1>7, <2>2
  <2>4. QuietAfterClose'
    BY <1>10, <2>1 DEF QuietInv, QuietAfterClose
  <2>. QED
    BY <1>3, <1>6, <2>3, <2>4 DEF QuietInv, DestroyEvent
<1>. QED
  BY <1>2, <1>8, <1>9, <1>10

LEMMA QuietInvNext ==
  ASSUME TypeOK, GoneInv, QuietInv, "process" \notin Faults, "hook" \notin Faults, [Next]_vars
  PROVE  QuietInv'
<1>1. CASE System
  BY <1>1, QuietInvSystem
<1>2. CASE DeliverWinEvent
  BY <1>2, QuietInvDeliver
<1>3. CASE UNCHANGED <<hooks, poll, belief, reported>>
  BY <1>3 DEF QuietInv, QuietAfterClose, DestroyEvent
<1>4. CASE Startup /\ UNCHANGED belief
  <2>1. UNCHANGED <<hooks, belief, reported>>
    BY <1>4 DEF Startup, WatchUnavailable, WatchStarts, FindTarget, InstallWindowHook,
                InstallForegroundHook, InstallHook, historyVars
  <2>2. ~poll
    BY DEF QuietInv
  <2>3. FindTarget \/ InstallWindowHook \/ InstallForegroundHook => ~poll'
    <3>1. MayFail("process") = {FALSE} /\ MayFail("hook") = {FALSE}
      BY DEF MayFail
    <3>2. FindTarget => ~poll'
      BY <3>1 DEF FindTarget
    <3>3. InstallWindowHook => ~poll'
      BY <3>1 DEF InstallWindowHook, InstallHook
    <3>4. InstallForegroundHook => ~poll'
      BY <3>1 DEF InstallForegroundHook, InstallHook
    <3>. QED
      BY <3>2, <3>3, <3>4
  <2>4. WatchUnavailable \/ WatchStarts => poll' = poll
    BY DEF WatchUnavailable, WatchStarts, watchVars
  <2>5. ~poll'
    BY <1>4, <2>2, <2>3, <2>4 DEF Startup
  <2>. QED
    BY <2>1, <2>5 DEF QuietInv, QuietAfterClose, DestroyEvent
<1>5. CASE Startup /\ WatchStarts
  <2>1. UNCHANGED <<hooks, poll, reported>>
    BY <1>5 DEF Startup, WatchStarts
  <2>2. \A h \in Handle : belief'[h] = "closed" => belief[h] = "closed"
    BY <1>5 DEF WatchStarts, BaselinePoll
  <2>3. \A i \in DOMAIN hooks : hooks[i].kind = "destroy" => hooks[i].hwnd \in Handle
    <3>1. \A i \in DOMAIN hooks : hooks[i] \in WinEvent
      BY DEF TypeOK
    <3>. QED
      BY <3>1 DEF WinEvent
  <2>. QED
    BY <2>1, <2>2, <2>3 DEF QuietInv, QuietAfterClose, DestroyEvent
<1>6. CASE PollEvent \/ ProcessEvent \/ QueueDrained \/ wm_tick
  BY <1>3, <1>6 DEF PollEvent, ProcessEvent, QueueDrained, wm_tick, watchVars, historyVars, QuietInv
<1>7. Startup => UNCHANGED belief \/ WatchStarts
  BY DEF Startup, WatchUnavailable, FindTarget, InstallWindowHook,
         InstallForegroundHook, InstallHook, historyVars
<1>. QED
  BY <1>1, <1>2, <1>3, <1>4, <1>5, <1>6, <1>7 DEF Next, Worker, vars

\* Where the hooks are in place and no handle is used twice, nothing at all is reported of
\* a window after its end, whether windows can be resolved, entries and events made or
\* windows enumerated.
THEOREM NothingAfterClose ==
  ASSUME MaxWindows = 1, "process" \notin Faults, "hook" \notin Faults
  PROVE  Spec => []QuietAfterClose
<1>1. Init => QuietInv
  BY DEF Init, QuietInv, QuietAfterClose
<1>2. TypeOK /\ GoneInv /\ QuietInv /\ [Next]_vars => QuietInv'
  BY QuietInvNext
<1>3. QuietInv => QuietAfterClose
  BY DEF QuietInv
<1>. QED
  BY <1>1, <1>2, <1>3, TypeCorrect, GoneInvInductive, PTL DEF Spec

\* A window that is shown is announced, or the WinEvent that says so waits; an entry that
\* is known was announced.
ShowWaits(h) == \E i \in DOMAIN hooks : hooks[i].kind = "show" /\ hooks[i].hwnd = h

ShownInv ==
  ~poll =>
    /\ \A h \in Handle : reg[h] = "known" => belief[h] # "unknown"
    /\ pc \notin {"start", "inactive"} =>
         \A h \in Handle : Shown(h) /\ h \notin unhooked => belief[h] = "open" \/ ShowWaits(h)

\* Raising a WinEvent leaves those before it.
LEMMA ShowKeepsWaiting ==
  ASSUME TypeOK, GoneInv, System, NEW h, ShowWaits(h)
  PROVE  ShowWaits(h)'
<1>1. PICK i \in DOMAIN hooks : hooks[i].kind = "show" /\ hooks[i].hwnd = h
  BY DEF ShowWaits
<1>2. i \in DOMAIN hooks' /\ hooks'[i] = hooks[i]
  BY RaisedOfEnd
<1>. QED
  BY <1>1, <1>2 DEF ShowWaits

LEMMA ShownInvSystem ==
  ASSUME TypeOK, GoneInv, ShownInv, System
  PROVE  ShownInv'
<1>1. UNCHANGED <<poll, pc, reg, belief>>
  BY DEF System, watchVars, historyVars
<1>2. /\ os \in [Handle -> {"none", "hidden", "shown"}] /\ root \in [Handle -> BOOLEAN]
      /\ unhooked \subseteq Handle
  BY DEF TypeOK
<1>3. PICK h \in Handle : \/ WindowOpens(h) \/ WindowShows(h) \/ WindowHides(h)
                          \/ WindowTakesFocus(h) \/ WindowCloses(h)
  BY DEF System
<1>4. ASSUME pc # "start"
      PROVE  \A g \in Handle : Shown(g)' /\ g \notin unhooked' =>
               (Shown(g) /\ g \notin unhooked) \/ ShowWaits(g)'
  <2>. USE DEF Shown, is_root_window, Exists
  <2>1. CASE WindowOpens(h)
    BY <1>2, <2>1 DEF WindowOpens
  <2>2. CASE WindowShows(h)
    <3>1. \A g \in Handle \ {h} : os'[g] = os[g] /\ root'[g] = root[g]
      BY <1>2, <2>2 DEF WindowShows
    <3>2. \A g \in Handle \ {h} : g \notin unhooked' => g \notin unhooked
      BY <2>2 DEF WindowShows, Noted
    <3>3. h \notin unhooked' => "window" \in installed
      BY <1>4, <2>2 DEF WindowShows, Noted
    <3>4. "window" \in installed => ShowWaits(h)'
      <4>. SUFFICES ASSUME "window" \in installed PROVE ShowWaits(h)'
        OBVIOUS
      <4>1. /\ Len(hooks) \in Nat /\ DOMAIN hooks' = 1 .. Len(hooks) + 1
            /\ hooks'[Len(hooks) + 1].kind = "show" /\ hooks'[Len(hooks) + 1].hwnd = h
        BY <2>2, HooksRaised DEF WindowShows
      <4>. QED
        BY <4>1 DEF ShowWaits
    <3>. QED
      BY <3>1, <3>2, <3>3, <3>4
  <2>3. CASE WindowHides(h)
    BY <1>2, <2>3 DEF WindowHides
  <2>4. CASE WindowTakesFocus(h)
    BY <2>4 DEF WindowTakesFocus
  <2>5. CASE WindowCloses(h)
    <3>1. os'[h] = "none" /\ \A g \in Handle \ {h} : os'[g] = os[g] /\ root'[g] = root[g]
      BY <1>2, <2>5 DEF WindowCloses
    <3>2. \A g \in Handle \ {h} : g \notin unhooked' => g \notin unhooked
      BY <2>5 DEF WindowCloses, Noted
    <3>. QED
      BY <3>1, <3>2
  <2>. QED
    BY <1>3, <2>1, <2>2, <2>3, <2>4, <2>5
<1>. QED
  BY <1>1, <1>4, ShowKeepsWaiting DEF ShownInv

\* A WinEvent that a window is shown leaves it announced: its entry is known and then it
\* was, or it is now.
LEMMA ShowAnnounces ==
  ASSUME TypeOK, GoneInv, ShownInv, ~poll, "event" \notin Faults,
         NEW h \in Handle, is_root_window(h), SinkCreated(h)
  PROVE  belief'[h] = "open"
<1>1. belief \in [Handle -> Belief]
  BY DEF TypeOK
<1>2. emit_window_event("created", h) => belief'[h] = "open"
  BY <1>1, EmitCases DEF Told
<1>3. CASE reg[h] = "known" /\ belief' = belief
  BY <1>1, <1>3 DEF ShownInv, GoneInv, Gone, is_root_window, Exists
<1>. QED
  BY <1>2, <1>3 DEF SinkCreated, historyVars

LEMMA ShownInvDeliver ==
  ASSUME TypeOK, GoneInv, ShownInv, "event" \notin Faults, DeliverWinEvent,
         UNCHANGED <<os, root, opens, unhooked>>
  PROVE  ShownInv'
<1>. DEFINE e == Head(hooks)
<1>1. /\ Len(hooks) \in Nat \ {0} /\ DOMAIN hooks = 1 .. Len(hooks)
      /\ e = hooks[1] /\ e.hwnd \in Handle
      /\ DOMAIN hooks' = 1 .. Len(hooks) - 1
      /\ \A i \in 1 .. Len(hooks) - 1 : hooks'[i] = hooks[i + 1]
  BY HooksDelivered
<1>2. \/ UNCHANGED <<belief, told, reported>>
      \/ Gone(e.hwnd) /\ belief' = [belief EXCEPT ![e.hwnd] = "closed"]
      \/ \E type \in {"created", "focused"} :
           is_root_window(e.hwnd) /\ belief' = [belief EXCEPT ![e.hwnd] = Told(type, @)]
  BY DeliverTells
<1>3. win_event_proc(e)
  BY DEF DeliverWinEvent
<1>. HIDE DEF e
<1>4. /\ reg \in [Handle -> {"absent", "opened", "known"}] /\ belief \in [Handle -> Belief]
      /\ poll' = poll /\ pc' = pc /\ pc \notin {"start", "inactive"}
  BY DEF TypeOK, DeliverWinEvent
<1>. SUFFICES ASSUME ~poll
              PROVE  /\ \A h \in Handle : reg'[h] = "known" => belief'[h] # "unknown"
                     /\ \A h \in Handle : Shown(h) /\ h \notin unhooked =>
                          belief'[h] = "open" \/ ShowWaits(h)'
  BY <1>4 DEF ShownInv, Shown, is_root_window, Exists
<1>5. \A h \in Handle : belief[h] # "unknown" => belief'[h] # "unknown"
  BY <1>1, <1>2, <1>4 DEF Told
<1>6. \A h \in Handle : reg'[h] = "known" => reg[h] = "known" \/ belief'[h] = "open"
  <2>1. ASSUME NEW status, register_window(e.hwnd, status)
        PROVE  reg' = reg \/ reg' = [reg EXCEPT ![e.hwnd] = status]
    BY <2>1 DEF register_window, MayFail
  <2>2. CASE SinkOpened(e.hwnd) \/ SinkFocused(e.hwnd)
    BY <1>1, <1>4, <2>1, <2>2 DEF SinkOpened, SinkFocused
  <2>3. CASE SinkDestroyed(e.hwnd)
    BY <1>1, <1>4, <2>3 DEF SinkDestroyed, Unregistered
  <2>4. CASE is_root_window(e.hwnd) /\ SinkCreated(e.hwnd)
    <3>1. belief'[e.hwnd] = "open"
      BY <1>1, <2>4, ShowAnnounces
    <3>2. reg' = reg \/ reg' = [reg EXCEPT ![e.hwnd] = "known"]
      BY <2>1, <2>4 DEF SinkCreated
    <3>. QED
      BY <1>1, <1>4, <3>1, <3>2
  <2>. QED
    BY <1>3, <2>2, <2>3, <2>4 DEF win_event_proc
<1>7. ASSUME NEW h \in Handle, Shown(h), h \notin unhooked
      PROVE  belief'[h] = "open" \/ ShowWaits(h)'
  <2>1. CASE belief[h] = "open"
    <3>1. h # e.hwnd \/ ~Gone(e.hwnd)
      BY <1>7 DEF Shown, is_root_window, Gone, Exists
    <3>. QED
      BY <1>1, <1>2, <1>4, <2>1, <3>1 DEF Told
  <2>2. CASE ShowWaits(h)
    <3>1. PICK i \in DOMAIN hooks : hooks[i].kind = "show" /\ hooks[i].hwnd = h
      BY <2>2 DEF ShowWaits
    <3>2. CASE i = 1
      <4>1. e.kind = "show" /\ e.hwnd = h
        BY <1>1, <3>1, <3>2
      <4>2. is_root_window(h) /\ SinkCreated(h)
        BY <1>3, <1>7, <4>1 DEF win_event_proc, Shown
      <4>. QED
        BY <4>2, ShowAnnounces
    <3>3. CASE i # 1
      <4>1. i - 1 \in DOMAIN hooks' /\ hooks'[i - 1] = hooks[i]
        BY <1>1, <3>3
      <4>. QED
        BY <3>1, <4>1 DEF ShowWaits
    <3>. QED
      BY <3>2, <3>3
  <2>. QED
    BY <1>4, <1>7, <2>1, <2>2 DEF ShownInv
<1>. QED
  BY <1>4, <1>5, <1>6, <1>7 DEF ShownInv

\* The baseline poll finds every window there is.
LEMMA ShownInvStarts ==
  ASSUME TypeOK, GoneInv, ShownInv, "enumerate" \notin Faults, "grow" \notin Faults,
         Startup, WatchStarts, UNCHANGED <<os, root, unhooked>>
  PROVE  ShownInv'
<1>1. /\ reg' = Visited(ExistingWindows)
      /\ belief' = [h \in Handle |-> IF h \in ExistingWindows THEN "open" ELSE belief[h]]
  BY DEF WatchStarts, BaselinePoll, Some
<1>2. UNCHANGED <<poll, hooks>>
  BY DEF WatchStarts, Startup
<1>3. \A h \in Handle : Shown(h) => h \in ExistingWindows
  BY DEF Shown, is_root_window, ExistingWindows
<1>. QED
  BY <1>1, <1>2, <1>3 DEF ShownInv, Shown, is_root_window, Exists, ShowWaits, Visited

LEMMA ShownInvNext ==
  ASSUME TypeOK, GoneInv, ShownInv, "enumerate" \notin Faults, "grow" \notin Faults,
         "event" \notin Faults, [Next]_vars
  PROVE  ShownInv'
<1>1. CASE System
  BY <1>1, ShownInvSystem
<1>2. CASE DeliverWinEvent /\ UNCHANGED <<os, root, opens, unhooked>>
  BY <1>2, ShownInvDeliver
<1>3. CASE Startup /\ WatchStarts /\ UNCHANGED <<os, root, unhooked>>
  BY <1>3, ShownInvStarts
<1>4. ASSUME UNCHANGED <<os, root, hooks, unhooked, belief, reg>>, ~poll' => ~poll,
             pc' \notin {"start", "inactive"} => pc \notin {"start", "inactive"}
      PROVE  ShownInv'
  BY <1>4 DEF ShownInv, Shown, is_root_window, Exists, ShowWaits
<1>5. CASE Startup /\ ~WatchStarts /\ UNCHANGED <<os, root, unhooked>>
  <2>1. UNCHANGED <<hooks, belief, reg>>
    BY <1>5 DEF Startup, WatchUnavailable, FindTarget, InstallWindowHook,
                InstallForegroundHook, InstallHook, watchVars, historyVars
  <2>2. ~poll
    BY <1>5 DEF Startup, WatchUnavailable, FindTarget, InstallWindowHook,
                InstallForegroundHook, InstallHook, GoneInv
  <2>3. pc' \notin {"start", "inactive"} => pc \notin {"start", "inactive"}
    BY <1>5 DEF Startup, WatchUnavailable, FindTarget, InstallWindowHook,
                InstallForegroundHook, InstallHook
  <2>. QED
    BY <1>4, <1>5, <2>1, <2>2, <2>3
<1>6. CASE ProcessEvent /\ UNCHANGED <<os, root, unhooked>>
  <2>1. reg' = reg /\ pc' = "loop" /\ UNCHANGED <<hooks, poll, belief>>
    BY <1>6, ReleasesNothing DEF ProcessEvent, historyVars
  <2>2. pc = "dispatch"
    BY <1>6 DEF ProcessEvent
  <2>. QED
    BY <1>4, <1>6, <2>1, <2>2
<1>7. CASE wm_tick /\ UNCHANGED <<os, root, unhooked>>
  <2>1. /\ UNCHANGED <<hooks, poll>> /\ pc = "tick"
        /\ ~poll => UNCHANGED <<reg, belief>>
    BY <1>7 DEF wm_tick, historyVars
  <2>2. CASE poll
    BY <2>1, <2>2 DEF ShownInv
  <2>3. CASE ~poll
    BY <1>4, <1>7, <2>1, <2>3
  <2>. QED
    BY <2>2, <2>3
<1>8. CASE (PollEvent \/ QueueDrained \/ UNCHANGED vars) /\ UNCHANGED <<os, root, unhooked>>
  BY <1>4, <1>8 DEF PollEvent, QueueDrained, vars, watchVars, historyVars
<1>9. UNCHANGED vars => UNCHANGED <<os, root, unhooked>>
  BY DEF vars
<1>. QED
  BY <1>1, <1>2, <1>3, <1>5, <1>6, <1>7, <1>8, <1>9 DEF Next, Worker

\* Once the hooks have caught up the subscribers know of every visible root window but
\* those shown last between the first poll and the hook, as long as no handle is used for a
\* second window, windows can be enumerated and entries and events made.
THEOREM ShownIsKnown ==
  ASSUME MaxWindows = 1, "enumerate" \notin Faults, "grow" \notin Faults, "event" \notin Faults
  PROVE  Spec => []ShownIsAnnounced
<1>1. Init => ShownInv
  BY DEF Init, ShownInv
<1>2. TypeOK /\ GoneInv /\ ShownInv /\ [Next]_vars => ShownInv'
  BY ShownInvNext
<1>3. ShownInv => ShownIsAnnounced
  BY DEF ShownInv, ShownIsAnnounced, CaughtUp, ShowWaits
<1>. QED
  BY <1>1, <1>2, <1>3, TypeCorrect, GoneInvInductive, PTL DEF Spec

-----------------------------------------------------------------------------
(* FocusIsReported.  The last WinEvent of a focus that waits names the     *)
(* foreground window, and once none waits watch.focused does: unless the   *)
(* window is no root window, of which nothing was noted.                   *)

FocusEvent(i) == hooks[i].kind = "foreground"

FocusWaits(h) ==
  \E i \in DOMAIN hooks :
    /\ FocusEvent(i)
    /\ hooks[i].hwnd = h
    /\ \A j \in DOMAIN hooks : FocusEvent(j) => j <= i

FocusInv ==
  /\ told = <<focused, IF focused = NoHandle THEN 0 ELSE 1>>
  /\ foreground # NoHandle =>
       /\ Exists(foreground)
       /\ root[foreground] =>
            \/ FocusWaits(foreground)
            \/ focused = foreground /\ \A j \in DOMAIN hooks : ~FocusEvent(j)

\* A WinEvent of another kind changes nothing of the focus.
LEMMA OtherEventRaised ==
  ASSUME TypeOK, NEW hook, NEW kind, NEW h \in Handle, Raise(hook, kind, h),
         kind # "foreground"
  PROVE  /\ \A g \in Handle : FocusWaits(g) => FocusWaits(g)'
         /\ (\A j \in DOMAIN hooks : ~FocusEvent(j)) => (\A j \in DOMAIN hooks : ~FocusEvent(j))'
<1>. USE DEF FocusEvent
<1>1. /\ Len(hooks) \in Nat /\ DOMAIN hooks = 1 .. Len(hooks)
      /\ \/ hooks' = hooks
         \/ /\ DOMAIN hooks' = 1 .. Len(hooks) + 1
            /\ hooks'[Len(hooks) + 1].kind = kind
            /\ \A i \in 1 .. Len(hooks) : hooks'[i] = hooks[i]
  BY HooksRaised
<1>2. CASE hooks' = hooks
  BY <1>2 DEF FocusWaits
<1>3. CASE /\ DOMAIN hooks' = 1 .. Len(hooks) + 1
           /\ hooks'[Len(hooks) + 1].kind = kind
           /\ \A i \in 1 .. Len(hooks) : hooks'[i] = hooks[i]
  <2>1. \A i \in DOMAIN hooks' : i \in DOMAIN hooks \/ i = Len(hooks) + 1
    BY <1>1, <1>3
  <2>2. \A i \in DOMAIN hooks : i \in DOMAIN hooks' /\ hooks'[i] = hooks[i]
    BY <1>1, <1>3
  <2>. QED
    BY <1>3, <2>1, <2>2 DEF FocusWaits
<1>. QED
  BY <1>1, <1>2, <1>3

LEMMA FocusInvSystem ==
  ASSUME TypeOK, FocusInv, System
  PROVE  FocusInv'
<1>1. UNCHANGED <<installed, focused, told>>
  BY DEF System, watchVars, historyVars
<1>2. PICK h \in Handle : \/ WindowOpens(h) \/ WindowShows(h) \/ WindowHides(h)
                          \/ WindowTakesFocus(h) \/ WindowCloses(h)
  BY DEF System
<1>3. /\ os \in [Handle -> {"none", "hidden", "shown"}] /\ root \in [Handle -> BOOLEAN]
      /\ foreground \in Handle \cup {NoHandle}
  BY DEF TypeOK
<1>4. CASE WindowOpens(h)
  <2>1. /\ foreground' = foreground
        /\ foreground # NoHandle => foreground # h
    BY <1>4 DEF WindowOpens, FocusInv, Exists
  <2>2. \A g \in Handle \ {h} : os'[g] = os[g] /\ root'[g] = root[g]
    BY <1>3, <1>4 DEF WindowOpens
  <2>3. Raise("window", "create", h)
    BY <1>4 DEF WindowOpens
  <2>. QED
    BY <1>1, <1>3, <2>1, <2>2, <2>3, OtherEventRaised DEF FocusInv, Exists
<1>5. CASE WindowShows(h)
  <2>1. UNCHANGED <<root, foreground>> /\ Raise("window", "show", h)
    BY <1>5 DEF WindowShows
  <2>2. \A g \in Handle : Exists(g) => Exists(g)'
    BY <1>3, <1>5 DEF WindowShows, Exists
  <2>. QED
    BY <1>1, <1>3, <2>1, <2>2, OtherEventRaised DEF FocusInv
<1>6. CASE WindowHides(h)
  <2>1. UNCHANGED <<root, foreground, hooks>>
    BY <1>6 DEF WindowHides
  <2>2. \A g \in Handle : Exists(g) => Exists(g)'
    BY <1>3, <1>6 DEF WindowHides, Exists
  <2>. QED
    BY <1>1, <1>3, <2>1, <2>2 DEF FocusInv, FocusWaits, FocusEvent
<1>7. CASE WindowTakesFocus(h)
  <2>1. /\ UNCHANGED <<os, root>> /\ Exists(h) /\ Raise("foreground", "foreground", h)
        /\ foreground' = IF "foreground" \in installed THEN h ELSE foreground
    BY <1>7 DEF WindowTakesFocus
  <2>2. CASE hooks' = hooks /\ "foreground" \notin installed
    BY <1>1, <2>1, <2>2 DEF FocusInv, FocusWaits, FocusEvent, Exists
  <2>3. CASE /\ Len(hooks) \in Nat /\ DOMAIN hooks' = 1 .. Len(hooks) + 1
             /\ hooks'[Len(hooks) + 1].kind = "foreground"
             /\ hooks'[Len(hooks) + 1].hwnd = h
             /\ "foreground" \in installed
    <3>1. FocusWaits(h)'
      BY <2>3 DEF FocusWaits, FocusEvent
    <3>2. foreground' = h
      BY <2>1, <2>3
    <3>. QED
      BY <1>1, <2>1, <3>1, <3>2 DEF FocusInv, Exists
  <2>. QED
    BY <2>1, <2>2, <2>3, HooksRaised DEF Raise
<1>8. CASE WindowCloses(h)
  <2>1. foreground' = (IF foreground = h THEN NoHandle ELSE foreground)
    BY <1>8 DEF WindowCloses
  <2>2. \A g \in Handle \ {h} : os'[g] = os[g] /\ root'[g] = root[g]
    BY <1>3, <1>8 DEF WindowCloses
  <2>3. Raise("window", "destroy", h)
    BY <1>8 DEF WindowCloses
  <2>. QED
    BY <1>1, <1>3, <2>1, <2>2, <2>3, OtherEventRaised DEF FocusInv, Exists
<1>. QED
  BY <1>2, <1>4, <1>5, <1>6, <1>7, <1>8

\* Delivering the last WinEvent of a focus makes watch.focused the foreground window;
\* delivering an earlier one or another leaves the last one waiting.
LEMMA FocusInvDeliver ==
  ASSUME TypeOK, GoneInv, FocusInv, "event" \notin Faults, DeliverWinEvent,
         UNCHANGED <<os, root, foreground>>
  PROVE  FocusInv'
<1>. DEFINE e == Head(hooks)
<1>1. /\ Len(hooks) \in Nat \ {0} /\ DOMAIN hooks = 1 .. Len(hooks)
      /\ e = hooks[1] /\ e.hwnd \in Handle
      /\ DOMAIN hooks' = 1 .. Len(hooks) - 1
      /\ \A i \in 1 .. Len(hooks) - 1 : hooks'[i] = hooks[i + 1]
  BY HooksDelivered
<1>. HIDE DEF e
<1>2. win_event_proc(e)
  BY DEF DeliverWinEvent, e
<1>3. told' = <<focused', IF focused' = NoHandle THEN 0 ELSE 1>>
  <2>1. told = <<focused, IF focused = NoHandle THEN 0 ELSE 1>>
    BY DEF FocusInv
  <2>2. CASE UNCHANGED <<told, focused>>
    BY <2>1, <2>2
  <2>3. ASSUME NEW type \in {"created", "destroyed"}, emit_window_event(type, e.hwnd)
        PROVE  told' = told
    BY <1>1, <2>3, EmitCases
  <2>4. is_root_window(e.hwnd) /\ emit_window_event("focused", e.hwnd)
          => told' = <<e.hwnd, 1>> /\ e.hwnd # NoHandle
    BY <1>1, EmitCases, HandleAssumption DEF GoneInv, is_root_window
  <2>. QED
    BY <1>2, <2>1, <2>2, <2>3, <2>4
       DEF win_event_proc, SinkOpened, SinkCreated, SinkDestroyed, SinkFocused, historyVars
<1>4. e.kind # "foreground" => focused' = focused
  BY <1>2 DEF win_event_proc, SinkOpened, SinkCreated, SinkDestroyed
<1>5. e.kind = "foreground" /\ is_root_window(e.hwnd) => focused' = e.hwnd
  BY <1>2 DEF win_event_proc, SinkFocused
<1>6. Exists(foreground)' = Exists(foreground)
  BY DEF Exists
<1>7. ASSUME foreground # NoHandle, root[foreground]
      PROVE  \/ FocusWaits(foreground)'
             \/ focused' = foreground /\ \A j \in DOMAIN hooks' : hooks'[j].kind # "foreground"
  <2>1. CASE focused = foreground /\ \A j \in DOMAIN hooks : ~FocusEvent(j)
    <3>1. e.kind # "foreground"
      BY <1>1, <2>1 DEF FocusEvent
    <3>2. \A j \in DOMAIN hooks' : hooks'[j].kind # "foreground"
      BY <1>1, <2>1 DEF FocusEvent
    <3>. QED
      BY <1>4, <2>1, <3>1, <3>2
  <2>2. CASE FocusWaits(foreground)
    <3>1. PICK i \in DOMAIN hooks :
            /\ hooks[i].kind = "foreground" /\ hooks[i].hwnd = foreground
            /\ \A j \in DOMAIN hooks : hooks[j].kind = "foreground" => j <= i
      BY <2>2 DEF FocusWaits, FocusEvent
    <3>2. CASE i = 1
      <4>1. e.kind = "foreground" /\ e.hwnd = foreground
        BY <1>1, <3>1, <3>2
      <4>2. is_root_window(foreground)
        BY <1>7 DEF is_root_window, FocusInv
      <4>3. \A j \in DOMAIN hooks' : hooks'[j].kind # "foreground"
        BY <1>1, <3>1, <3>2
      <4>. QED
        BY <1>5, <4>1, <4>2, <4>3
    <3>3. CASE i # 1
      <4>1. i - 1 \in DOMAIN hooks' /\ hooks'[i - 1] = hooks[i]
        BY <1>1, <3>3
      <4>2. \A j \in DOMAIN hooks' : hooks'[j].kind = "foreground" => j <= i - 1
        BY <1>1, <3>1
      <4>. QED
        BY <3>1, <4>1, <4>2 DEF FocusWaits, FocusEvent
    <3>. QED
      BY <3>2, <3>3
  <2>. QED
    BY <1>7, <2>1, <2>2 DEF FocusInv
<1>. QED
  BY <1>3, <1>6, <1>7 DEF FocusInv, FocusEvent

LEMMA FocusInvNext ==
  ASSUME TypeOK, GoneInv, FocusInv, "event" \notin Faults, [Next]_vars
  PROVE  FocusInv'
<1>1. CASE System
  BY <1>1, FocusInvSystem
<1>2. CASE DeliverWinEvent /\ UNCHANGED <<os, root, foreground>>
  BY <1>2, FocusInvDeliver
<1>3. CASE UNCHANGED <<os, root, foreground, hooks, focused, told>>
  BY <1>3 DEF FocusInv, FocusWaits, FocusEvent, Exists
<1>4. Startup \/ PollEvent \/ ProcessEvent \/ QueueDrained \/ wm_tick
        => UNCHANGED <<hooks, focused, told>>
  <2>1. poll_windows => told' = told
    BY PollCases DEF PollEmits
  <2>. QED
    BY <2>1 DEF Startup, WatchUnavailable, WatchStarts, FindTarget, InstallWindowHook,
                InstallForegroundHook, InstallHook, PollEvent, ProcessEvent, QueueDrained,
                wm_tick, watchVars, historyVars
<1>. QED
  BY <1>1, <1>2, <1>3, <1>4 DEF Next, Worker, vars

\* Once the hooks have caught up the subscribers know which root window has the
\* foreground, whatever fails but an event, as long as no handle is used for a second
\* window: watch.focused keeps the handle of a window that has closed.
THEOREM FocusIsKnown ==
  ASSUME MaxWindows = 1, "event" \notin Faults
  PROVE  Spec => []FocusIsReported
<1>1. Init => FocusInv
  BY DEF Init, FocusInv
<1>2. TypeOK /\ GoneInv /\ FocusInv /\ [Next]_vars => FocusInv'
  BY FocusInvNext
<1>3. TypeOK /\ GoneInv /\ FocusInv => FocusIsReported
  <2>. SUFFICES ASSUME TypeOK, GoneInv, FocusInv, CaughtUp, foreground # NoHandle,
                       is_root_window(foreground)
                PROVE  told = <<foreground, opens[foreground]>>
    BY DEF FocusIsReported
  <2>1. focused = foreground
    BY DEF FocusInv, CaughtUp, FocusWaits, is_root_window
  <2>2. opens[foreground] = 1
    BY DEF GoneInv, TypeOK, is_root_window
  <2>. QED
    BY <2>1, <2>2 DEF FocusInv
<1>. QED
  BY <1>1, <1>2, <1>3, TypeCorrect, GoneInvInductive, PTL DEF Spec

================================================================================
