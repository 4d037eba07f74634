----------------------------- MODULE DesktopWindowsProofs -----------------------------
(***************************************************************************)
(* Proofs about windows(), move_window() and switch(), for all windows,    *)
(* desktops and failures except where a theorem names one.                 *)
(***************************************************************************)
EXTENDS DesktopWindows, SequenceTheorems, TLAPS

LEMMA MayFailType == \A fault : MayFail(fault) \subseteq BOOLEAN
BY DEF MayFail

LEMMA NeverFails == ASSUME NEW fault, fault \notin Faults PROVE MayFail(fault) = {FALSE}
BY DEF MayFail

-----------------------------------------------------------------------------
(* Types.                                                                  *)

LEMMA NoCallIsNone == NoCall \notin Call
BY DEF NoCall, Call

LEMMA CallParts ==
  ASSUME NEW c \in Call
  PROVE  c.desk \in Desktop /\ c.of \in {"windows", "switch", "move"}
BY DEF Call

LEMMA WorldParts ==
  ASSUME NEW x \in World
  PROVE  /\ x.open \subseteq Desktop /\ x.current \in Desktop
         /\ x.place \in [Window -> Desktop \cup {NoDesktop}]
         /\ x.style \in [Window -> {"plain", "ghost", "hidden"}]
BY DEF World

\* What Explorer, its user and the processes make of the world is a world.
LEMMA WorldStays ==
  ASSUME world \in World, Explorer
  PROVE  world' \in World
<1> USE WorldParts
<1>1. CASE UserSwitches
  BY <1>1 DEF UserSwitches, World
<1>2. CASE DesktopCloses
  <2>1. PICK d, fallback \in world.open :
          world' = [world EXCEPT !.open = @ \ {d},
                                 !.current = IF @ = d THEN fallback ELSE @,
                                 !.place = [w \in Window |-> IF @[w] = d THEN fallback ELSE @[w]]]
    BY <1>2 DEF DesktopCloses
  <2>2. [w \in Window |-> IF world.place[w] = d THEN fallback ELSE world.place[w]]
          \in [Window -> Desktop \cup {NoDesktop}]
    OBVIOUS
  <2> QED
    BY <2>1, <2>2 DEF World
<1>3. CASE WindowOpens
  <2>1. PICK w \in Window, s \in {"plain", "ghost", "hidden"} :
          world' = [world EXCEPT !.place[w] = world.current, !.style[w] = s]
    BY <1>3 DEF WindowOpens
  <2>2. /\ [world.place EXCEPT ![w] = world.current] \in [Window -> Desktop \cup {NoDesktop}]
        /\ [world.style EXCEPT ![w] = s] \in [Window -> {"plain", "ghost", "hidden"}]
    OBVIOUS
  <2>3. /\ world'.place = [world.place EXCEPT ![w] = world.current]
        /\ world'.style = [world.style EXCEPT ![w] = s]
        /\ world'.open = world.open /\ world'.current = world.current
        /\ world' = [open |-> world'.open, current |-> world'.current,
                     place |-> world'.place, style |-> world'.style]
    BY <2>1 DEF World
  <2> QED
    BY <2>2, <2>3 DEF World
<1>4. CASE WindowMoves
  BY <1>4 DEF WindowMoves, World
<1>5. CASE WindowChanges
  BY <1>5 DEF WindowChanges, World
<1>6. CASE WindowCloses
  <2>1. PICK w \in Window :
          world' = [world EXCEPT !.place[w] = NoDesktop, !.style[w] = "hidden"]
    BY <1>6 DEF WindowCloses
  <2>2. /\ [world.place EXCEPT ![w] = NoDesktop] \in [Window -> Desktop \cup {NoDesktop}]
        /\ [world.style EXCEPT ![w] = "hidden"] \in [Window -> {"plain", "ghost", "hidden"}]
    OBVIOUS
  <2>3. /\ world'.place = [world.place EXCEPT ![w] = NoDesktop]
        /\ world'.style = [world.style EXCEPT ![w] = "hidden"]
        /\ world'.open = world.open /\ world'.current = world.current
        /\ world' = [open |-> world'.open, current |-> world'.current,
                     place |-> world'.place, style |-> world'.style]
    BY <2>1 DEF World
  <2> QED
    BY <2>2, <2>3 DEF World
<1> QED
  BY <1>1, <1>2, <1>3, <1>4, <1>5, <1>6 DEF Explorer

LEMMA TypeInit == Init => TypeOK
<1> SUFFICES ASSUME Init PROVE TypeOK
  OBVIOUS
<1>1. world \in World /\ target \subseteq {"vdm", "avc"}
  BY DEF Init
<1>2. NoAnswer \in Answer
  BY DEF NoAnswer, Answer
<1>3. 0 \in 0 .. MaxChanges /\ 0 \in 0 .. MaxCalls
  BY BoundAssumption
<1>4. queue \in Seq(Desktop)
  BY DEF Init
<1> QED
  BY <1>1, <1>2, <1>3, <1>4 DEF Init, TypeOK, Control

LEMMA TypeExplorer == ASSUME TypeOK, Explorer PROVE TypeOK'
<1>1. world' \in World
  BY WorldStays DEF TypeOK
<1>2. changes' \in 0 .. MaxChanges
  BY BoundAssumption DEF TypeOK, Explorer
<1>3. external' \in BOOLEAN
  BY DEF TypeOK, Explorer
<1>4. worlds' \subseteq World
  BY <1>1 DEF TypeOK, Explorer
<1>5. answer' \in Answer
  BY DEF Explorer, NoAnswer, Answer
<1> QED
  BY <1>1, <1>2, <1>3, <1>4, <1>5 DEF TypeOK, Explorer, listingVars

\* How a call under way ends, and how it goes on.
CallTyped ==
  /\ pc \in Control
  /\ call \in Call \cup {NoCall}
  /\ pc = "script" <=> call = NoCall
  /\ answer \in Answer

LEMMA ReturnTyped ==
  ASSUME NEW of \in {"windows", "move", "switch", "error"}, NEW windows \in SUBSET Window,
         CallTyped, pc # "script", Return(of, windows)
  PROVE  CallTyped' /\ pc' = "script"
<1>1. answer' \in Answer
  BY CallParts DEF CallTyped, Return, Answer
<1> QED
  BY <1>1 DEF CallTyped, Return, Control

LEMMA RaiseErrorTyped ==
  ASSUME CallTyped, pc # "script", RaiseError
  PROVE  CallTyped' /\ pc' = "script"
BY ReturnTyped DEF RaiseError

LEMMA GoOnTyped ==
  ASSUME NEW at \in Control \ {"script"}, CallTyped, pc # "script", GoOn(at)
  PROVE  CallTyped' /\ pc' = at
BY DEF CallTyped, GoOn

LEMMA TypeIsCallTyped == TypeOK => CallTyped
BY DEF TypeOK, CallTyped

\* The steps that change nothing but where the call is.
LEMMA TypeMoves ==
  ASSUME TypeOK, CallTyped', pc # "visit",
         UNCHANGED <<world, changes, target, listingVars, calls, queue, historyVars, seenVars>>
  PROVE  TypeOK'
BY DEF TypeOK, CallTyped, listingVars, historyVars, seenVars

LEMMA TypeScript == ASSUME TypeOK, Script PROVE TypeOK'
<1> USE TypeIsCallTyped
<1>1. CASE CallTable
  <2>1. calls' \in 0 .. MaxCalls
    BY <1>1, BoundAssumption DEF CallTable, TypeOK
  <2>2. call' \in Call /\ call' # NoCall
    BY <1>1, NoCallIsNone DEF CallTable
  <2>3. answer' \in Answer
    BY <1>1 DEF CallTable, NoAnswer, Answer
  <2> QED
    BY <1>1, <2>1, <2>2, <2>3 DEF CallTable, TypeOK, Control, listingVars, historyVars, seenVars
<1>2. CASE checked_vdesk
  <2>1. pc = "check" /\ (RaiseError \/ GoOn(First[call.of]))
    BY <1>2 DEF checked_vdesk
  <2>2. First[call.of] \in {"manager", "view", "open"}
    <3>1. call \in Call
      BY <2>1 DEF TypeOK
    <3> QED
      BY <3>1, CallParts DEF First
  <2>3. CallTyped'
    BY <2>1, <2>2, RaiseErrorTyped, GoOnTyped DEF Control
  <2> QED
    BY <1>2, <2>1, <2>3, TypeMoves DEF checked_vdesk
<1>3. CASE wm_vdesktop_windows
  <2>1. pc = "manager" /\ (RaiseError \/ GoOn("current"))
    BY <1>3 DEF wm_vdesktop_windows
  <2>2. CallTyped'
    BY <2>1, RaiseErrorTyped, GoOnTyped DEF Control
  <2> QED
    BY <1>3, <2>1, <2>2, TypeMoves DEF wm_vdesktop_windows
<1>4. CASE vdesk_is_current
  <2>1. CallTyped' /\ pc' = "enumerate"
    BY <1>4, GoOnTyped DEF vdesk_is_current, Control
  <2>2. skip' \in BOOLEAN
    BY <1>4 DEF vdesk_is_current
  <2>3. silent' \subseteq Silent
    BY <1>4 DEF vdesk_is_current, Failing, Silent, TypeOK
  <2> QED
    BY <1>4, <2>1, <2>2, <2>3 DEF vdesk_is_current, TypeOK, CallTyped, historyVars, seenVars
<1>5. CASE EnumWindows
  <2>1. CallTyped' /\ pc' = "visit"
    BY <1>5, GoOnTyped DEF EnumWindows, Control
  <2>2. todo' \subseteq Window /\ passed' = {}
    BY <1>5 DEF EnumWindows, TypeOK
  <2>3. silent' \subseteq Silent
    BY <1>5 DEF EnumWindows, Failing, Silent, TypeOK
  <2> QED
    BY <1>5, <2>1, <2>2, <2>3 DEF EnumWindows, TypeOK, CallTyped, historyVars, seenVars
<1>6. CASE FilterWindow
  <2>1. PICK w \in todo : todo' = todo \ {w} /\ passed' \subseteq {w}
    BY <1>6 DEF FilterWindow
  <2>2. todo' \subseteq Window /\ passed' \subseteq Window /\ passed' \cap todo' = {}
    BY <2>1 DEF TypeOK
  <2>3. silent' \subseteq Silent
    BY <1>6 DEF FilterWindow, Failing, Silent, TypeOK
  <2> QED
    BY <1>6, <2>2, <2>3 DEF FilterWindow, TypeOK, historyVars, seenVars
<1>7. CASE MatchWindow
  <2>1. passed' = {} /\ listed' \subseteq Window
    BY <1>7 DEF MatchWindow, TypeOK
  <2>2. silent' \subseteq Silent
    BY <1>7 DEF MatchWindow, Failing, Silent, TypeOK
  <2> QED
    BY <1>7, <2>1, <2>2 DEF MatchWindow, TypeOK, historyVars, seenVars
<1>8. CASE WindowsAnswers
  <2>1. CallTyped' /\ pc' = "script"
    BY <1>8, ReturnTyped DEF WindowsAnswers, TypeOK
  <2> QED
    BY <1>8, <2>1 DEF WindowsAnswers, TypeOK, CallTyped, historyVars, seenVars
<1>9. CASE GetViewForHwnd
  <2>1. pc = "view" /\ (RaiseError \/ GoOn("move"))
    BY <1>9 DEF GetViewForHwnd
  <2>2. CallTyped'
    BY <2>1, RaiseErrorTyped, GoOnTyped DEF Control
  <2> QED
    BY <1>9, <2>1, <2>2, TypeMoves DEF GetViewForHwnd
<1>10. CASE MoveViewToDesktop
  <2>1. pc = "move" /\ (RaiseError \/ Return("move", {}))
    BY <1>10 DEF MoveViewToDesktop
  <2>2. CallTyped'
    BY <2>1, RaiseErrorTyped, ReturnTyped
  <2>3. call.desk \in Desktop
    BY <2>1, CallParts DEF TypeOK
  <2>4. world' \in World /\ worlds' \subseteq World
    BY <1>10, <2>3, WorldParts DEF MoveViewToDesktop, TypeOK, World
  <2> QED
    BY <1>10, <2>1, <2>2, <2>4 DEF MoveViewToDesktop, TypeOK, CallTyped, listingVars, historyVars, seenVars
<1>11. CASE SwitchDesktop
  <2>1. pc = "open" /\ (RaiseError \/ GoOn("notify"))
    BY <1>11 DEF SwitchDesktop
  <2>2. CallTyped'
    BY <2>1, RaiseErrorTyped, GoOnTyped DEF Control
  <2>3. call.desk \in Desktop
    BY <2>1, CallParts DEF TypeOK
  <2>4. world' = world \/ world' = [world EXCEPT !.current = call.desk]
    BY <1>11 DEF SwitchDesktop
  <2>5. world' \in World
    BY <2>3, <2>4 DEF TypeOK, World
  <2>6. worlds' \subseteq World
    BY <1>11, <2>5 DEF SwitchDesktop, TypeOK
  <2>7. external' \in BOOLEAN
    <3>1. external' = FALSE \/ external' = external
      BY <1>11 DEF SwitchDesktop
    <3> QED
      BY <3>1, Zenon DEF TypeOK
  <2> QED
    BY <1>11, <2>1, <2>2, <2>5, <2>6, <2>7 DEF SwitchDesktop, TypeOK, CallTyped, listingVars, seenVars
<1>12. CASE notify_vdesk_changed
  <2>1. pc = "notify" /\ Return("switch", {})
    BY <1>12 DEF notify_vdesk_changed
  <2>2. CallTyped'
    BY <2>1, ReturnTyped
  <2>3. queue' \in Seq(Desktop)
    BY <1>12, <2>1, CallParts DEF notify_vdesk_changed, TypeOK
  <2> QED
    BY <1>12, <2>1, <2>2, <2>3 DEF notify_vdesk_changed, TypeOK, CallTyped, listingVars, historyVars, seenVars
<1>13. CASE DispatchEvent
  <2>1. told' \in Desktop /\ queue' \in Seq(Desktop)
    BY <1>13 DEF DispatchEvent, TypeOK
  <2>2. answer' \in Answer
    BY <1>13 DEF DispatchEvent, NoAnswer, Answer
  <2> QED
    BY <1>13, <2>1, <2>2 DEF DispatchEvent, TypeOK, listingVars
<1> QED
  BY <1>1, <1>2, <1>3, <1>4, <1>5, <1>6, <1>7, <1>8, <1>9, <1>10, <1>11, <1>12, <1>13 DEF Script

LEMMA TypeStep == TypeOK /\ [Next]_vars => TypeOK'
<1> SUFFICES ASSUME TypeOK, [Next]_vars PROVE TypeOK'
  OBVIOUS
<1>1. CASE Next
  BY <1>1, TypeExplorer, TypeScript DEF Next
<1>2. CASE UNCHANGED vars
  BY <1>2 DEF vars, TypeOK
<1> QED
  BY <1>1, <1>2

\* Every variable keeps its type; a window is being looked up or still to be visited,
\* never both.
THEOREM TypeCorrect == Spec => []TypeOK
BY TypeInit, TypeStep, PTL DEF Spec

-----------------------------------------------------------------------------
(* What subscribers learn, where events can be made.                       *)

\* The desktop that subscribers will have heard of once the queue is empty.
Latest == IF queue = <<>> THEN told ELSE queue[Len(queue)]

ToldInv == ~external => world.current = IF pc = "notify" THEN call.desk ELSE Latest

LEMMA ToldInit == Init => ToldInv
BY DEF Init, ToldInv

LEMMA LatestAppended ==
  ASSUME NEW d \in Desktop, queue \in Seq(Desktop), queue' = Append(queue, d)
  PROVE  Latest' = d
<1>1. Len(queue') = Len(queue) + 1 /\ Append(queue, d)[Len(queue) + 1] = d
  BY AppendProperties
<1>2. queue' # <<>>
  BY AppendProperties
<1> QED
  BY <1>1, <1>2 DEF Latest

LEMMA LatestHandled ==
  ASSUME queue \in Seq(Desktop), queue # <<>>, told' = Head(queue), queue' = Tail(queue)
  PROVE  Latest' = Latest
<1>1. CASE Len(queue) = 1
  <2>1. queue' = <<>> /\ Head(queue) = queue[1]
    BY <1>1, HeadTailProperties, EmptySeq
  <2> QED
    BY <1>1, <2>1 DEF Latest
<1>2. CASE Len(queue) # 1
  <2>1. Len(queue) \in Nat /\ Len(queue) > 1
    BY <1>2, LenProperties, EmptySeq
  <2>2. Len(Tail(queue)) = Len(queue) - 1 /\ Tail(queue)[Len(queue) - 1] = queue[Len(queue)]
    BY <2>1, HeadTailProperties
  <2>3. queue' # <<>>
    <3>1. Len(Tail(queue)) # 0
      BY <2>1, <2>2
    <3>2. Tail(queue) # <<>>
      BY <3>1, EmptySeq
    <3> QED
      BY <3>2
  <2> QED
    BY <2>2, <2>3 DEF Latest
<1> QED
  BY <1>1, <1>2

LEMMA ToldStep ==
  ASSUME "event" \notin Faults, TypeOK, ToldInv, [Next]_vars
  PROVE  ToldInv'
<1>1. CASE Explorer
  <2>1. ~external' => ~external /\ world'.current = world.current
    BY <1>1 DEF Explorer
  <2>2. Latest' = Latest /\ pc' = pc /\ call' = call
    BY <1>1 DEF Explorer, Latest
  <2> QED
    BY <2>1, <2>2 DEF ToldInv
<1>2. CASE SwitchDesktop
  <2>1. CASE world' = world /\ external' = external /\ RaiseError
    <3>1. pc # "notify" /\ pc' # "notify" /\ Latest' = Latest
      BY <1>2, <2>1 DEF SwitchDesktop, RaiseError, Return, Latest
    <3> QED
      BY <2>1, <3>1 DEF ToldInv
  <2>2. CASE world' = [world EXCEPT !.current = call.desk] /\ GoOn("notify")
    <3>1. world'.current = call.desk /\ call' = call /\ pc' = "notify"
      BY <2>2, WorldParts DEF TypeOK, World, GoOn
    <3> QED
      BY <3>1 DEF ToldInv
  <2> QED
    BY <1>2, <2>1, <2>2 DEF SwitchDesktop
<1>3. CASE notify_vdesk_changed
  <2>1. call.desk \in Desktop
    BY <1>3, CallParts DEF notify_vdesk_changed, TypeOK
  <2>2. queue' = Append(queue, call.desk)
    BY <1>3, NeverFails DEF notify_vdesk_changed
  <2>3. Latest' = call.desk
    BY <2>1, <2>2, LatestAppended DEF TypeOK
  <2>4. pc = "notify" /\ pc' # "notify" /\ UNCHANGED <<world, external>>
    BY <1>3 DEF notify_vdesk_changed, Return, historyVars
  <2> QED
    BY <2>3, <2>4 DEF ToldInv
<1>4. CASE DispatchEvent
  <2>1. Latest' = Latest
    BY <1>4, LatestHandled DEF DispatchEvent, TypeOK
  <2> QED
    BY <1>4, <2>1 DEF DispatchEvent, ToldInv
<1>5. CASE MoveViewToDesktop
  <2>1. pc # "notify" /\ pc' # "notify" /\ UNCHANGED external /\ Latest' = Latest
    BY <1>5 DEF MoveViewToDesktop, RaiseError, Return, historyVars, Latest
  <2>2. world' = world \/ world' = [world EXCEPT !.place[call.win] = call.desk]
    BY <1>5 DEF MoveViewToDesktop
  <2>3. world'.current = world.current
    BY <2>2 DEF TypeOK, World
  <2> QED
    BY <2>1, <2>3 DEF ToldInv
<1>6. CASE \/ CallTable \/ checked_vdesk \/ wm_vdesktop_windows \/ vdesk_is_current
           \/ EnumWindows \/ FilterWindow \/ MatchWindow \/ WindowsAnswers \/ GetViewForHwnd
  <2>1. UNCHANGED <<world, queue, historyVars>>
    BY <1>6 DEF CallTable, checked_vdesk, wm_vdesktop_windows, vdesk_is_current, EnumWindows,
                FilterWindow, MatchWindow, WindowsAnswers, GetViewForHwnd, historyVars
  <2>2. Latest' = Latest
    BY <2>1 DEF Latest, historyVars
  <2>3. pc # "notify"
    BY <1>6 DEF CallTable, checked_vdesk, wm_vdesktop_windows, vdesk_is_current, EnumWindows,
                FilterWindow, MatchWindow, WindowsAnswers, GetViewForHwnd, TypeOK
  <2>4. pc' # "notify"
    <3>1. CASE checked_vdesk
      <4>1. call \in Call
        BY <3>1 DEF checked_vdesk, TypeOK
      <4> QED
        BY <3>1, <4>1, CallParts DEF checked_vdesk, RaiseError, Return, GoOn, First
    <3>2. CASE ~checked_vdesk
      BY <1>6, <2>3, <3>2 DEF CallTable, wm_vdesktop_windows, vdesk_is_current, EnumWindows,
                FilterWindow, MatchWindow, WindowsAnswers, GetViewForHwnd, RaiseError,
                Return, GoOn
    <3> QED
      BY <3>1, <3>2
  <2> QED
    BY <2>1, <2>2, <2>3, <2>4 DEF ToldInv, historyVars
<1>7. CASE UNCHANGED vars
  BY <1>7 DEF vars, historyVars, ToldInv, Latest
<1> QED
  BY <1>1, <1>2, <1>3, <1>4, <1>5, <1>6, <1>7 DEF Next, Script

LEMMA ToldAnswers == ToldInv => SwitchesAreTold
BY DEF ToldInv, SwitchesAreTold, Latest

\* Where no event fails to be made, the last event names the desktop on screen once
\* all of them are handled and nobody else has switched (wm.c:118-153).
THEOREM LastSwitchIsTold ==
  ASSUME "event" \notin Faults
  PROVE  Spec => []SwitchesAreTold
<1>1. TypeOK /\ ToldInv /\ [Next]_vars => TypeOK' /\ ToldInv'
  BY TypeStep, ToldStep
<1> QED
  BY <1>1, TypeInit, ToldInit, ToldAnswers, PTL DEF Spec

-----------------------------------------------------------------------------
(* What windows() answers.  While a call is under way the states of the    *)
(* windows and the silent failures are kept and there is no answer;        *)
(* outside the enumeration nothing is collected.                           *)

UnderWay ==
  /\ pc # "script" => world \in worlds /\ answer = NoAnswer
  /\ pc # "visit" => listed = {}

LEMMA UnderWayInit == Init => UnderWay
BY DEF Init, UnderWay

LEMMA NoAnswerIsNone == NoAnswer.of # "windows"
BY DEF NoAnswer

\* The steps of a call that are not those of the enumeration.
OtherStep ==
  \/ CallTable
  \/ checked_vdesk
  \/ wm_vdesktop_windows
  \/ GetViewForHwnd
  \/ MoveViewToDesktop
  \/ SwitchDesktop
  \/ notify_vdesk_changed
  \/ DispatchEvent

\* They collect nothing, and what they answer is no list of windows.
LEMMA OthersDoNotList ==
  ASSUME TypeOK, UnderWay, OtherStep
  PROVE  /\ pc' \notin {"enumerate", "visit"} /\ passed' = {} /\ listed' = {}
         /\ answer'.of # "windows"
         /\ pc' # "script" => answer' = NoAnswer
<1>1. passed = {} /\ listed = {} /\ UNCHANGED listingVars
  BY DEF OtherStep, TypeOK, UnderWay, CallTable, checked_vdesk, wm_vdesktop_windows,
         GetViewForHwnd, MoveViewToDesktop, SwitchDesktop, notify_vdesk_changed, DispatchEvent
<1>2. CASE CallTable \/ DispatchEvent
  BY <1>1, <1>2, NoAnswerIsNone DEF CallTable, DispatchEvent, listingVars
<1>3. CASE checked_vdesk
  <2>1. pc = "check" /\ answer = NoAnswer /\ call \in Call
    BY <1>3 DEF checked_vdesk, UnderWay, TypeOK
  <2>2. First[call.of] \in {"manager", "view", "open"}
    BY <2>1, CallParts DEF First
  <2>3. RaiseError \/ GoOn(First[call.of])
    BY <1>3 DEF checked_vdesk
  <2> QED
    BY <1>1, <2>1, <2>2, <2>3, NoAnswerIsNone DEF RaiseError, Return, GoOn, listingVars
<1>4. CASE wm_vdesktop_windows \/ GetViewForHwnd \/ MoveViewToDesktop \/ SwitchDesktop
  <2>1. pc # "script" /\ answer = NoAnswer
    BY <1>4 DEF wm_vdesktop_windows, GetViewForHwnd, MoveViewToDesktop, SwitchDesktop, UnderWay
  <2>2. \/ RaiseError \/ Return("move", {})
        \/ \E at \in {"current", "move", "notify"} : GoOn(at)
    BY <1>4 DEF wm_vdesktop_windows, GetViewForHwnd, MoveViewToDesktop, SwitchDesktop
  <2> QED
    BY <1>1, <2>1, <2>2, NoAnswerIsNone DEF RaiseError, Return, GoOn, listingVars
<1>5. CASE notify_vdesk_changed
  BY <1>1, <1>5 DEF notify_vdesk_changed, Return, listingVars
<1> QED
  BY <1>2, <1>3, <1>4, <1>5 DEF OtherStep

LEMMA UnderWayStep ==
  ASSUME TypeOK, UnderWay, [Next]_vars
  PROVE  UnderWay'
<1>1. CASE Explorer
  BY <1>1 DEF Explorer, UnderWay, listingVars
<1>2. CASE OtherStep
  <2>1. pc' # "script" => world' \in worlds'
    BY <1>2 DEF OtherStep, UnderWay, CallTable, checked_vdesk, wm_vdesktop_windows,
         GetViewForHwnd, MoveViewToDesktop, SwitchDesktop, notify_vdesk_changed, DispatchEvent,
         RaiseError, Return, seenVars
  <2> QED
    BY <1>2, <2>1, OthersDoNotList DEF UnderWay
<1>3. CASE vdesk_is_current \/ EnumWindows
  BY <1>3 DEF vdesk_is_current, EnumWindows, GoOn, UnderWay
<1>4. CASE FilterWindow \/ MatchWindow
  BY <1>4 DEF FilterWindow, MatchWindow, UnderWay, TypeOK
<1>5. CASE WindowsAnswers
  BY <1>5 DEF WindowsAnswers, Return, UnderWay
<1>6. CASE UNCHANGED vars
  BY <1>6 DEF vars, listingVars, UnderWay
<1> QED
  BY <1>1, <1>2, <1>3, <1>4, <1>5, <1>6 DEF Next, Script, OtherStep

-----------------------------------------------------------------------------
(* Nothing that was not there.                                             *)

\* What is on screen and what is cloaked has been told all through the call.
ScreenTold == silent \cap {"current", "cloaked"} = {}

\* A window that has passed the filter, and one that was collected.
Filtered(w) ==
  /\ \E x \in worlds : x.style[w] # "hidden"
  /\ skip /\ ScreenTold => \E x \in worlds : x.style[w] = "plain"

Collected(w) ==
  /\ \E x \in worlds : x.place[w] = call.desk
  /\ \E x \in worlds : x.style[w] # "hidden"
  /\ Steady(call.desk) /\ ScreenTold => \E x \in worlds : x.style[w] = "plain"

SoundInv ==
  /\ pc \in {"enumerate", "visit"} /\ Steady(call.desk) /\ ScreenTold => skip
  /\ \A w \in passed : Filtered(w)
  /\ \A w \in listed : Collected(w)
  /\ AnswerIsSound

LEMMA SoundInit == Init => SoundInv
BY NoAnswerIsNone DEF Init, SoundInv, AnswerIsSound

LEMMA SoundStep ==
  ASSUME TypeOK, UnderWay, SoundInv, [Next]_vars
  PROVE  SoundInv'
<1>1. CASE Explorer
  <2>1. answer'.of # "windows" /\ UNCHANGED <<pc, call, skip, passed, listed>>
    BY <1>1, NoAnswerIsNone DEF Explorer, listingVars
  <2>2. CASE pc = "script"
    BY <2>1, <2>2 DEF TypeOK, UnderWay, SoundInv, AnswerIsSound
  <2>3. CASE pc # "script"
    <3>1. worlds \subseteq worlds' /\ (ScreenTold' <=> ScreenTold)
      BY <1>1, <2>3 DEF Explorer, ScreenTold
    <3>2. Steady(call.desk)' => Steady(call.desk)
      BY <2>1, <3>1 DEF Steady
    <3>3. \A w \in passed' : Filtered(w)'
      BY <2>1, <3>1 DEF SoundInv, Filtered
    <3>4. \A w \in listed' : Collected(w)'
      BY <2>1, <3>1, <3>2 DEF SoundInv, Collected
    <3> QED
      BY <2>1, <3>1, <3>2, <3>3, <3>4 DEF SoundInv, AnswerIsSound
  <2> QED
    BY <2>2, <2>3
<1>2. CASE OtherStep
  BY <1>2, OthersDoNotList DEF SoundInv, AnswerIsSound
<1>3. CASE vdesk_is_current
  <2>1. pc = "current" /\ world \in worlds /\ passed = {} /\ listed = {} /\ answer = NoAnswer
    BY <1>3 DEF vdesk_is_current, UnderWay, TypeOK
  <2>2. UNCHANGED <<worlds, call, passed, listed, answer>>
    BY <1>3 DEF vdesk_is_current, GoOn
  <2>3. ScreenTold' /\ world.current = call.desk => skip'
    BY <1>3, Zenon DEF vdesk_is_current, Failing, ScreenTold
  <2> QED
    BY <2>1, <2>2, <2>3, NoAnswerIsNone DEF SoundInv, Steady, AnswerIsSound
<1>4. CASE EnumWindows
  <2>1. pc = "enumerate" /\ passed = {} /\ listed = {} /\ answer = NoAnswer
    BY <1>4 DEF EnumWindows, UnderWay, TypeOK
  <2>2. UNCHANGED <<worlds, call, passed, listed, answer, skip>>
        /\ (ScreenTold' => ScreenTold)
    BY <1>4 DEF EnumWindows, GoOn, ScreenTold
  <2> QED
    BY <2>1, <2>2, NoAnswerIsNone DEF SoundInv, Steady, AnswerIsSound
<1>5. CASE FilterWindow
  <2>1. UNCHANGED <<worlds, pc, call, listed, answer, skip>> /\ pc = "visit"
        /\ (ScreenTold' => ScreenTold)
    BY <1>5 DEF FilterWindow, ScreenTold
  <2>2. \A w \in passed' : Filtered(w)'
    <3> SUFFICES ASSUME NEW w \in passed' PROVE Filtered(w)'
      OBVIOUS
    <3>1. /\ w \in Window /\ world.style[w] # "hidden"
          /\ ScreenTold' => ~(skip /\ Cloaked(w))
      <4>1. PICK v \in todo, failed \in Failing({"cloaked"}) :
              /\ passed' = {u \in {v} : Shown(u) /\ (skip /\ Cloaked(u) => failed # {})}
              /\ silent' = silent \cup failed
        BY <1>5 DEF FilterWindow
      <4>2. w = v /\ Shown(w) /\ (skip /\ Cloaked(w) => failed # {})
        BY <4>1
      <4>3. failed # {} => "cloaked" \in silent'
        BY <4>1 DEF Failing
      <4> QED
        BY <4>2, <4>3 DEF Shown, ScreenTold, TypeOK
    <3>2. world \in worlds /\ world.style[w] \in {"plain", "ghost", "hidden"}
      BY <2>1, <3>1, WorldParts DEF UnderWay, TypeOK
    <3>3. skip /\ ScreenTold' => world.style[w] = "plain"
      BY <3>1, <3>2 DEF Cloaked
    <3> QED
      BY <2>1, <3>1, <3>2, <3>3 DEF Filtered
  <2>3. \A w \in listed' : Collected(w)'
    BY <2>1 DEF SoundInv, Collected, Steady
  <2> QED
    BY <2>1, <2>2, <2>3, NoAnswerIsNone DEF SoundInv, Steady, AnswerIsSound, UnderWay
<1>6. CASE MatchWindow
  <2>1. UNCHANGED <<world, worlds, pc, call, answer, skip>> /\ pc = "visit" /\ passed' = {}
        /\ (ScreenTold' => ScreenTold)
    BY <1>6 DEF MatchWindow, TypeOK, ScreenTold
  <2>2. \A w \in listed' : Collected(w)'
    <3> SUFFICES ASSUME NEW w \in listed' PROVE Collected(w)'
      OBVIOUS
    <3>1. w \in listed \/ (w \in passed /\ world.place[w] = call.desk)
      BY <1>6 DEF MatchWindow
    <3>2. CASE w \in listed
      BY <2>1, <3>2 DEF SoundInv, Collected, Steady
    <3>3. CASE w \in passed /\ world.place[w] = call.desk
      <4>1. world \in worlds /\ Filtered(w)
        BY <2>1, <3>3 DEF UnderWay, SoundInv
      <4>2. Steady(call.desk) /\ ScreenTold => skip
        BY <2>1 DEF SoundInv
      <4> QED
        BY <2>1, <3>3, <4>1, <4>2 DEF Filtered, Collected, Steady
    <3> QED
      BY <3>1, <3>2, <3>3
  <2> QED
    BY <2>1, <2>2, NoAnswerIsNone DEF SoundInv, Steady, AnswerIsSound, UnderWay
<1>7. CASE WindowsAnswers
  <2>1. /\ UNCHANGED seenVars /\ passed' = {} /\ listed' = {} /\ pc' = "script"
        /\ answer'.windows = listed /\ answer'.desk = call.desk
    BY <1>7 DEF WindowsAnswers, Return
  <2>2. AnswerIsSound'
    BY <2>1 DEF SoundInv, Collected, Steady, AnswerIsSound, ScreenTold, seenVars
  <2> QED
    BY <2>1, <2>2 DEF SoundInv
<1>8. CASE UNCHANGED vars
  BY <1>8 DEF vars, listingVars, SoundInv, Filtered, Collected, Steady, AnswerIsSound, ScreenTold
<1> QED
  BY <1>1, <1>2, <1>3, <1>4, <1>5, <1>6, <1>7, <1>8 DEF Next, Script, OtherStep

LEMMA SoundIsSound == SoundInv => AnswerIsSound
BY DEF SoundInv

\* windows() names only windows that were on the desktop and visible, and no ghost of the
\* desktop that stayed on screen where it could ask what is on screen and cloaked,
\* whatever else fails (desktop_win.c:507-568).
THEOREM NothingFalse == Spec => []AnswerIsSound
<1>1. TypeOK /\ UnderWay /\ SoundInv /\ [Next]_vars => TypeOK' /\ UnderWay' /\ SoundInv'
  BY TypeStep, UnderWayStep, SoundStep
<1> QED
  BY <1>1, TypeInit, UnderWayInit, SoundInit, SoundIsSound, PTL DEF Spec

-----------------------------------------------------------------------------
(* Nothing left out.                                                       *)

\* A window that windows() of d is to list, as NoneLeftOut has it.
Wanted(d, w, x) ==
  /\ x.place[w] = d
  /\ x.style[w] = "plain" \/ (x.style[w] = "ghost" /\ x.current # d)

\* Every window has been visited and told of.
WindowsTold == silent \cap {"enumerate", "desktop", "resolve"} = {}

CompleteInv ==
  /\ pc \in {"enumerate", "visit"} /\ skip => \E x \in worlds : x.current = call.desk
  /\ pc = "visit" /\ WindowsTold /\ (\E d \in Desktop : Steady(d)) =>
       \A w \in Window : (\A x \in worlds : Wanted(call.desk, w, x)) => w \in todo \cup passed \cup listed
  /\ NoneLeftOut

LEMMA CompleteInit == Init => CompleteInv
BY NoAnswerIsNone DEF Init, CompleteInv, NoneLeftOut

LEMMA CompleteStep ==
  ASSUME TypeOK, UnderWay, CompleteInv, [Next]_vars
  PROVE  CompleteInv'
<1>1. CASE Explorer
  <2>1. answer'.of # "windows" /\ UNCHANGED <<pc, call, skip, todo, passed, listed>>
    BY <1>1, NoAnswerIsNone DEF Explorer, listingVars
  <2>2. CASE pc = "script"
    BY <2>1, <2>2 DEF CompleteInv, NoneLeftOut
  <2>3. CASE pc # "script"
    <3>1. worlds \subseteq worlds' /\ (WindowsTold' <=> WindowsTold)
      BY <1>1, <2>3 DEF Explorer, WindowsTold
    <3>2. (\E d \in Desktop : Steady(d)') => \E d \in Desktop : Steady(d)
      BY <3>1 DEF Steady
    <3>3. \A w \in Window : (\A x \in worlds' : Wanted(call.desk, w, x))
                              => \A x \in worlds : Wanted(call.desk, w, x)
      BY <3>1
    <3> QED
      BY <2>1, <3>1, <3>2, <3>3 DEF CompleteInv, NoneLeftOut
  <2> QED
    BY <2>2, <2>3
<1>2. CASE OtherStep
  BY <1>2, OthersDoNotList DEF CompleteInv, NoneLeftOut
<1>3. CASE vdesk_is_current
  <2>1. world \in worlds /\ answer = NoAnswer
    BY <1>3 DEF vdesk_is_current, UnderWay
  <2>2. UNCHANGED <<worlds, call, answer>> /\ pc' = "enumerate"
        /\ (skip' => world.current = call.desk)
    BY <1>3 DEF vdesk_is_current, GoOn
  <2> QED
    BY <2>1, <2>2, NoAnswerIsNone DEF CompleteInv, NoneLeftOut
<1>4. CASE EnumWindows
  <2>1. pc = "enumerate" /\ world \in worlds /\ answer = NoAnswer /\ call \in Call
    BY <1>4 DEF EnumWindows, UnderWay, TypeOK
  <2>2. UNCHANGED <<worlds, call, passed, listed, answer, skip>>
        /\ (WindowsTold' => todo' = {w \in Window : Exists(w)})
    <3>1. PICK failed \in Failing({"enumerate"}), left \in SUBSET Window :
            /\ failed = {} => left = {}
            /\ todo' = {w \in Window \ left : Exists(w)}
            /\ silent' = silent \cup failed
      BY <1>4 DEF EnumWindows
    <3>2. failed # {} => "enumerate" \in silent'
      BY <3>1 DEF Failing
    <3>3. WindowsTold' => todo' = {w \in Window : Exists(w)}
      BY <3>1, <3>2 DEF WindowsTold
    <3> QED
      BY <1>4, <3>3 DEF EnumWindows, GoOn
  <2>3. WindowsTold' =>
          \A w \in Window : (\A x \in worlds : Wanted(call.desk, w, x)) => w \in todo'
    BY <2>1, <2>2, CallParts, NoneAssumption DEF Wanted, Exists
  <2> QED
    BY <2>1, <2>2, <2>3, NoAnswerIsNone DEF CompleteInv, NoneLeftOut
<1>5. CASE FilterWindow
  <2>1. /\ UNCHANGED <<worlds, pc, call, listed, answer, skip>>
        /\ pc = "visit" /\ passed = {} /\ answer = NoAnswer /\ world \in worlds /\ call \in Call
        /\ (WindowsTold' => WindowsTold)
    BY <1>5 DEF FilterWindow, UnderWay, TypeOK, WindowsTold
  <2>2. ASSUME WindowsTold', NEW d \in Desktop, Steady(d)', NEW w \in Window,
               \A x \in worlds : Wanted(call.desk, w, x)
        PROVE  w \in todo' \cup passed' \cup listed'
    <3>1. Steady(d) /\ Wanted(call.desk, w, world)
      BY <2>1, <2>2 DEF Steady
    <3>2. w \in todo \cup passed \cup listed
      BY <2>1, <2>2, <3>1 DEF CompleteInv
    <3>3. Shown(w)
      BY <2>1, <3>1, CallParts, NoneAssumption DEF Wanted, Exists, Shown
    <3>4. ~(skip /\ Cloaked(w))
      <4>1. skip => world.current = call.desk
        BY <2>1, <3>1 DEF CompleteInv, Steady
      <4> QED
        BY <3>1, <4>1 DEF Wanted, Cloaked
    <3>5. PICK v \in todo : /\ todo' = todo \ {v}
                            /\ v = w => passed' = {w}
      BY <1>5, <3>3, <3>4 DEF FilterWindow
    <3> QED
      BY <2>1, <3>2, <3>5
  <2> QED
    BY <2>1, <2>2, NoAnswerIsNone DEF CompleteInv, NoneLeftOut
<1>6. CASE MatchWindow
  <2>1. /\ UNCHANGED <<worlds, pc, call, answer, skip, todo>>
        /\ pc = "visit" /\ answer = NoAnswer /\ world \in worlds
        /\ (WindowsTold' => WindowsTold)
    BY <1>6 DEF MatchWindow, UnderWay, TypeOK, WindowsTold
  <2>2. WindowsTold' => listed' = listed \cup {w \in passed : world.place[w] = call.desk}
    <3>1. PICK failed \in Failing({"desktop", "resolve"}) :
            /\ failed = {} => listed' = listed \cup {w \in passed : world.place[w] = call.desk}
            /\ silent' = silent \cup failed
      BY <1>6 DEF MatchWindow
    <3>2. failed # {} => "desktop" \in silent' \/ "resolve" \in silent'
      BY <3>1 DEF Failing
    <3> QED
      BY <3>1, <3>2 DEF WindowsTold
  <2>3. ASSUME WindowsTold', NEW d \in Desktop, Steady(d)', NEW w \in Window,
               \A x \in worlds : Wanted(call.desk, w, x)
        PROVE  w \in todo' \cup passed' \cup listed'
    <3>1. Steady(d) /\ world.place[w] = call.desk
      BY <2>1, <2>3 DEF Steady, Wanted
    <3>2. w \in todo \cup passed \cup listed
      BY <2>1, <2>3, <3>1 DEF CompleteInv
    <3> QED
      BY <2>1, <2>2, <2>3, <3>1, <3>2
  <2> QED
    BY <2>1, <2>3, NoAnswerIsNone DEF CompleteInv, NoneLeftOut
<1>7. CASE WindowsAnswers
  <2>1. /\ UNCHANGED seenVars /\ pc = "visit" /\ passed = {} /\ todo = {} /\ pc' = "script"
        /\ answer'.windows = listed /\ answer'.desk = call.desk
    BY <1>7 DEF WindowsAnswers, Return
  <2>2. WindowsTold' /\ (\E d \in Desktop : Steady(d)') =>
          \A w \in Window : (\A x \in worlds : Wanted(call.desk, w, x)) => w \in listed
    BY <2>1 DEF CompleteInv, Steady, WindowsTold, seenVars
  <2>3. NoneLeftOut'
    BY <2>1, <2>2 DEF NoneLeftOut, Listable, Wanted, WindowsTold, seenVars
  <2> QED
    BY <2>1, <2>3 DEF CompleteInv
<1>8. CASE UNCHANGED vars
  BY <1>8 DEF vars, listingVars, CompleteInv, NoneLeftOut, Listable, Steady, WindowsTold
<1> QED
  BY <1>1, <1>2, <1>3, <1>4, <1>5, <1>6, <1>7, <1>8 DEF Next, Script, OtherStep

LEMMA CompleteIsComplete == CompleteInv => NoneLeftOut
BY DEF CompleteInv

\* windows() leaves out no window that was to be listed all through the call while the
\* desktop on screen stayed, where every window was visited and told of, whatever else
\* fails: even if it could not ask what is on screen or cloaked (desktop_win.c:507-568).
THEOREM NothingMissing == Spec => []NoneLeftOut
<1>1. TypeOK /\ UnderWay /\ CompleteInv /\ [Next]_vars => TypeOK' /\ UnderWay' /\ CompleteInv'
  BY TypeStep, UnderWayStep, CompleteStep
<1> QED
  BY <1>1, TypeInit, UnderWayInit, CompleteInit, CompleteIsComplete, PTL DEF Spec

=======================================================================================
