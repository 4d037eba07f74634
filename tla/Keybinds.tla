------------------------------- MODULE Keybinds -------------------------------
(***************************************************************************)
(* The keyboard of libuniwm (the suppress and keybind tables of            *)
(* libuniwm/src/input.c) with the Lua functions that fill them             *)
(* (libuniwm-lua/src/uniwm-lua.c).                                         *)
(*                                                                         *)
(* Windows calls the keyboard hook of mc_win32_wm on the worker's thread   *)
(* for every press and release, before the applications see it.  The hook  *)
(* asks suppress_cb whether to swallow the key, and queues an event for    *)
(* the worker either way.  The worker takes the events out later and       *)
(* process_keybinds runs the Lua callbacks of the combos a press           *)
(* completes; a callback may change both tables while the loop over the    *)
(* bindings is under way.                                                  *)
(*                                                                         *)
(* The two tables keep a down array each: suppress.down follows the hook,  *)
(* keybind.down follows the queue.                                         *)
(***************************************************************************)
EXTENDS Integers, FiniteSets, SequencesExt, SequenceFilter

CONSTANTS
  Key,            \* the keys of the keyboard
  Combo,          \* key combos: non-empty sequences of at most 4 keys
  Suppressible,   \* the combos scripts suppress
  Bindable,       \* the combos scripts bind
  Callback,       \* addresses of LuaCallback records
  SuppressMax,    \* SUPPRESS_MAX
  KeybindMax,     \* KEYBIND_MAX
  Faults,         \* what may go wrong
  Careful,        \* keys are released in reverse order, and suppressions only
                  \* change while no key is held
  MaxQueue        \* bound: key events waiting for the worker

ASSUME KeyAssumption ==
  /\ Key # {}
  /\ \A c \in Combo : c \in Seq(Key) \ {<<>>} /\ Len(c) <= 4
  /\ Suppressible \subseteq Combo
  /\ Bindable \subseteq Combo
ASSUME TableAssumption ==
  /\ SuppressMax \in Nat
  /\ KeybindMax \in Nat
  /\ MaxQueue \in Nat
ASSUME ChoiceAssumption ==
  /\ Careful \in BOOLEAN
  /\ Faults \subseteq {"input", "alloc", "timeout"}

VARIABLES
  \* the keyboard and the applications
  held,        \* the keys the user holds, in the order of their presses
  app,         \* the keys the applications take to be down
  listening,   \* input_wm.loop: the hook is in place
  queue,       \* key events waiting for the worker
  \* input.c
  suppressed,  \* suppress.combos
  supDown,     \* suppress.down
  binds,       \* keybind.binds
  bindDown,    \* keybind.down
  live,        \* LuaCallback records allocated
  \* process_keybinds
  pc,          \* "idle", in the "fire" loop, or in a "callback"
  press,       \* the key of the press and the length of the best combo
  index,       \* the loop's index
  \* history
  due,         \* the combos that the press has to run
  intact,      \* no callback of the press has changed the bindings
  fired        \* per combo: callbacks run for the press, 2 standing for more

keyboardVars == <<held, app, queue, supDown>>
tableVars    == <<listening, suppressed, binds, live>>
firingVars   == <<bindDown, pc, press, index, due, intact, fired>>
vars == <<held, app, listening, queue, suppressed, supDown, binds, bindDown,
          live, pc, press, index, due, intact, fired>>

Elements(s) == {s[n] : n \in DOMAIN s}

Binding  == [combo : Bindable, ctx : Callback]
KeyEvent == [key : Key, down : BOOLEAN, fresh : BOOLEAN]

\* The type invariant: neither table outgrows its array (input.c:194, 232).
TypeOK ==
  /\ held \in Seq(Key)
  /\ app \subseteq Key
  /\ listening \in BOOLEAN
  /\ queue \in Seq(KeyEvent)
  /\ suppressed \in Seq(Suppressible)
  /\ Len(suppressed) <= SuppressMax
  /\ supDown \subseteq Key
  /\ binds \in Seq(Binding)
  /\ Len(binds) <= KeybindMax
  /\ bindDown \subseteq Key
  /\ live \subseteq Callback
  /\ pc \in {"idle", "fire", "callback"}
  /\ press \in [key : Key, best : Nat]
  /\ index \in Nat \ {0}
  /\ due \subseteq Bindable
  /\ intact \in BOOLEAN
  /\ fired \in [Bindable -> 0 .. 2]

-----------------------------------------------------------------------------
(* Combos.                                                                  *)

LastKey(c)   == c[Len(c)]
Modifiers(c) == {c[n] : n \in 1 .. Len(c) - 1}

combo_triggered(key, c, down) == key = LastKey(c) /\ Modifiers(c) \subseteq down

-----------------------------------------------------------------------------
(* The keyboard hook.                                                       *)

WithKey(keys, key, down) == IF down THEN keys \cup {key} ELSE keys \ {key}

\* Mutant: the release of a swallowed key is not noted.
KeepsSwallowedDown(key, down) ==
  LET swallowed == \E c \in Elements(suppressed) : combo_triggered(key, c, supDown) IN
  /\ supDown' = IF swallowed /\ ~down THEN supDown ELSE WithKey(supDown, key, down)
  /\ app' = IF swallowed THEN app ELSE WithKey(app, key, down)

\* Mutant: the combo is looked for before the key is noted.
TestsBeforeNoting(key, down) ==
  /\ app' = IF \E c \in Elements(suppressed) : key = LastKey(c) /\ Elements(c) \subseteq supDown
            THEN app ELSE WithKey(app, key, down)
  /\ supDown' = WithKey(supDown, key, down)

\* suppress_cb: the array is brought up to date first.
suppress_cb(key, down) ==
  /\ supDown' = WithKey(supDown, key, down)
  /\ app' = IF \E c \in Elements(suppressed) : combo_triggered(key, c, supDown')
            THEN app ELSE WithKey(app, key, down)

\* Windows reports a change to the applications, through the hook if there is
\* one that answers in time.
KeyChanges(key, down) ==
  \/ /\ listening
     /\ Len(queue) < MaxQueue
     /\ suppress_cb(key, down)
     /\ queue' = Append(queue, [key |-> key, down |-> down, fresh |-> key \notin supDown])
  \/ /\ ~listening \/ "timeout" \in Faults
     /\ app' = WithKey(app, key, down)
     /\ UNCHANGED <<supDown, queue>>

KeyPressed(key) ==
  /\ key \notin Elements(held)
  /\ held' = Append(held, key)
  /\ KeyChanges(key, TRUE)

\* A key held down repeats.
KeyRepeats(key) ==
  /\ held # <<>>
  /\ key = held[Len(held)]
  /\ held' = held
  /\ KeyChanges(key, TRUE)

KeyReleased(key) ==
  /\ \E n \in DOMAIN held :
       /\ held[n] = key
       /\ Careful => n = Len(held)
       /\ held' = RemoveAt(held, n)
  /\ KeyChanges(key, FALSE)

\* The thread pumps messages between two events and in what a callback calls.
Keyboard ==
  /\ pc \in {"idle", "callback"}
  /\ \E key \in Key : KeyPressed(key) \/ KeyRepeats(key) \/ KeyReleased(key)
  /\ UNCHANGED <<tableVars, firingVars>>

-----------------------------------------------------------------------------
(* The Lua functions.  Scripts call them when they start, in the callbacks *)
(* of events and in those of key bindings.                                 *)

MayFail(fault) == IF fault \in Faults THEN BOOLEAN ELSE {FALSE}

\* wm_input_ensure succeeds for good once it has.
enable_keyboard(failed) == failed => ~listening

\* A combo that is suppressed already takes another place in the table.
l_supress_key(c) ==
  /\ \E failed \in MayFail("input") :
       /\ enable_keyboard(failed)
       /\ listening' = (listening \/ ~failed)
       /\ suppressed' = IF failed \/ Len(suppressed) >= SuppressMax
                        THEN suppressed ELSE Append(suppressed, c)
  /\ UNCHANGED <<binds, live>>

\* Every copy is removed; nothing depends on the order of the others.
l_unsupress_key(c) ==
  /\ suppressed' = Without(suppressed, {c})
  /\ UNCHANGED <<listening, binds, live>>

BoundTo(c) == {n \in DOMAIN binds : binds[n].combo = c}

FirstBoundTo(c) == CHOOSE n \in BoundTo(c) : \A m \in BoundTo(c) : n <= m

\* Mutant: the last binding is dropped and takes no place.
DropsLast(n) == SubSeq(binds, 1, Len(binds) - 1)

\* The last binding takes the place of the one removed.
WithoutBinding(n) ==
  [m \in 1 .. Len(binds) - 1 |-> IF m = n THEN binds[Len(binds)] ELSE binds[m]]

\* wm_unbind_key: the table it leaves, and the context it hands out.
Unbound(c) == IF BoundTo(c) = {} THEN binds ELSE WithoutBinding(FirstBoundTo(c))
OldContext(c) == IF BoundTo(c) = {} THEN {} ELSE {binds[FirstBoundTo(c)].ctx}

\* Mutant: the old binding of the combo is not removed.
RegisterAppends(c) ==
  /\ \E ctx \in Callback \ live, failed \in MayFail("input") :
       /\ enable_keyboard(failed)
       /\ listening' = (listening \/ ~failed)
       /\ IF failed \/ Len(binds) >= KeybindMax
          THEN UNCHANGED <<binds, live>>
          ELSE /\ binds' = Append(binds, [combo |-> c, ctx |-> ctx])
               /\ live' = live \cup {ctx}
  /\ UNCHANGED suppressed

\* Mutant: the limit is compared one too late.
RegisterOverfills(c) ==
  LET table == Unbound(c)
      kept  == live \ OldContext(c)
  IN
  /\ \E ctx \in Callback \ kept :
       /\ binds' = IF Len(table) > KeybindMax
                   THEN table ELSE Append(table, [combo |-> c, ctx |-> ctx])
       /\ live' = IF Len(table) > KeybindMax THEN kept ELSE kept \cup {ctx}
  /\ listening' = TRUE
  /\ UNCHANGED suppressed

\* The old binding is gone for good even when the new one cannot be made.
l_register_keybind(c) ==
  LET table == Unbound(c)
      kept  == live \ OldContext(c)
  IN
  /\ \/ /\ "alloc" \in Faults
        /\ binds' = table
        /\ live' = kept
        /\ listening' = listening
     \/ \E ctx \in Callback \ kept, failed \in MayFail("input") :
          /\ enable_keyboard(failed)
          /\ listening' = (listening \/ ~failed)
          /\ IF failed \/ Len(table) >= KeybindMax
             THEN binds' = table /\ live' = kept
             ELSE /\ binds' = Append(table, [combo |-> c, ctx |-> ctx])
                  /\ live' = kept \cup {ctx}
  /\ UNCHANGED suppressed

l_unregister_keybind(c) ==
  /\ binds' = Unbound(c)
  /\ live' = live \ OldContext(c)
  /\ UNCHANGED <<suppressed, listening>>

Suppressing ==
  /\ Careful => held = <<>>
  /\ \E c \in Suppressible : l_supress_key(c) \/ l_unsupress_key(c)
  /\ UNCHANGED intact

Rebinding ==
  \E c \in Bindable :
    /\ l_register_keybind(c) \/ l_unregister_keybind(c)
    /\ intact' = (intact /\ pc # "callback")

Script ==
  /\ pc \in {"idle", "callback"}
  /\ Suppressing \/ Rebinding
  /\ UNCHANGED <<keyboardVars, bindDown, pc, press, index, due, fired>>

-----------------------------------------------------------------------------
(* process_keybinds.                                                        *)

BoundCombos == {binds[n].combo : n \in DOMAIN binds}

TriggeredBy(key, down) == {c \in BoundCombos : combo_triggered(key, c, down)}

\* The length of the longest combo, 0 when the press completes none.
BestLength(key, down) ==
  LET lengths == {Len(c) : c \in TriggeredBy(key, down)} \cup {0}
  IN  CHOOSE n \in lengths : \A m \in lengths : m <= n

\* The combos to run: no combo that the press completes is longer.
MostSpecific(key, down) ==
  {c \in TriggeredBy(key, down) : \A d \in TriggeredBy(key, down) : Len(d) <= Len(c)}

NoPress == [key |-> CHOOSE key \in Key : TRUE, best |-> 0]

process_keybinds ==
  /\ pc = "idle"
  /\ queue # <<>>
  /\ LET e == Head(queue) IN
     /\ bindDown' = WithKey(bindDown, e.key, e.down)
     /\ IF e.down /\ e.key \notin bindDown
        THEN /\ pc' = "fire"
             /\ press' = [key |-> e.key, best |-> BestLength(e.key, bindDown')]
        ELSE UNCHANGED <<pc, press>>
     /\ due' = IF e.down /\ e.fresh THEN MostSpecific(e.key, bindDown') ELSE {}
  /\ queue' = Tail(queue)
  /\ fired' = [c \in Bindable |-> 0]
  /\ intact' = TRUE
  /\ UNCHANGED <<held, app, supDown, tableVars, index>>

\* Mutant: shorter combos run as well.
AheadOfAnyLength ==
  {n \in DOMAIN binds : n >= index /\ combo_triggered(press.key, binds[n].combo, bindDown)}

\* The bindings the loop still has to run, as the table is now.
Ahead ==
  {n \in DOMAIN binds :
     /\ n >= index
     /\ Len(binds[n].combo) = press.best
     /\ combo_triggered(press.key, binds[n].combo, bindDown)}

RunCallback ==
  /\ pc = "fire"
  /\ \E n \in Ahead :
       /\ \A m \in Ahead : n <= m
       /\ index' = n
       /\ fired' = [fired EXCEPT ![binds[n].combo] = IF @ = 0 THEN 1 ELSE 2]
  /\ pc' = "callback"
  /\ UNCHANGED <<keyboardVars, tableVars, bindDown, press, due, intact>>

CallbackReturns ==
  /\ pc = "callback"
  /\ pc' = "fire"
  /\ index' = index + 1
  /\ UNCHANGED <<keyboardVars, tableVars, bindDown, press, due, intact, fired>>

LoopEnds ==
  /\ pc = "fire"
  /\ Ahead = {}
  /\ pc' = "idle"
  /\ index' = 1
  /\ press' = NoPress
  /\ UNCHANGED <<keyboardVars, tableVars, bindDown, due, intact, fired>>

Worker ==
  \/ process_keybinds
  \/ RunCallback
  \/ CallbackReturns
  \/ LoopEnds

-----------------------------------------------------------------------------
Init ==
  /\ held = <<>>
  /\ app = {}
  /\ listening = FALSE
  /\ queue = <<>>
  /\ suppressed = <<>>
  /\ supDown = {}
  /\ binds = <<>>
  /\ bindDown = {}
  /\ live = {}
  /\ pc = "idle"
  /\ press = NoPress
  /\ index = 1
  /\ due = {}
  /\ intact = TRUE
  /\ fired = [c \in Bindable |-> 0]

Next == Keyboard \/ Script \/ Worker

Spec == Init /\ [][Next]_vars

-----------------------------------------------------------------------------
(* The tables.                                                              *)

\* No combo is bound twice: wm_unbind_key removes one binding, so a second one
\* would go on running the callback that was replaced.
UniqueCombos ==
  \A m, n \in DOMAIN binds : binds[m].combo = binds[n].combo => m = n

\* Each callback record is freed when its binding goes and not before: none is
\* left allocated, no binding has one that is freed and no two share one.
BoundExactlyLive ==
  /\ live = {binds[n].ctx : n \in DOMAIN binds}
  /\ \A m, n \in DOMAIN binds : binds[m].ctx = binds[n].ctx => m = n

Map == INSTANCE BindingMap WITH bound <- [c \in Bindable |-> OldContext(c)]

\* The table, with its swaps and its limit, is a map from combos to callbacks:
\* an operation on one combo never changes what another one runs.
ImplementsMap == Map!Spec

-----------------------------------------------------------------------------
(* The keys.                                                                *)

\* The key events waiting for the worker turn keybind.down into suppress.down:
\* the bindings see what the hook saw, only later.
KeybindsFollowHook ==
  \A key \in Key :
    LET about == {n \in DOMAIN queue : queue[n].key = key} IN
    (key \in supDown) <=>
      IF about = {} THEN key \in bindDown
      ELSE \E n \in about : queue[n].down /\ \A m \in about : m <= n

\* The hook takes no key for down that the user does not hold.
NoPhantomKey == supDown \subseteq Elements(held)

\* The applications take no key for down that the user does not hold: the
\* release of a key they saw pressed is not swallowed.
NoStuckKey == app \subseteq Elements(held)

-----------------------------------------------------------------------------
(* Presses.                                                                 *)

\* A fresh press runs each of the most specific combos it completes once and
\* nothing else, as long as no callback changes the bindings; a repeat and a
\* release run nothing (input.c:518-552).
RunsWhatIsDue ==
  pc = "idle" /\ intact => fired = [c \in Bindable |-> IF c \in due THEN 1 ELSE 0]

\* One press runs the callback of a combo at most once (uniwm.lua:79-80), whatever
\* the callbacks do to the table that process_keybinds walks.
OncePerPress == \A c \in Bindable : fired[c] < 2

==============================================================================
