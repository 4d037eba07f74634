------------------------------ MODULE DesktopCache ------------------------------
(***************************************************************************)
(* The virtual desktops: the cache of the windows target                   *)
(* (uniwm-windows/src/desktop_win.c) and the Lua functions that answer     *)
(* from it (libuniwm-lua/src/uniwm-lua.c, through libuniwm/src/wm.c).      *)
(*                                                                         *)
(* The desktops themselves live in Explorer.  Its user creates, closes,    *)
(* moves and switches them between any two calls the worker makes into it. *)
(* refresh reads the desktops one by one into t->items.  An entry is never *)
(* removed before win_destroy, so its place in the vector stands for the   *)
(* WM_VDesktop pointer, which is also the key of the Lua table handed to   *)
(* scripts.  "valid" is left out: refresh writes it, nothing reads it.     *)
(* So are the names.                                                       *)
(***************************************************************************)
EXTENDS Integers, Sequences, FiniteSets, SequencesExt

CONSTANTS
  Guid,      \* the desktops there may ever be, by their GUID
  ZeroGuid,  \* the GUID of all zeros
  User,      \* what the user of Explorer does with desktops
  Faults,    \* the calls that may fail
  MaxCalls   \* bound: Lua calls in one run

UserKind  == {"create", "close", "move", "switch"}
FaultKind == {"explorer", "desktops", "count", "element", "id", "alloc", "grow", "create"}

ASSUME GuidAssumption  == Guid # {} /\ ZeroGuid \notin Guid
ASSUME FaultAssumption == User \subseteq UserKind /\ Faults \subseteq FaultKind
ASSUME CallAssumption  == MaxCalls \in Nat

VARIABLES
  \* Explorer
  shell,      \* the desktops, in order
  current,    \* the desktop on screen
  closed,     \* the desktops closed; a GUID is never given out again
  connected,  \* the worker's COM proxies still reach Explorer
  \* the windows target
  items,      \* t->items: the id and the interface of each WM_VDesktop
  refs,       \* per desktop: references to its interface the worker holds
  array,      \* the IObjectArray that refresh walks
  index,      \* the loop's index
  \* the Lua call under way
  pc,         \* where the worker is
  call,       \* the function, and the entry or desktop it is about
  ok,         \* what the last refresh returned
  calls,      \* calls made so far
  \* history
  handed,     \* the entries whose tables scripts have
  answer      \* what the last call answered, and what it should be about

shellVars  == <<shell, current, closed, connected>>
targetVars == <<items, refs>>
vars == <<shell, current, closed, connected, items, refs, array, index, pc, call,
          ok, calls, handed, answer>>

Elements(s) == {s[n] : n \in DOMAIN s}
AnyGuid == Guid \cup {ZeroGuid}

Item     == [guid : AnyGuid, iface : Guid]
Function == {"none", "list", "current", "create", "push", "switch"}
NoCall   == [of |-> "none", entry |-> 0, desktop |-> ZeroGuid]
Answer   == [of : Function, result : Seq(AnyGuid), about : Seq(AnyGuid)]
NoAnswer == [of |-> "none", result |-> <<>>, about |-> <<>>]

ShellTyped ==
  /\ shell \in Seq(Guid) /\ shell # <<>>
  /\ \A m, n \in DOMAIN shell : shell[m] = shell[n] => m = n
  /\ current \in Elements(shell)
  /\ closed \subseteq Guid \ Elements(shell)
  /\ connected \in BOOLEAN

CacheTyped ==
  /\ items \in Seq(Item)
  /\ refs \in [Guid -> Nat]
  /\ array \in Seq(Guid)
  /\ index \in 1 .. Len(array) + 1

CallTyped ==
  /\ pc \in {"script", "read", "refresh", "count", "each", "refreshed"}
  /\ call \in [of : Function, entry : 0 .. Len(items), desktop : AnyGuid]
  /\ ok \in BOOLEAN
  /\ calls \in 0 .. MaxCalls
  /\ handed \subseteq DOMAIN items
  /\ answer \in Answer

\* The type invariant: places and entries stay within the vectors they index, and
\* the number of references held to an interface never falls below zero.
TypeOK == ShellTyped /\ CacheTyped /\ CallTyped

MayFail(fault) == IF fault \in Faults THEN BOOLEAN ELSE {FALSE}

\* A call into Explorer, or into a proxy of one of its objects.
ShellFails(fault) == IF connected THEN MayFail(fault) ELSE {TRUE}

-----------------------------------------------------------------------------
(* Explorer.                                                                *)

NewGuids == Guid \ (Elements(shell) \cup closed)

UserCreates ==
  /\ "create" \in User
  /\ \E g \in NewGuids : shell' = Append(shell, g)
  /\ UNCHANGED <<current, closed, connected>>

\* Explorer never closes the last desktop; it shows another one instead of the
\* one it closes.
UserCloses ==
  /\ "close" \in User
  /\ Len(shell) > 1
  /\ \E n \in DOMAIN shell :
       /\ shell' = RemoveAt(shell, n)
       /\ closed' = closed \cup {shell[n]}
       /\ IF current = shell[n] THEN current' \in Elements(shell') ELSE current' = current
  /\ UNCHANGED connected

UserMoves ==
  /\ "move" \in User
  /\ \E m, n \in DOMAIN shell : m # n /\ shell' = InsertAt(RemoveAt(shell, m), n, shell[m])
  /\ UNCHANGED <<current, closed, connected>>

UserSwitches ==
  /\ "switch" \in User
  /\ current' \in Elements(shell) \ {current}
  /\ UNCHANGED <<shell, closed, connected>>

\* The proxies of an Explorer that has gone never reach the new one.
ExplorerRestarts ==
  /\ "explorer" \in Faults
  /\ connected' = FALSE
  /\ UNCHANGED <<shell, current, closed>>

Explorer ==
  /\ UserCreates \/ UserCloses \/ UserMoves \/ UserSwitches \/ ExplorerRestarts
  /\ UNCHANGED <<targetVars, array, index, pc, call, ok, calls, handed, answer>>

-----------------------------------------------------------------------------
(* refresh.                                                                 *)

\* find_desktop: the first entry with the id, or 0.
EntriesOf(g) == {n \in DOMAIN items : items[n].guid = g}
\* Mutant: the search starts at the second entry.
FindsFromTheSecond(g) ==
  IF EntriesOf(g) \ {1} = {} THEN 0
  ELSE CHOOSE n \in EntriesOf(g) \ {1} : \A m \in EntriesOf(g) \ {1} : n <= m

find_desktop(g) ==
  IF EntriesOf(g) = {} THEN 0
  ELSE CHOOSE n \in EntriesOf(g) : \A m \in EntriesOf(g) : n <= m

Refreshed(success) == pc' = "refreshed" /\ ok' = success

\* Mutant: the cache is emptied before it is filled again.
GetDesktopsAfresh ==
  /\ pc = "refresh"
  /\ array' = shell
  /\ index' = 1
  /\ pc' = "count"
  /\ items' = <<>>
  /\ refs' = [g \in Guid |-> 0]
  /\ UNCHANGED <<shellVars, ok, call, calls, handed, answer>>

GetDesktops ==
  /\ pc = "refresh"
  /\ \E failed \in ShellFails("desktops") :
       IF failed
       THEN /\ Refreshed(FALSE)
            /\ UNCHANGED <<array, index>>
       ELSE /\ array' = shell
            /\ index' = 1
            /\ pc' = "count"
            /\ ok' = ok
  /\ UNCHANGED <<shellVars, targetVars, call, calls, handed, answer>>

\* The result of GetCount is not looked at: where it fails there is nothing to walk.
GetCount ==
  /\ pc = "count"
  /\ \E failed \in ShellFails("count") : index' = IF failed THEN Len(array) + 1 ELSE index
  /\ pc' = "each"
  /\ UNCHANGED <<shellVars, targetVars, array, ok, call, calls, handed, answer>>

\* GetID leaves the variable as it was when it fails: refresh reads what the
\* stack holds, every other caller the zeros it has put there.
IdReadByRefresh(g) == IF "id" \in Faults THEN AnyGuid ELSE {g}
IdRead(g)          == IF "id" \in Faults THEN {g, ZeroGuid} ELSE {g}

\* Mutant: the new reference is kept, and so is the old one.
UpdateLeaks(n, g) ==
  /\ items' = [items EXCEPT ![n].iface = g]
  /\ refs' = [refs EXCEPT ![g] = @ + 1]
  /\ index' = index + 1
  /\ UNCHANGED <<pc, ok>>

\* Mutant: the reference from GetAt is released as well.
UpdateReleasesBoth(n, g) ==
  /\ items' = [items EXCEPT ![n].iface = g]
  /\ refs' = [refs EXCEPT ![items[n].iface] = @ - 1]
  /\ index' = index + 1
  /\ UNCHANGED <<pc, ok>>

\* desktop_update: the entry takes over the reference and drops its old one.
UpdateEntry(n, g) ==
  \E failed \in MayFail("alloc") :
    IF failed
    THEN /\ Refreshed(FALSE)
         /\ UNCHANGED <<targetVars, index>>
    ELSE /\ items' = [items EXCEPT ![n].iface = g]
         /\ refs' = [[refs EXCEPT ![g] = @ + 1] EXCEPT ![items[n].iface] = @ - 1]
         /\ index' = index + 1
         /\ UNCHANGED <<pc, ok>>

\* wrap_desktop and push_desktop; both give the reference back when they fail.
AddEntry(g) ==
  \E failed \in MayFail("alloc") \cup MayFail("grow") :
    IF failed
    THEN /\ Refreshed(FALSE)
         /\ UNCHANGED <<targetVars, index>>
    ELSE /\ \E id \in IdRead(g) : items' = Append(items, [guid |-> id, iface |-> g])
         /\ refs' = [refs EXCEPT ![g] = @ + 1]
         /\ index' = index + 1
         /\ UNCHANGED <<pc, ok>>

SkipElement ==
  /\ "element" \in Faults \/ ~connected
  /\ index' = index + 1
  /\ UNCHANGED <<targetVars, pc, ok>>

\* Mutant: an entry is updated from the desktop at the same place.
RefreshByPlace ==
  /\ pc = "each"
  /\ index <= Len(array)
  /\ IF index \in DOMAIN items THEN UpdateEntry(index, array[index]) ELSE AddEntry(array[index])
  /\ UNCHANGED <<shellVars, array, call, calls, handed, answer>>

RefreshElement ==
  /\ pc = "each"
  /\ index <= Len(array)
  /\ \/ SkipElement
     \/ /\ connected
        /\ \E id \in IdReadByRefresh(array[index]) :
             IF find_desktop(id) # 0
             THEN UpdateEntry(find_desktop(id), array[index])
             ELSE AddEntry(array[index])
  /\ UNCHANGED <<shellVars, array, call, calls, handed, answer>>

\* Mutant: the loop ends before the last desktop.
RefreshStopsShort ==
  /\ pc = "each"
  /\ index >= Len(array)
  /\ Refreshed(TRUE)
  /\ UNCHANGED <<shellVars, targetVars, array, index, call, calls, handed, answer>>

RefreshEnds ==
  /\ pc = "each"
  /\ index > Len(array)
  /\ Refreshed(TRUE)
  /\ UNCHANGED <<shellVars, targetVars, array, index, call, calls, handed, answer>>

refresh == GetDesktops \/ GetCount \/ RefreshElement \/ RefreshEnds

-----------------------------------------------------------------------------
(* The Lua functions.                                                       *)

Start(of, entry, desktop, at) ==
  /\ pc = "script"
  /\ calls < MaxCalls
  /\ calls' = calls + 1
  /\ call' = [of |-> of, entry |-> entry, desktop |-> desktop]
  /\ pc' = at
  /\ answer' = NoAnswer

Return(result, about) ==
  /\ pc' = "script"
  /\ call' = NoCall
  /\ answer' = [of |-> call.of, result |-> result, about |-> about]

AllIds == [n \in DOMAIN items |-> items[n].guid]

\* vdesktop:list().  When refresh fails the span is empty, and so is the list.
CallList ==
  /\ Start("list", 0, ZeroGuid, "refresh")
  /\ UNCHANGED <<shellVars, targetVars, array, index, ok, handed>>

ListAnswers ==
  /\ pc = "refreshed"
  /\ call.of = "list"
  /\ Return(IF ok THEN AllIds ELSE <<>>, array)
  /\ handed' = IF ok THEN handed \cup DOMAIN items ELSE handed
  /\ UNCHANGED <<shellVars, targetVars, array, index, ok, calls>>

\* vdesktop:current().  win_vdesk_current refreshes only an empty cache.
CallCurrent ==
  /\ Start("current", 0, ZeroGuid, IF items = <<>> THEN "refresh" ELSE "read")
  /\ UNCHANGED <<shellVars, targetVars, array, index, ok, handed>>

CurrentRefreshed ==
  /\ pc = "refreshed"
  /\ call.of = "current"
  /\ pc' = IF ok THEN "read" ELSE "refresh"
  /\ call' = IF ok THEN call ELSE [call EXCEPT !.of = "push"]
  /\ UNCHANGED <<shellVars, targetVars, array, index, ok, calls, handed, answer>>

ReadCurrent ==
  /\ pc = "read"
  /\ \E failed \in ShellFails("desktops") :
       IF failed
       THEN call' = [call EXCEPT !.of = "push"]
       ELSE \E id \in IdRead(current) :
              call' = [of |-> "push", entry |-> find_desktop(id), desktop |-> id]
  /\ pc' = "refresh"
  /\ UNCHANGED <<shellVars, targetVars, array, index, ok, calls, handed, answer>>

\* push_vdesk_ptr: the table of the entry, or nil.
PushAnswers ==
  /\ pc = "refreshed"
  /\ call.of = "push"
  /\ LET found == ok /\ call.entry # 0 IN
     /\ Return(IF found THEN <<items[call.entry].guid>> ELSE <<>>, <<call.desktop>>)
     /\ handed' = IF found THEN handed \cup {call.entry} ELSE handed
  /\ UNCHANGED <<shellVars, targetVars, array, index, ok, calls>>

\* vdesktop:create(): the reference to the new desktop is released at once.
CallCreate ==
  /\ \/ /\ TRUE \in ShellFails("create")
        /\ Start("none", 0, ZeroGuid, "script")
        /\ UNCHANGED shell
     \/ /\ FALSE \in ShellFails("create")
        /\ \E g \in NewGuids :
             /\ shell' = Append(shell, g)
             /\ \E id \in IdRead(g) : Start("create", 0, id, "refresh")
  /\ UNCHANGED <<current, closed, connected, targetVars, array, index, ok, handed>>

\* Mutant: the new desktop is taken to be the last entry.
CreateTakesLast ==
  /\ pc = "refreshed"
  /\ call.of = "create"
  /\ IF ok /\ items # <<>>
     THEN /\ call' = [call EXCEPT !.of = "push", !.entry = Len(items)]
          /\ pc' = "refresh"
          /\ answer' = answer
     ELSE Return(<<>>, <<call.desktop>>)
  /\ UNCHANGED <<shellVars, targetVars, array, index, ok, calls, handed>>

CreateFinds ==
  /\ pc = "refreshed"
  /\ call.of = "create"
  /\ LET entry == find_desktop(call.desktop) IN
     IF ok /\ entry # 0
     THEN /\ call' = [call EXCEPT !.of = "push", !.entry = entry]
          /\ pc' = "refresh"
          /\ answer' = answer
     ELSE Return(<<>>, <<call.desktop>>)
  /\ UNCHANGED <<shellVars, targetVars, array, index, ok, calls, handed>>

\* desktop:switch(), on any table that was handed out.
CallSwitch ==
  /\ \E n \in handed : Start("switch", n, items[n].guid, "refresh")
  /\ UNCHANGED <<shellVars, targetVars, array, index, ok, handed>>

\* checked_vdesk raises an error unless the span has the entry.
SwitchDesktop ==
  /\ pc = "refreshed"
  /\ call.of = "switch"
  /\ \/ /\ ok
        /\ connected
        /\ items[call.entry].iface \in Elements(shell)
        /\ current' = items[call.entry].iface
        /\ Return(<<current'>>, <<call.desktop>>)
     \/ /\ ~ok \/ ~connected \/ items[call.entry].iface \notin Elements(shell)
        /\ UNCHANGED current
        /\ Return(<<>>, <<call.desktop>>)
  /\ UNCHANGED <<shell, closed, connected, targetVars, array, index, ok, calls, handed>>

Lua ==
  \/ CallList
  \/ ListAnswers
  \/ CallCurrent
  \/ CurrentRefreshed
  \/ ReadCurrent
  \/ PushAnswers
  \/ CallCreate
  \/ CreateFinds
  \/ CallSwitch
  \/ SwitchDesktop

-----------------------------------------------------------------------------
Init ==
  /\ shell \in {<<g>> : g \in Guid}
  /\ current \in Elements(shell)
  /\ closed = {}
  /\ connected = TRUE
  /\ items = <<>>
  /\ refs = [g \in Guid |-> 0]
  /\ array = <<>>
  /\ index = 1
  /\ pc = "script"
  /\ call = NoCall
  /\ ok = TRUE
  /\ calls = 0
  /\ handed = {}
  /\ answer = NoAnswer

Next == Explorer \/ refresh \/ Lua

Spec == Init /\ [][Next]_vars

-----------------------------------------------------------------------------
(* The cache.                                                               *)

\* No desktop has two entries: the same desktop always yields the same table
\* (desktop_win.c:261-318, uniwm.lua:22).
UniqueEntries == \A m, n \in DOMAIN items : items[m].guid = items[n].guid => m = n

\* Each entry reaches the desktop whose id it has: a table never acts on another
\* desktop than the one it was made for (desktop_win.c:217-229).
OwnInterface == \A n \in DOMAIN items : items[n].iface = items[n].guid

\* The entries that hold the interface of a desktop.
Holders(g) == {n \in DOMAIN items : items[n].iface = g}

\* The worker holds one reference for each entry's interface, whichever call of
\* refresh fails: none leaks and none is released twice (desktop_win.c:197-318).
RefsBalanced == \A g \in Guid : refs[g] = Cardinality(Holders(g))

EntriesKept ==
  \A n \in DOMAIN items :
    n \in DOMAIN items' /\ items'[n].guid = items[n].guid /\ items'[n].iface = items[n].iface

\* An entry stays, keeps its id and goes on reaching the same desktop, whatever the
\* refreshes after it find: a table that a script keeps never comes to stand for another
\* desktop (uniwm-lua.c:66-77 looks for the pointer only, desktop_win.c:217-229 puts a
\* new interface in its entry).
EntriesStay == [][EntriesKept]_vars

-----------------------------------------------------------------------------
(* The answers.                                                             *)

\* What current() and create() return, and where switch() goes, is the desktop
\* that they are about, however the user changes the desktops meanwhile
\* (desktop_win.c:435-492, uniwm-lua.c:66-88, 180-223).
AnswersMatch ==
  answer.of \in {"push", "switch"} /\ answer.result # <<>> => answer.result = answer.about

\* list() leaves out no desktop that Explorer lists, unless refresh has failed or
\* Explorer is gone, or GetCount or GetAt fails (desktop_win.c:272-318).
ListIsComplete ==
  answer.of = "list" /\ ok /\ connected => Elements(answer.about) \subseteq Elements(answer.result)

\* list() is what Explorer lists, in its order (uniwm.lua:47).
ListIsExact == answer.of = "list" => answer.result = answer.about

\* current() returns a desktop whenever Explorer says which one it is (uniwm.lua:51).
CurrentIsFound ==
  answer.of = "push" /\ answer.about # <<ZeroGuid>> => answer.result # <<>>

==================================================================================
