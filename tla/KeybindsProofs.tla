----------------------------- MODULE KeybindsProofs -----------------------------
(***************************************************************************)
(* What holds of the keyboard for every set of keys, combos and callbacks, *)
(* every size of the two tables and every set of faults.                   *)
(***************************************************************************)
EXTENDS Keybinds, InductionProofs, TLAPS

-----------------------------------------------------------------------------
(* The keybind table.  Swapping the last binding into the gap keeps the    *)
(* table exact only because no combo is bound twice and no two bindings    *)
(* share a record, so the three facts are one invariant.                   *)

BindsTyped == binds \in Seq(Binding) /\ Len(binds) <= KeybindMax /\ live \subseteq Callback

TableInv == BindsTyped /\ UniqueCombos /\ BoundExactlyLive

\* The same facts of any table and any set of records.
Exact(table, records) ==
  /\ table \in Seq(Binding)
  /\ \A m, n \in DOMAIN table : table[m].combo = table[n].combo => m = n
  /\ records = {table[n].ctx : n \in DOMAIN table}
  /\ \A m, n \in DOMAIN table : table[m].ctx = table[n].ctx => m = n

\* The binding wm_unbind_key finds first is the combo's only one.
LEMMA FirstIsOnly ==
  ASSUME TableInv, NEW c, BoundTo(c) # {}
  PROVE  FirstBoundTo(c) \in DOMAIN binds /\ BoundTo(c) = {FirstBoundTo(c)}
<1>1. PICK n \in BoundTo(c) : TRUE
  OBVIOUS
<1>2. n \in DOMAIN binds /\ binds[n].combo = c
  BY DEF BoundTo
<1>3. BoundTo(c) = {n}
  BY <1>2 DEF TableInv, UniqueCombos, BoundTo
<1>4. n <= n
  BY <1>2 DEF TableInv, BindsTyped
<1>5. FirstBoundTo(c) = n
  BY <1>3, <1>4 DEF FirstBoundTo
<1>. QED
  BY <1>2, <1>3, <1>5

\* A table that has the bindings of every combo but one.
OthersOnly(table, c) ==
  /\ \A n \in DOMAIN table : table[n].combo # c
  /\ \A n \in DOMAIN table : \E m \in DOMAIN binds : table[n] = binds[m]
  /\ \A m \in DOMAIN binds :
       binds[m].combo # c => \E n \in DOMAIN table : table[n] = binds[m]

\* Removing the binding of a combo leaves an exact table without that combo and
\* with the bindings of all others.
LEMMA UnboundExact ==
  ASSUME TableInv, NEW c
  PROVE  /\ Exact(Unbound(c), live \ OldContext(c))
         /\ Len(Unbound(c)) <= Len(binds)
         /\ OthersOnly(Unbound(c), c)
<1>. USE DEF TableInv, BindsTyped, UniqueCombos, BoundExactlyLive, Exact
<1>1. CASE BoundTo(c) = {}
  <2>1. Unbound(c) = binds /\ OldContext(c) = {}
    BY <1>1 DEF Unbound, OldContext
  <2>2. \A n \in DOMAIN binds : binds[n].combo # c
    BY <1>1 DEF BoundTo
  <2>3. OthersOnly(Unbound(c), c)
    BY <2>1, <2>2 DEF OthersOnly
  <2>. QED
    BY <2>1, <2>3
<1>2. CASE BoundTo(c) # {}
  <2>. DEFINE gap == FirstBoundTo(c)
              last == Len(binds)
              table == Unbound(c)
              from(n) == IF n = gap THEN last ELSE n
  <2>1. gap \in 1 .. last /\ last \in Nat \ {0} /\ BoundTo(c) = {gap} /\ binds[gap].combo = c
    BY <1>2, FirstIsOnly DEF BoundTo
  <2>2. table = [n \in 1 .. last - 1 |-> binds[from(n)]]
    BY <1>2 DEF Unbound, WithoutBinding
  <2>3. OldContext(c) = {binds[gap].ctx}
    BY <1>2 DEF OldContext
  <2>. HIDE DEF gap, last, table
  <2>4. \A n \in 1 .. last - 1 : from(n) \in (1 .. last) \ {gap}
    BY <2>1
  <2>5. \A m, n \in 1 .. last - 1 : from(m) = from(n) => m = n
    BY <2>1
  <2>6. \A m \in (1 .. last) \ {gap} : \E n \in 1 .. last - 1 : from(n) = m
    <3>. SUFFICES ASSUME NEW m \in (1 .. last) \ {gap}
                  PROVE  \E n \in 1 .. last - 1 : from(n) = m
      OBVIOUS
    <3>1. CASE m = last
      BY <2>1, <3>1
    <3>2. CASE m # last
      BY <2>1, <3>2
    <3>. QED
      BY <3>1, <3>2
  <2>. HIDE DEF from
  <2>7. DOMAIN binds = 1 .. last /\ binds \in [1 .. last -> Binding]
    BY DEF last
  <2>8. table \in Seq(Binding) /\ Len(table) = last - 1 /\ DOMAIN table = 1 .. last - 1
    <3>1. table \in [1 .. last - 1 -> Binding]
      BY <2>2, <2>4, <2>7
    <3>. QED
      BY <2>1, <3>1
  <2>9. \A m, n \in DOMAIN table : /\ table[m].combo = table[n].combo => m = n
                                   /\ table[m].ctx = table[n].ctx => m = n
    BY <2>2, <2>4, <2>5, <2>7, <2>8
  <2>10. live \ OldContext(c) = {table[n].ctx : n \in DOMAIN table}
    BY <2>1, <2>2, <2>3, <2>4, <2>6, <2>7, <2>8
  <2>11. \A n \in DOMAIN table : table[n].combo # c
    BY <2>1, <2>2, <2>4, <2>7, <2>8
  <2>12. \A n \in DOMAIN table : \E m \in DOMAIN binds : table[n] = binds[m]
    BY <2>2, <2>4, <2>7, <2>8
  <2>13. \A m \in DOMAIN binds :
           binds[m].combo # c => \E n \in DOMAIN table : table[n] = binds[m]
    BY <2>1, <2>2, <2>6, <2>7, <2>8
  <2>14. OthersOnly(table, c)
    BY <2>11, <2>12, <2>13, Zenon DEF OthersOnly
  <2>. QED
    BY <2>1, <2>7, <2>8, <2>9, <2>10, <2>14 DEF table, last
<1>. QED
  BY <1>1, <1>2

\* Adding a binding of a new combo with a new record keeps a table exact.
LEMMA AppendExact ==
  ASSUME NEW table, NEW records, Exact(table, records),
         NEW c \in Bindable, NEW ctx \in Callback \ records,
         \A n \in DOMAIN table : table[n].combo # c
  PROVE  Exact(Append(table, [combo |-> c, ctx |-> ctx]), records \cup {ctx})
<1>. DEFINE b == [combo |-> c, ctx |-> ctx]
            longer == Append(table, b)
            size == Len(table)
<1>1. b \in Binding /\ b.combo = c /\ b.ctx = ctx
  BY DEF Binding
<1>. HIDE DEF b
<1>2. table \in Seq(Binding) /\ size \in Nat /\ DOMAIN table = 1 .. size
  BY DEF Exact
<1>3. /\ longer \in Seq(Binding) /\ DOMAIN longer = 1 .. size + 1
      /\ longer[size + 1] = b /\ \A n \in 1 .. size : longer[n] = table[n]
  BY <1>1, <1>2
<1>. HIDE DEF longer, size
<1>4. \A n \in 1 .. size : table[n].ctx \in records /\ table[n].ctx # ctx /\ table[n].combo # c
  BY <1>2 DEF Exact
<1>5. \A m, n \in 1 .. size + 1 : longer[m].combo = longer[n].combo => m = n
  <2>1. \A m, n \in 1 .. size : longer[m].combo = longer[n].combo => m = n
    BY <1>2, <1>3 DEF Exact
  <2>2. longer[size + 1].combo = c /\ \A n \in 1 .. size : longer[n].combo # c
    BY <1>1, <1>2, <1>3, <1>4
  <2>3. \A n \in 1 .. size + 1 : n \in 1 .. size \/ n = size + 1
    BY <1>2
  <2>. SUFFICES ASSUME NEW m \in 1 .. size + 1, NEW n \in 1 .. size + 1,
                       longer[m].combo = longer[n].combo
                PROVE  m = n
    OBVIOUS
  <2>4. CASE m = size + 1 \/ n = size + 1
    BY <2>2, <2>3, <2>4
  <2>5. CASE m \in 1 .. size /\ n \in 1 .. size
    BY <2>1, <2>5
  <2>. QED
    BY <2>3, <2>4, <2>5
<1>6. \A m, n \in 1 .. size + 1 : longer[m].ctx = longer[n].ctx => m = n
  <2>1. \A m, n \in 1 .. size : longer[m].ctx = longer[n].ctx => m = n
    BY <1>2, <1>3 DEF Exact
  <2>2. longer[size + 1].ctx = ctx /\ \A n \in 1 .. size : longer[n].ctx # ctx
    BY <1>1, <1>2, <1>3, <1>4
  <2>3. \A n \in 1 .. size + 1 : n \in 1 .. size \/ n = size + 1
    BY <1>2
  <2>. SUFFICES ASSUME NEW m \in 1 .. size + 1, NEW n \in 1 .. size + 1,
                       longer[m].ctx = longer[n].ctx
                PROVE  m = n
    OBVIOUS
  <2>4. CASE m = size + 1 \/ n = size + 1
    BY <2>2, <2>3, <2>4
  <2>5. CASE m \in 1 .. size /\ n \in 1 .. size
    BY <2>1, <2>5
  <2>. QED
    BY <2>3, <2>4, <2>5
<1>7. records \cup {ctx} = {longer[n].ctx : n \in 1 .. size + 1}
  <2>1. records = {table[n].ctx : n \in 1 .. size}
    BY <1>2 DEF Exact
  <2>. QED
    BY <1>1, <1>2, <1>3, <2>1
<1>8. Exact(longer, records \cup {ctx})
  BY <1>3, <1>5, <1>6, <1>7 DEF Exact
<1>. QED
  BY <1>8 DEF longer, b

\* What the Lua functions make of the table: it is left alone, the combo is
\* taken out, or it is taken out and bound anew.
LEMMA RebindingCases ==
  ASSUME NEW c, l_register_keybind(c) \/ l_unregister_keybind(c)
  PROVE  \/ binds' = Unbound(c) /\ live' = live \ OldContext(c)
         \/ \E ctx \in Callback \ (live \ OldContext(c)) :
              /\ ~(Len(Unbound(c)) >= KeybindMax)
              /\ binds' = Append(Unbound(c), [combo |-> c, ctx |-> ctx])
              /\ live' = (live \ OldContext(c)) \cup {ctx}
BY DEF l_register_keybind, l_unregister_keybind

\* Registering and unregistering keep TableInv, whatever fails on the way.
LEMMA RebindingKeepsInv ==
  ASSUME TableInv, NEW c \in Bindable, l_register_keybind(c) \/ l_unregister_keybind(c)
  PROVE  TableInv'
<1>. DEFINE table == Unbound(c)
            kept  == live \ OldContext(c)
<1>1. /\ Exact(table, kept) /\ Len(table) <= Len(binds)
      /\ \A n \in DOMAIN table : table[n].combo # c
  BY UnboundExact, Zenon DEF OthersOnly
<1>2. table \in Seq(Binding) /\ binds \in Seq(Binding) /\ Len(binds) <= KeybindMax
      /\ KeybindMax \in Nat /\ kept \subseteq Callback
  BY <1>1, TableAssumption DEF TableInv, BindsTyped, Exact
<1>. HIDE DEF table, kept
<1>3. CASE binds' = table /\ live' = kept
  <2>1. Exact(binds', live') /\ Len(binds') <= KeybindMax /\ live' \subseteq Callback
    BY <1>1, <1>2, <1>3
  <2>. QED
    BY <2>1 DEF TableInv, BindsTyped, UniqueCombos, BoundExactlyLive, Exact
<1>4. ASSUME NEW ctx \in Callback \ kept,
             ~(Len(table) >= KeybindMax),
             binds' = Append(table, [combo |-> c, ctx |-> ctx]),
             live' = kept \cup {ctx}
      PROVE  TableInv'
  <2>1. Exact(binds', live')
    BY <1>1, <1>4, AppendExact
  <2>2. Len(binds') <= KeybindMax /\ live' \subseteq Callback
    BY <1>2, <1>4
  <2>. QED
    BY <2>1, <2>2 DEF TableInv, BindsTyped, UniqueCombos, BoundExactlyLive, Exact
<1>5. \/ binds' = table /\ live' = kept
      \/ \E ctx \in Callback \ kept :
           /\ ~(Len(table) >= KeybindMax)
           /\ binds' = Append(table, [combo |-> c, ctx |-> ctx])
           /\ live' = kept \cup {ctx}
  BY RebindingCases DEF table, kept
<1>. QED
  BY <1>3, <1>4, <1>5

\* TableInv is inductive.
LEMMA TableInvInductive == Init /\ [][Next]_vars => []TableInv
<1>1. Init => TableInv
  BY TableAssumption DEF Init, TableInv, BindsTyped, UniqueCombos, BoundExactlyLive
<1>2. TableInv /\ [Next]_vars => TableInv'
  <2>. SUFFICES ASSUME TableInv, [Next]_vars PROVE TableInv'
    OBVIOUS
  <2>1. CASE UNCHANGED <<binds, live>>
    BY <2>1 DEF TableInv, BindsTyped, UniqueCombos, BoundExactlyLive
  <2>2. CASE Rebinding
    BY <2>2, RebindingKeepsInv DEF Rebinding
  <2>3. CASE Suppressing
    BY <2>1, <2>3 DEF Suppressing, l_supress_key, l_unsupress_key
  <2>4. CASE Keyboard \/ Worker \/ UNCHANGED vars
    BY <2>1, <2>4 DEF Keyboard, Worker, process_keybinds, RunCallback, CallbackReturns,
                      LoopEnds, tableVars, vars
  <2>. QED
    BY <2>2, <2>3, <2>4 DEF Next, Script
<1>. QED
  BY <1>1, <1>2, PTL

\* No combo is ever bound twice, whatever scripts and callbacks register and
\* unregister and whichever call fails.
THEOREM CombosAreUnique == Spec => []UniqueCombos
<1>1. TableInv => UniqueCombos
  BY DEF TableInv
<1>. QED
  BY <1>1, TableInvInductive, PTL DEF Spec

\* The callback records allocated are exactly those of the bindings: nothing
\* leaks and no binding's record was freed, also when an allocation fails or the
\* table is full.
THEOREM RecordsAreBound == Spec => []BoundExactlyLive
<1>1. TableInv => BoundExactlyLive
  BY DEF TableInv
<1>. QED
  BY <1>1, TableInvInductive, PTL DEF Spec

-----------------------------------------------------------------------------
(* The table implements the map of BindingMap.                             *)

ContextsIn(table, c) == {table[n].ctx : n \in {m \in DOMAIN table : table[m].combo = c}}

\* OldContext is the set of the contexts bound to a combo.
LEMMA ContextOfBinding == TableInv => \A c \in Bindable : OldContext(c) = ContextsIn(binds, c)
<1>. SUFFICES ASSUME TableInv, NEW c \in Bindable
              PROVE  OldContext(c) = ContextsIn(binds, c)
  OBVIOUS
<1>1. CASE BoundTo(c) = {}
  BY <1>1 DEF OldContext, ContextsIn, BoundTo
<1>2. CASE BoundTo(c) # {}
  BY <1>2, FirstIsOnly DEF OldContext, ContextsIn, BoundTo
<1>. QED
  BY <1>1, <1>2

\* The same of the next state.
LEMMA ContextOfNextBinding ==
  TableInv' => (\A c \in Bindable : OldContext(c) = ContextsIn(binds, c))'
BY ContextOfBinding, PTL

\* wm_unbind_key takes one combo's context away and leaves the others, in spite of
\* the swap (input.c:240-261).
LEMMA UnboundContexts ==
  ASSUME TableInv, NEW c, NEW d
  PROVE  ContextsIn(Unbound(c), d) = IF d = c THEN {} ELSE ContextsIn(binds, d)
<1>. DEFINE table == Unbound(c)
<1>1. OthersOnly(table, c)
  BY UnboundExact, Zenon
<1>. HIDE DEF table
<1>. USE <1>1 DEF OthersOnly
<1>2. CASE d = c
  BY <1>1, <1>2 DEF ContextsIn, table
<1>3. CASE d # c
  <2>1. ASSUME NEW x \in ContextsIn(table, d) PROVE x \in ContextsIn(binds, d)
    <3>1. PICK n \in DOMAIN table : table[n].combo = d /\ x = table[n].ctx
      BY DEF ContextsIn
    <3>. QED
      BY <1>1, <3>1 DEF ContextsIn
  <2>2. ASSUME NEW x \in ContextsIn(binds, d) PROVE x \in ContextsIn(table, d)
    <3>1. PICK m \in DOMAIN binds : binds[m].combo = d /\ x = binds[m].ctx
      BY DEF ContextsIn
    <3>2. PICK n \in DOMAIN table : table[n] = binds[m]
      BY <1>1, <1>3, <3>1
    <3>. QED
      BY <3>1, <3>2 DEF ContextsIn
  <2>. QED
    BY <1>3, <2>1, <2>2 DEF table
<1>. QED
  BY <1>2, <1>3

\* wm_bind_key adds a context to its own combo only (input.c:220-238).
LEMMA AppendedContexts ==
  ASSUME NEW table \in Seq(Binding), NEW b \in Binding, NEW d
  PROVE  ContextsIn(Append(table, b), d) =
           ContextsIn(table, d) \cup (IF b.combo = d THEN {b.ctx} ELSE {})
<1>. DEFINE longer == Append(table, b)
            size == Len(table)
<1>1. size \in Nat /\ DOMAIN table = 1 .. size /\ DOMAIN longer = 1 .. size + 1
      /\ longer[size + 1] = b /\ \A n \in 1 .. size : longer[n] = table[n]
  OBVIOUS
<1>. HIDE DEF longer, size
<1>2. 1 .. size + 1 = (1 .. size) \cup {size + 1} /\ size + 1 \notin 1 .. size
  BY <1>1
<1>3. ContextsIn(longer, d) = ContextsIn(table, d) \cup (IF b.combo = d THEN {b.ctx} ELSE {})
  BY <1>1, <1>2 DEF ContextsIn
<1>. QED
  BY <1>3 DEF longer

\* Registering and unregistering a combo is a step of the map.
LEMMA RebindingIsMapStep ==
  ASSUME TableInv, NEW c \in Bindable, l_register_keybind(c) \/ l_unregister_keybind(c)
  PROVE  Map!Bind(c) \/ Map!Unbind(c)
<1>. DEFINE kept == live \ OldContext(c)
            bound == [d \in Bindable |-> OldContext(d)]
<1>1. \A d \in Bindable : OldContext(d) = ContextsIn(binds, d)
  BY ContextOfBinding
<1>2. (\A d \in Bindable : OldContext(d) = ContextsIn(binds, d))'
  <2>1. TableInv'
    BY RebindingKeepsInv
  <2>. QED
    BY <2>1, ContextOfNextBinding
<1>3. bound' = [d \in Bindable |-> ContextsIn(binds', d)]
  BY <1>2 DEF ContextsIn
<1>4. \A d \in Bindable : ContextsIn(Unbound(c), d) = IF d = c THEN {} ELSE bound[d]
  BY <1>1, UnboundContexts
<1>5. CASE binds' = Unbound(c)
  <2>1. bound' = [bound EXCEPT ![c] = {}]
    BY <1>3, <1>4, <1>5
  <2>. QED
    BY <2>1 DEF Map!Unbind
<1>6. ASSUME NEW ctx \in Callback \ kept,
             binds' = Append(Unbound(c), [combo |-> c, ctx |-> ctx])
      PROVE  Map!Bind(c)
  <2>. DEFINE b == [combo |-> c, ctx |-> ctx]
  <2>1. Unbound(c) \in Seq(Binding) /\ b \in Binding /\ b.combo = c /\ b.ctx = ctx
    BY UnboundExact DEF Exact, Binding
  <2>2. \A d \in Bindable : ContextsIn(binds', d) = IF d = c THEN {ctx} ELSE bound[d]
    <3>1. \A d \in Bindable : ContextsIn(binds', d) =
             ContextsIn(Unbound(c), d) \cup (IF c = d THEN {ctx} ELSE {})
      BY <1>6, <2>1, AppendedContexts
    <3>. QED
      BY <1>4, <3>1
  <2>3. bound' = [bound EXCEPT ![c] = {ctx}]
    BY <1>3, <2>2
  <2>4. ctx \notin Map!OfOthers(c)
    <3>. SUFFICES ASSUME NEW d \in Bindable \ {c}, ctx \in ContextsIn(binds, d) PROVE FALSE
      BY <1>1 DEF Map!OfOthers
    <3>1. ctx \in ContextsIn(Unbound(c), d)
      BY UnboundContexts
    <3>2. PICK n \in DOMAIN Unbound(c) : Unbound(c)[n].ctx = ctx
      BY <3>1, Zenon DEF ContextsIn
    <3>3. Exact(Unbound(c), kept)
      BY UnboundExact, Zenon
    <3>4. ctx \in kept
      BY <3>2, <3>3 DEF Exact
    <3>. QED
      BY <3>4
  <2>. QED
    BY <2>3, <2>4 DEF Map!Bind
<1>. QED
  BY <1>5, <1>6, RebindingCases

\* The table implements the map: whatever is registered and unregistered, in any
\* order and with any failure, an operation on one combo changes what that combo
\* runs and nothing else.
THEOREM TableImplementsMap == Spec => ImplementsMap
<1>. DEFINE bound == [c \in Bindable |-> OldContext(c)]
<1>1. Init => Map!Init
  BY DEF Init, Map!Init, OldContext, BoundTo
<1>2. TableInv /\ [Next]_vars => [Map!Next]_bound
  <2>. SUFFICES ASSUME TableInv, [Next]_vars PROVE [Map!Next]_bound
    OBVIOUS
  <2>1. CASE UNCHANGED binds
    BY <2>1 DEF OldContext, BoundTo, FirstBoundTo
  <2>2. CASE Rebinding
    BY <2>2, RebindingIsMapStep DEF Rebinding, Map!Next
  <2>3. CASE Suppressing
    BY <2>1, <2>3 DEF Suppressing, l_supress_key, l_unsupress_key
  <2>4. CASE Keyboard \/ Worker \/ UNCHANGED vars
    BY <2>1, <2>4 DEF Keyboard, Worker, process_keybinds, RunCallback, CallbackReturns,
                      LoopEnds, tableVars, vars
  <2>. QED
    BY <2>2, <2>3, <2>4 DEF Next, Script
<1>. QED
  BY <1>1, <1>2, TableInvInductive, PTL DEF Spec, ImplementsMap, Map!Spec

-----------------------------------------------------------------------------
(* The two down arrays and the queue between them.                         *)

About(q, key, n) == {m \in 1 .. n : q[m].key = key}

\* Whether a key is down once the first n events of a queue are handled.
DownAfter(q, down, key, n) ==
  IF About(q, key, n) = {} THEN key \in down
  ELSE \E m \in About(q, key, n) : q[m].down /\ \A j \in About(q, key, n) : j <= m

\* An event that the hook adds changes what is known of its own key, at the end.
LEMMA EventAdded ==
  ASSUME NEW q \in Seq(KeyEvent), NEW e \in KeyEvent, NEW down, NEW key
  PROVE  /\ \A n \in 0 .. Len(q) :
              DownAfter(Append(q, e), down, key, n) <=> DownAfter(q, down, key, n)
         /\ DownAfter(Append(q, e), down, key, Len(q) + 1)
              <=> IF e.key = key THEN e.down ELSE DownAfter(q, down, key, Len(q))
<1>. DEFINE r == Append(q, e)
            size == Len(q)
<1>1. size \in Nat /\ r[size + 1] = e /\ \A m \in 1 .. size : r[m] = q[m]
  OBVIOUS
<1>. HIDE DEF r, size
<1>2. \A n \in 0 .. size : About(r, key, n) = About(q, key, n)
  BY <1>1 DEF About
<1>3. \A n \in 0 .. size : \A m \in About(q, key, n) : r[m] = q[m]
  BY <1>1 DEF About
<1>4. \A n \in 0 .. size : DownAfter(r, down, key, n) <=> DownAfter(q, down, key, n)
  BY <1>2, <1>3 DEF DownAfter
<1>5. CASE e.key = key
  <2>1. size + 1 \in About(r, key, size + 1) /\ \A m \in About(r, key, size + 1) : m <= size + 1
    BY <1>1, <1>5 DEF About
  <2>2. \A m \in About(r, key, size + 1) :
          (\A j \in About(r, key, size + 1) : j <= m) => m = size + 1
    BY <1>1, <2>1 DEF About
  <2>3. DownAfter(r, down, key, size + 1) <=> e.down
    BY <1>1, <2>1, <2>2 DEF DownAfter
  <2>. QED
    BY <1>4, <1>5, <2>3 DEF r, size
<1>6. CASE e.key # key
  <2>1. About(r, key, size + 1) = About(q, key, size)
    BY <1>1, <1>6 DEF About
  <2>2. DownAfter(r, down, key, size + 1) <=> DownAfter(q, down, key, size)
    BY <1>1, <1>3, <2>1 DEF DownAfter
  <2>. QED
    BY <1>4, <1>6, <2>2 DEF r, size
<1>. QED
  BY <1>5, <1>6

\* Handling the first event takes it over into the array.
LEMMA EventHandled ==
  ASSUME NEW q \in Seq(KeyEvent), q # <<>>, NEW down, NEW key, NEW n \in 0 .. Len(q) - 1
  PROVE  DownAfter(Tail(q), WithKey(down, Head(q).key, Head(q).down), key, n)
           <=> DownAfter(q, down, key, n + 1)
<1>. DEFINE r == Tail(q)
            later == WithKey(down, Head(q).key, Head(q).down)
<1>1. /\ Len(q) \in Nat \ {0} /\ Head(q) = q[1] /\ n \in Nat
      /\ \A m \in 1 .. n : r[m] = q[m + 1]
  OBVIOUS
<1>2. key \in later <=> IF q[1].key = key THEN q[1].down ELSE key \in down
  BY <1>1 DEF WithKey
<1>. HIDE DEF r, later
<1>3. \A m \in 1 .. n : m \in About(r, key, n) <=> m + 1 \in About(q, key, n + 1)
  BY <1>1 DEF About
<1>4. \A m \in About(q, key, n + 1) : m = 1 \/ (m - 1 \in About(r, key, n) /\ m - 1 \in 1 .. n)
  BY <1>1, <1>3 DEF About
<1>5. 1 \in About(q, key, n + 1) <=> q[1].key = key
  BY <1>1 DEF About
<1>6. About(r, key, n) \subseteq 1 .. n /\ About(q, key, n + 1) \subseteq 1 .. n + 1
  BY DEF About
<1>7. CASE About(r, key, n) = {}
  <2>1. About(q, key, n + 1) = IF q[1].key = key THEN {1} ELSE {}
    BY <1>4, <1>5, <1>7
  <2>2. DownAfter(q, down, key, n + 1) <=> IF q[1].key = key THEN q[1].down ELSE key \in down
    <3>1. CASE q[1].key = key
      <4>1. About(q, key, n + 1) = {1} /\ \A j \in {1} : j <= 1
        BY <2>1, <3>1
      <4>. QED
        BY <3>1, <4>1, Zenon DEF DownAfter
    <3>2. CASE q[1].key # key
      BY <2>1, <3>2 DEF DownAfter
    <3>. QED
      BY <3>1, <3>2
  <2>. QED
    BY <1>2, <1>7, <2>2 DEF DownAfter, r, later
<1>8. CASE About(r, key, n) # {}
  <2>1. PICK i \in About(r, key, n) : TRUE
    BY <1>8
  <2>2. i + 1 \in About(q, key, n + 1) /\ i + 1 > 1
    BY <1>3, <1>6, <2>1
  <2>3. ASSUME NEW m \in About(r, key, n), r[m].down, \A j \in About(r, key, n) : j <= m
        PROVE  DownAfter(q, down, key, n + 1)
    <3>1. m + 1 \in About(q, key, n + 1) /\ q[m + 1].down
      BY <1>1, <1>3, <1>6, <2>3
    <3>2. \A j \in About(q, key, n + 1) : j <= m + 1
      BY <1>4, <1>6, <2>3
    <3>. QED
      BY <3>1, <3>2 DEF DownAfter
  <2>4. ASSUME NEW m \in About(q, key, n + 1), q[m].down,
               \A j \in About(q, key, n + 1) : j <= m
        PROVE  DownAfter(r, later, key, n)
    <3>1. m # 1
      BY <1>6, <2>2, <2>4
    <3>2. m - 1 \in About(r, key, n) /\ r[m - 1].down
      BY <1>1, <1>4, <1>6, <2>4, <3>1
    <3>3. \A j \in About(r, key, n) : j <= m - 1
      BY <1>3, <1>6, <2>4
    <3>. QED
      BY <3>2, <3>3 DEF DownAfter
  <2>. QED
    BY <1>8, <2>2, <2>3, <2>4 DEF DownAfter, r, later
<1>. QED
  BY <1>7, <1>8

\* The events waiting lead from one array to the other, and each says whether its key
\* was up before.
QueueInv ==
  /\ queue \in Seq(KeyEvent)
  /\ \A key \in Key : key \in supDown <=> DownAfter(queue, bindDown, key, Len(queue))
  /\ \A n \in DOMAIN queue :
       queue[n].fresh <=> ~DownAfter(queue, bindDown, queue[n].key, n - 1)

LEMMA QueueInit == Init => QueueInv
BY DEF Init, QueueInv, DownAfter, About

LEMMA KeyChangeKeepsQueue ==
  ASSUME QueueInv, NEW key \in Key, NEW down \in BOOLEAN, KeyChanges(key, down),
         UNCHANGED bindDown
  PROVE  QueueInv'
<1>1. CASE UNCHANGED <<supDown, queue>>
  BY <1>1 DEF QueueInv
<1>2. CASE suppress_cb(key, down)
             /\ queue' = Append(queue, [key |-> key, down |-> down, fresh |-> key \notin supDown])
  <2>. DEFINE e == [key |-> key, down |-> down, fresh |-> key \notin supDown]
  <2>1. e \in KeyEvent /\ e.key = key /\ (e.down <=> down) /\ (e.fresh <=> key \notin supDown)
    BY DEF KeyEvent
  <2>2. queue' = Append(queue, e)
    BY <1>2
  <2>. HIDE DEF e
  <2>3. /\ queue \in Seq(KeyEvent) /\ Len(queue) \in Nat /\ DOMAIN queue = 1 .. Len(queue)
        /\ queue' \in Seq(KeyEvent) /\ Len(queue') = Len(queue) + 1
        /\ DOMAIN queue' = 1 .. Len(queue) + 1
        /\ queue'[Len(queue) + 1] = e
        /\ \A n \in 1 .. Len(queue) : queue'[n] = queue[n]
    BY <2>1, <2>2 DEF QueueInv
  <2>4. \A k \in Key :
          /\ \A n \in 0 .. Len(queue) :
               DownAfter(queue', bindDown, k, n) <=> DownAfter(queue, bindDown, k, n)
          /\ DownAfter(queue', bindDown, k, Len(queue) + 1)
               <=> IF key = k THEN down ELSE DownAfter(queue, bindDown, k, Len(queue))
    <3>. SUFFICES ASSUME NEW k \in Key
                  PROVE  /\ \A n \in 0 .. Len(queue) :
                              DownAfter(queue', bindDown, k, n) <=> DownAfter(queue, bindDown, k, n)
                         /\ DownAfter(queue', bindDown, k, Len(queue) + 1)
                              <=> IF key = k THEN down ELSE DownAfter(queue, bindDown, k, Len(queue))
      OBVIOUS
    <3>1. /\ \A n \in 0 .. Len(queue) :
               DownAfter(queue', bindDown, k, n) <=> DownAfter(queue, bindDown, k, n)
          /\ DownAfter(queue', bindDown, k, Len(queue) + 1)
               <=> IF e.key = k THEN e.down ELSE DownAfter(queue, bindDown, k, Len(queue))
      BY <2>1, <2>2, <2>3, EventAdded, Zenon
    <3>. QED
      BY <2>1, <3>1, Zenon
  <2>5. \A k \in Key : k \in supDown' <=> IF key = k THEN down ELSE k \in supDown
    BY <1>2 DEF suppress_cb, WithKey
  <2>6. \A k \in Key : k \in supDown' <=> DownAfter(queue', bindDown, k, Len(queue'))
    BY <2>3, <2>4, <2>5 DEF QueueInv
  <2>7. \A n \in 1 .. Len(queue) : queue[n].key \in Key /\ n - 1 \in 0 .. Len(queue)
    <3>. SUFFICES ASSUME NEW n \in 1 .. Len(queue)
                  PROVE  queue[n].key \in Key /\ n - 1 \in 0 .. Len(queue)
      OBVIOUS
    <3>1. queue[n] \in KeyEvent
      BY <2>3
    <3>. QED
      BY <2>3, <3>1 DEF KeyEvent
  <2>8. \A n \in 1 .. Len(queue) :
          queue'[n].fresh <=> ~DownAfter(queue', bindDown, queue'[n].key, n - 1)
    BY <2>3, <2>4, <2>7 DEF QueueInv
  <2>9. queue'[Len(queue) + 1].fresh
          <=> ~DownAfter(queue', bindDown, queue'[Len(queue) + 1].key, Len(queue))
    BY <2>1, <2>3, <2>4 DEF QueueInv
  <2>10. \A n \in DOMAIN queue' :
           queue'[n].fresh <=> ~DownAfter(queue', bindDown, queue'[n].key, n - 1)
    <3>. SUFFICES ASSUME NEW n \in 1 .. Len(queue) + 1
                  PROVE  queue'[n].fresh <=> ~DownAfter(queue', bindDown, queue'[n].key, n - 1)
      BY <2>3
    <3>1. CASE n = Len(queue) + 1
      <4>1. n - 1 = Len(queue)
        BY <2>3, <3>1
      <4>. QED
        BY <2>9, <3>1, <4>1
    <3>2. CASE n \in 1 .. Len(queue)
      BY <2>8, <3>2
    <3>. QED
      BY <2>3, <3>1, <3>2
  <2>. QED
    BY <2>3, <2>6, <2>10 DEF QueueInv
<1>. QED
  BY <1>1, <1>2 DEF KeyChanges

LEMMA HandlingKeepsQueue ==
  ASSUME QueueInv, process_keybinds
  PROVE  QueueInv'
<1>1. /\ queue # <<>> /\ queue' = Tail(queue) /\ supDown' = supDown
      /\ bindDown' = WithKey(bindDown, Head(queue).key, Head(queue).down)
  BY DEF process_keybinds
<1>2. /\ queue' \in Seq(KeyEvent) /\ Len(queue) \in Nat \ {0} /\ Len(queue') = Len(queue) - 1
      /\ DOMAIN queue = 1 .. Len(queue) /\ DOMAIN queue' = 1 .. Len(queue) - 1
      /\ \A n \in 1 .. Len(queue) - 1 : queue'[n] = queue[n + 1]
  BY <1>1 DEF QueueInv
<1>3. \A key, n : n \in 0 .. Len(queue) - 1 =>
        (DownAfter(queue', bindDown', key, n) <=> DownAfter(queue, bindDown, key, n + 1))
  BY <1>1, EventHandled DEF QueueInv
<1>4. \A key \in Key : key \in supDown' <=> DownAfter(queue', bindDown', key, Len(queue'))
  <2>. SUFFICES ASSUME NEW key \in Key
                PROVE  key \in supDown' <=> DownAfter(queue', bindDown', key, Len(queue'))
    OBVIOUS
  <2>1. Len(queue') \in 0 .. Len(queue) - 1 /\ Len(queue') + 1 = Len(queue)
    BY <1>2
  <2>2. DownAfter(queue', bindDown', key, Len(queue')) <=> DownAfter(queue, bindDown, key, Len(queue))
    BY <1>3, <2>1
  <2>. QED
    BY <1>1, <2>2 DEF QueueInv
<1>5. \A n \in DOMAIN queue' :
        queue'[n].fresh <=> ~DownAfter(queue', bindDown', queue'[n].key, n - 1)
  <2>. SUFFICES ASSUME NEW n \in 1 .. Len(queue) - 1
                PROVE  queue'[n].fresh <=> ~DownAfter(queue', bindDown', queue'[n].key, n - 1)
    BY <1>2
  <2>1. /\ n + 1 \in DOMAIN queue /\ queue'[n] = queue[n + 1] /\ n + 1 - 1 = n
        /\ n - 1 \in 0 .. Len(queue) - 1 /\ n - 1 + 1 = n
    BY <1>2
  <2>2. queue[n + 1].fresh <=> ~DownAfter(queue, bindDown, queue[n + 1].key, n)
    BY <2>1 DEF QueueInv
  <2>3. DownAfter(queue', bindDown', queue[n + 1].key, n - 1)
          <=> DownAfter(queue, bindDown, queue[n + 1].key, n)
    BY <1>3, <2>1
  <2>. QED
    BY <2>1, <2>2, <2>3
<1>. QED
  BY <1>2, <1>4, <1>5 DEF QueueInv

LEMMA QueueInvInductive == Init /\ [][Next]_vars => []QueueInv
<1>1. QueueInv /\ [Next]_vars => QueueInv'
  <2>. SUFFICES ASSUME QueueInv, [Next]_vars PROVE QueueInv'
    OBVIOUS
  <2>1. CASE Keyboard
    BY <2>1, KeyChangeKeepsQueue
       DEF Keyboard, KeyPressed, KeyRepeats, KeyReleased, firingVars
  <2>2. CASE process_keybinds
    BY <2>2, HandlingKeepsQueue
  <2>3. CASE UNCHANGED <<queue, supDown, bindDown>>
    BY <2>3 DEF QueueInv
  <2>4. CASE Script \/ RunCallback \/ CallbackReturns \/ LoopEnds \/ UNCHANGED vars
    BY <2>3, <2>4 DEF Script, RunCallback, CallbackReturns, LoopEnds, keyboardVars, vars
  <2>. QED
    BY <2>1, <2>2, <2>4 DEF Next, Worker
<1>. QED
  BY <1>1, QueueInit, PTL

\* The bindings see what the hook saw, only later: the events waiting turn keybind.down
\* into suppress.down, also when Windows does not wait for the hook.
THEOREM BindingsFollowHook == Spec => []KeybindsFollowHook
<1>1. QueueInv => KeybindsFollowHook
  <2>. SUFFICES ASSUME QueueInv PROVE KeybindsFollowHook
    OBVIOUS
  <2>1. DOMAIN queue = 1 .. Len(queue)
    BY DEF QueueInv
  <2>. QED
    BY <2>1 DEF QueueInv, KeybindsFollowHook, DownAfter, About
<1>. QED
  BY <1>1, QueueInvInductive, PTL DEF Spec

-----------------------------------------------------------------------------
(* The keys held.                                                          *)

\* Before there is a hook nothing is noted.
HeldInv ==
  /\ held \in Seq(Key)
  /\ ~listening => supDown = {}
  /\ NoPhantomKey

LEMMA Joined ==
  ASSUME NEW S, NEW front \in Seq(S), NEW back \in Seq(S)
  PROVE  /\ front \o back \in Seq(S)
         /\ Elements(front) \cup Elements(back) \subseteq Elements(front \o back)
<1>. DEFINE r == front \o back
<1>1. /\ Len(front) \in Nat /\ Len(back) \in Nat
      /\ DOMAIN front = 1 .. Len(front) /\ DOMAIN back = 1 .. Len(back)
  OBVIOUS
<1>2. /\ r \in Seq(S) /\ DOMAIN r = 1 .. Len(front) + Len(back)
      /\ \A m \in 1 .. Len(front) + Len(back) :
           r[m] = IF m <= Len(front) THEN front[m] ELSE back[m - Len(front)]
  OBVIOUS
<1>. HIDE DEF r
<1>3. ASSUME NEW m \in DOMAIN front PROVE m \in DOMAIN r /\ r[m] = front[m]
  BY <1>1, <1>2
<1>4. ASSUME NEW m \in DOMAIN back
      PROVE  m + Len(front) \in DOMAIN r /\ r[m + Len(front)] = back[m]
  BY <1>1, <1>2
<1>5. Elements(front) \cup Elements(back) \subseteq Elements(r)
  BY <1>3, <1>4 DEF Elements
<1>. QED
  BY <1>2, <1>5 DEF r

LEMMA OthersStayHeld ==
  ASSUME NEW s \in Seq(Key), NEW n \in DOMAIN s
  PROVE  RemoveAt(s, n) \in Seq(Key) /\ Elements(s) \ {s[n]} \subseteq Elements(RemoveAt(s, n))
<1>. DEFINE front == SubSeq(s, 1, n - 1)
            back  == SubSeq(s, n + 1, Len(s))
<1>1. Len(s) \in Nat /\ DOMAIN s = 1 .. Len(s) /\ n \in 1 .. Len(s)
  OBVIOUS
<1>2. front \in Seq(Key) /\ DOMAIN front = 1 .. n - 1 /\ \A m \in 1 .. n - 1 : front[m] = s[m]
  BY <1>1
<1>3. /\ back \in Seq(Key) /\ DOMAIN back = 1 .. Len(s) - n
      /\ \A m \in 1 .. Len(s) - n : back[m] = s[m + n]
  BY <1>1
<1>4. RemoveAt(s, n) = front \o back
  BY DEF RemoveAt
<1>. HIDE DEF front, back
<1>5. ASSUME NEW m \in DOMAIN s, m # n PROVE s[m] \in Elements(front) \cup Elements(back)
  <2>1. CASE m < n
    BY <1>1, <1>2, <2>1 DEF Elements
  <2>2. CASE m > n
    <3>1. m - n \in DOMAIN back /\ back[m - n] = s[m]
      BY <1>1, <1>3, <2>2
    <3>. QED
      BY <3>1 DEF Elements
  <2>. QED
    BY <1>1, <1>5, <2>1, <2>2
<1>6. Elements(s) \ {s[n]} \subseteq Elements(front) \cup Elements(back)
  BY <1>5 DEF Elements
<1>. QED
  BY <1>2, <1>3, <1>4, <1>6, Joined

LEMMA KeyboardKeepsHeld ==
  ASSUME "timeout" \notin Faults, HeldInv, Keyboard
  PROVE  HeldInv'
<1>1. listening' = listening
  BY DEF Keyboard, tableVars
<1>2. ASSUME NEW key \in Key, NEW down \in BOOLEAN, KeyChanges(key, down)
      PROVE  /\ supDown' \subseteq WithKey(supDown, key, down)
             /\ ~listening => supDown' = supDown
  BY <1>2 DEF KeyChanges, suppress_cb, HeldInv, WithKey
<1>3. PICK key \in Key : KeyPressed(key) \/ KeyRepeats(key) \/ KeyReleased(key)
  BY DEF Keyboard
<1>4. CASE KeyPressed(key)
  <2>1. held' = Append(held, key) /\ held \in Seq(Key)
    BY <1>4 DEF KeyPressed, HeldInv
  <2>2. /\ held' \in Seq(Key) /\ DOMAIN held \subseteq DOMAIN held' /\ Len(held) + 1 \in DOMAIN held'
        /\ held'[Len(held) + 1] = key /\ \A n \in DOMAIN held : held'[n] = held[n]
    BY <2>1
  <2>3. Elements(held) \cup {key} \subseteq Elements(held')
    BY <2>2 DEF Elements
  <2>4. supDown' \subseteq supDown \cup {key}
    BY <1>2, <1>4 DEF KeyPressed, WithKey
  <2>. QED
    BY <1>1, <1>2, <1>4, <2>2, <2>3, <2>4 DEF KeyPressed, HeldInv, NoPhantomKey
<1>5. CASE KeyRepeats(key)
  <2>1. held' = held /\ Len(held) \in DOMAIN held /\ held[Len(held)] = key
    BY <1>5 DEF KeyRepeats, HeldInv
  <2>2. key \in Elements(held)
    BY <2>1 DEF Elements
  <2>3. supDown' \subseteq supDown \cup {key}
    BY <1>2, <1>5 DEF KeyRepeats, WithKey
  <2>. QED
    BY <1>1, <1>2, <1>5, <2>1, <2>2, <2>3 DEF KeyRepeats, HeldInv, NoPhantomKey
<1>6. CASE KeyReleased(key)
  <2>1. PICK n \in DOMAIN held : held[n] = key /\ held' = RemoveAt(held, n)
    BY <1>6 DEF KeyReleased
  <2>2. held' \in Seq(Key) /\ Elements(held) \ {key} \subseteq Elements(held')
    BY <2>1, OthersStayHeld DEF HeldInv
  <2>3. KeyChanges(key, FALSE)
    BY <1>6 DEF KeyReleased
  <2>4. supDown' \subseteq supDown \ {key} /\ (~listening => supDown' = supDown)
    BY <1>2, <2>3 DEF WithKey
  <2>. QED
    BY <1>1, <2>2, <2>4 DEF HeldInv, NoPhantomKey
<1>. QED
  BY <1>3, <1>4, <1>5, <1>6

LEMMA HeldInvInductive ==
  ASSUME "timeout" \notin Faults
  PROVE  Init /\ [][Next]_vars => []HeldInv
<1>1. Init => HeldInv
  BY DEF Init, HeldInv, NoPhantomKey
<1>2. HeldInv /\ [Next]_vars => HeldInv'
  <2>. SUFFICES ASSUME HeldInv, [Next]_vars PROVE HeldInv'
    OBVIOUS
  <2>1. ASSUME UNCHANGED <<held, supDown>>, listening => listening' PROVE HeldInv'
    BY <2>1 DEF HeldInv, NoPhantomKey
  <2>2. CASE Keyboard
    BY <2>2, KeyboardKeepsHeld
  <2>3. CASE Script
    <3>1. listening => listening'
      BY <2>3 DEF Script, Suppressing, Rebinding, l_supress_key, l_unsupress_key,
                  l_register_keybind, l_unregister_keybind
    <3>. QED
      BY <2>1, <2>3, <3>1 DEF Script, keyboardVars
  <2>4. CASE Worker \/ UNCHANGED vars
    BY <2>1, <2>4 DEF Worker, process_keybinds, RunCallback, CallbackReturns, LoopEnds,
                      keyboardVars, tableVars, vars
  <2>. QED
    BY <2>2, <2>3, <2>4 DEF Next
<1>. QED
  BY <1>1, <1>2, PTL

\* As long as Windows waits for the hook, the hook takes no key for down that the user
\* does not hold, whatever is suppressed and in which order keys are released.
THEOREM NoPhantom ==
  ASSUME "timeout" \notin Faults
  PROVE  Spec => []NoPhantomKey
<1>1. HeldInv => NoPhantomKey
  BY DEF HeldInv
<1>. QED
  BY <1>1, HeldInvInductive, PTL DEF Spec

-----------------------------------------------------------------------------
(* The applications.  Where keys are released in reverse order and         *)
(* suppressions wait until none is held, the keys held under a key are the *)
(* same at its press and at its release, so that the hook decides on both  *)
(* alike.                                                                  *)

HeldUnder(s, n) == {s[m] : m \in 1 .. n - 1}

SwallowedAt(n) ==
  \E c \in Elements(suppressed) : combo_triggered(held[n], c, HeldUnder(held, n))

\* Without suppressions nothing is known of supDown: the hook may have come late.
CarefulInv ==
  /\ suppressed \in Seq(Suppressible)
  /\ suppressed # <<>> => listening /\ supDown = Elements(held)
  /\ \A m, n \in DOMAIN held : held[m] = held[n] => m = n
  /\ NoStuckKey
  /\ \A n \in DOMAIN held : SwallowedAt(n) => held[n] \notin app

\* What the hook does to a key, in terms of the keys held.
LEMMA HookDecides ==
  ASSUME "timeout" \notin Faults, CarefulInv, NEW key \in Key, NEW down \in BOOLEAN,
         KeyChanges(key, down)
  PROVE  LET now == WithKey(Elements(held), key, down)
             swallowed == \E c \in Elements(suppressed) : combo_triggered(key, c, now)
         IN  /\ app' = IF swallowed THEN app ELSE WithKey(app, key, down)
             /\ suppressed # <<>> => supDown' = now
<1>1. CASE suppressed = <<>>
  <2>1. Elements(suppressed) = {}
    BY <1>1 DEF Elements
  <2>. QED
    BY <1>1, <2>1 DEF KeyChanges, suppress_cb
<1>2. CASE suppressed # <<>>
  <2>1. listening /\ supDown = Elements(held)
    BY <1>2 DEF CarefulInv
  <2>2. suppress_cb(key, down)
    BY <2>1 DEF KeyChanges
  <2>3. supDown' = WithKey(Elements(held), key, down)
    BY <2>1, <2>2 DEF suppress_cb
  <2>. QED
    BY <2>2, <2>3 DEF suppress_cb
<1>. QED
  BY <1>1, <1>2

\* A new key goes on top of those held.
LEMMA PressedOnTop ==
  ASSUME NEW s \in Seq(Key), NEW key \in Key
  PROVE  LET t == Append(s, key)
         IN  /\ DOMAIN t = DOMAIN s \cup {Len(s) + 1} /\ DOMAIN s = 1 .. Len(s)
             /\ \A n \in DOMAIN s : t[n] = s[n] /\ HeldUnder(t, n) = HeldUnder(s, n)
             /\ t[Len(s) + 1] = key /\ HeldUnder(t, Len(s) + 1) = Elements(s)
             /\ Elements(t) = Elements(s) \cup {key}
<1>. DEFINE t == Append(s, key)
<1>1. /\ DOMAIN s = 1 .. Len(s) /\ Len(s) \in Nat
      /\ DOMAIN t = DOMAIN s \cup {Len(s) + 1}
      /\ \A n \in DOMAIN s : t[n] = s[n]
      /\ t[Len(s) + 1] = key
  OBVIOUS
<1>. HIDE DEF t
<1>2. ASSUME NEW n \in DOMAIN s PROVE HeldUnder(t, n) = HeldUnder(s, n)
  <2>1. \A m \in 1 .. n - 1 : m \in DOMAIN s
    BY <1>1
  <2>. QED
    BY <1>1, <2>1 DEF HeldUnder
<1>3. HeldUnder(t, Len(s) + 1) = Elements(s)
  <2>1. 1 .. Len(s) + 1 - 1 = DOMAIN s
    BY <1>1
  <2>. QED
    BY <1>1, <2>1 DEF HeldUnder, Elements
<1>4. Elements(t) = Elements(s) \cup {key}
  BY <1>1 DEF Elements
<1>. QED
  BY <1>1, <1>2, <1>3, <1>4 DEF t

\* The key on top leaves those under it.
LEMMA ReleasedFromTop ==
  ASSUME NEW s \in Seq(Key), s # <<>>, \A m, n \in DOMAIN s : s[m] = s[n] => m = n
  PROVE  LET t == RemoveAt(s, Len(s))
         IN  /\ DOMAIN t = 1 .. Len(s) - 1 /\ DOMAIN s = 1 .. Len(s) /\ Len(s) \in DOMAIN s
             /\ \A n \in DOMAIN t : n \in DOMAIN s /\ t[n] = s[n] /\ HeldUnder(t, n) = HeldUnder(s, n)
             /\ Elements(t) = HeldUnder(s, Len(s))
             /\ Elements(t) = Elements(s) \ {s[Len(s)]}
<1>. DEFINE t == RemoveAt(s, Len(s))
<1>1. Len(s) \in Nat \ {0} /\ DOMAIN s = 1 .. Len(s) /\ Len(s) \in DOMAIN s
  OBVIOUS
<1>2. t = SubSeq(s, 1, Len(s) - 1) \o SubSeq(s, Len(s) + 1, Len(s))
  BY DEF RemoveAt
<1>3. /\ SubSeq(s, 1, Len(s) - 1) \in Seq(Key) /\ Len(SubSeq(s, 1, Len(s) - 1)) = Len(s) - 1
      /\ \A n \in 1 .. Len(s) - 1 : SubSeq(s, 1, Len(s) - 1)[n] = s[n]
  BY <1>1
<1>4. SubSeq(s, Len(s) + 1, Len(s)) = <<>>
  BY <1>1
<1>5. t = SubSeq(s, 1, Len(s) - 1)
  BY <1>2, <1>3, <1>4
<1>6. DOMAIN t = 1 .. Len(s) - 1 /\ \A n \in 1 .. Len(s) - 1 : t[n] = s[n]
  BY <1>1, <1>3, <1>5
<1>. HIDE DEF t
<1>7. ASSUME NEW n \in DOMAIN t
      PROVE  n \in DOMAIN s /\ t[n] = s[n] /\ HeldUnder(t, n) = HeldUnder(s, n)
  <2>1. n \in DOMAIN s /\ \A m \in 1 .. n - 1 : m \in 1 .. Len(s) - 1
    BY <1>1, <1>6
  <2>. QED
    BY <1>6, <2>1 DEF HeldUnder
<1>8. Elements(t) = HeldUnder(s, Len(s))
  BY <1>6 DEF Elements, HeldUnder
<1>9. Elements(t) = Elements(s) \ {s[Len(s)]}
  <2>1. DOMAIN s = DOMAIN t \cup {Len(s)} /\ Len(s) \notin DOMAIN t
    BY <1>1, <1>6
  <2>2. \A n \in DOMAIN t : s[n] # s[Len(s)]
    BY <1>1, <2>1
  <2>3. Elements(t) = {s[n] : n \in DOMAIN t}
    BY <1>6 DEF Elements
  <2>4. Elements(s) = {s[n] : n \in DOMAIN t} \cup {s[Len(s)]}
    BY <2>1 DEF Elements
  <2>5. s[Len(s)] \notin {s[n] : n \in DOMAIN t}
    BY <2>2
  <2>. QED
    BY <2>3, <2>4, <2>5
<1>. QED
  BY <1>1, <1>6, <1>7, <1>8, <1>9 DEF t

LEMMA PressKeepsCare ==
  ASSUME "timeout" \notin Faults, HeldInv, CarefulInv, NEW key \in Key, KeyPressed(key),
         UNCHANGED <<listening, suppressed>>
  PROVE  CarefulInv'
<1>. DEFINE now == WithKey(Elements(held), key, TRUE)
            swallowed == \E c \in Elements(suppressed) : combo_triggered(key, c, now)
<1>1. held \in Seq(Key) /\ key \notin Elements(held) /\ held' = Append(held, key)
  BY DEF HeldInv, KeyPressed
<1>2. /\ app' = IF swallowed THEN app ELSE WithKey(app, key, TRUE)
      /\ suppressed # <<>> => supDown' = now
  BY HookDecides DEF KeyPressed
<1>3. /\ DOMAIN held' = DOMAIN held \cup {Len(held) + 1} /\ DOMAIN held = 1 .. Len(held)
      /\ \A n \in DOMAIN held :
           held'[n] = held[n] /\ HeldUnder(held', n) = HeldUnder(held, n)
      /\ held'[Len(held) + 1] = key /\ HeldUnder(held', Len(held) + 1) = Elements(held)
      /\ Elements(held') = Elements(held) \cup {key}
  BY <1>1, PressedOnTop
<1>4. now = Elements(held')
  BY <1>3 DEF WithKey
<1>5. app' \subseteq app \cup {key} /\ (swallowed => app' = app)
  BY <1>2 DEF WithKey
<1>6. app \subseteq Elements(held)
  BY DEF CarefulInv, NoStuckKey
<1>7. ASSUME NEW n \in DOMAIN held', SwallowedAt(n)' PROVE held'[n] \notin app'
  <2>1. PICK c \in Elements(suppressed) : combo_triggered(held'[n], c, HeldUnder(held', n))
    BY <1>7 DEF SwallowedAt
  <2>2. CASE n \in DOMAIN held
    <3>1. SwallowedAt(n)
      BY <1>3, <2>1, <2>2 DEF SwallowedAt
    <3>2. held[n] \notin app /\ held[n] # key
      BY <1>1, <2>2, <3>1 DEF CarefulInv, Elements
    <3>. QED
      BY <1>3, <1>5, <2>2, <3>2
  <2>3. CASE n = Len(held) + 1
    <3>1. combo_triggered(key, c, now)
      <4>1. held'[n] = key /\ HeldUnder(held', n) = Elements(held)
        BY <1>3, <2>3
      <4>2. combo_triggered(key, c, Elements(held))
        BY <2>1, <4>1
      <4>3. now = Elements(held) \cup {key}
        BY <1>3, <1>4
      <4>. HIDE DEF now
      <4>. QED
        BY <4>2, <4>3 DEF combo_triggered
    <3>2. app' = app
      BY <1>5, <3>1
    <3>. QED
      BY <1>1, <1>3, <1>6, <2>3, <3>2
  <2>. QED
    BY <1>3, <2>2, <2>3
<1>8. \A m, n \in DOMAIN held' : held'[m] = held'[n] => m = n
  <2>1. \A n \in DOMAIN held : held[n] # key
    BY <1>1 DEF Elements
  <2>. QED
    BY <1>3, <2>1 DEF CarefulInv
<1>9. NoStuckKey'
  BY <1>3, <1>5, <1>6 DEF NoStuckKey
<1>10. suppressed' # <<>> => listening' /\ supDown' = Elements(held')
  BY <1>2, <1>4 DEF CarefulInv
<1>. QED
  BY <1>7, <1>8, <1>9, <1>10 DEF CarefulInv

LEMMA RepeatKeepsCare ==
  ASSUME "timeout" \notin Faults, HeldInv, CarefulInv, NEW key \in Key, KeyRepeats(key),
         UNCHANGED <<listening, suppressed>>
  PROVE  CarefulInv'
<1>. DEFINE now == WithKey(Elements(held), key, TRUE)
            swallowed == \E c \in Elements(suppressed) : combo_triggered(key, c, now)
<1>1. held' = held /\ Len(held) \in DOMAIN held /\ DOMAIN held = 1 .. Len(held) /\ held[Len(held)] = key
  BY DEF HeldInv, KeyRepeats
<1>2. /\ app' = IF swallowed THEN app ELSE WithKey(app, key, TRUE)
      /\ suppressed # <<>> => supDown' = now
  BY HookDecides DEF KeyRepeats
<1>3. now = Elements(held)
  BY <1>1 DEF WithKey, Elements
<1>4. app' \subseteq app \cup {key} /\ (swallowed => app' = app)
  BY <1>2 DEF WithKey
<1>5. ASSUME NEW n \in DOMAIN held, SwallowedAt(n) PROVE held[n] \notin app'
  <2>1. held[n] \notin app
    BY <1>5 DEF CarefulInv
  <2>2. CASE n = Len(held)
    <3>1. PICK c \in Elements(suppressed) : combo_triggered(held[n], c, HeldUnder(held, n))
      BY <1>5 DEF SwallowedAt
    <3>2. HeldUnder(held, n) \subseteq Elements(held)
      BY <1>1, <2>2 DEF HeldUnder, Elements
    <3>3. combo_triggered(key, c, now)
      BY <1>1, <1>3, <2>2, <3>1, <3>2 DEF combo_triggered
    <3>. QED
      BY <1>4, <2>1, <3>3
  <2>3. CASE n # Len(held)
    <3>1. held[n] # key
      BY <1>1, <2>3 DEF CarefulInv
    <3>. QED
      BY <1>4, <2>1, <3>1
  <2>. QED
    BY <2>2, <2>3
<1>6. \A n \in DOMAIN held' : SwallowedAt(n)' => held'[n] \notin app'
  BY <1>1, <1>5 DEF SwallowedAt
<1>7. NoStuckKey'
  <2>1. key \in Elements(held)
    BY <1>1 DEF Elements
  <2>. QED
    BY <1>1, <1>4, <2>1 DEF CarefulInv, NoStuckKey
<1>8. suppressed' # <<>> => listening' /\ supDown' = Elements(held')
  BY <1>1, <1>2, <1>3 DEF CarefulInv
<1>. QED
  BY <1>1, <1>6, <1>7, <1>8 DEF CarefulInv

LEMMA ReleaseKeepsCare ==
  ASSUME Careful, "timeout" \notin Faults, HeldInv, CarefulInv, NEW key \in Key, KeyReleased(key),
         UNCHANGED <<listening, suppressed>>
  PROVE  CarefulInv'
<1>. DEFINE now == WithKey(Elements(held), key, FALSE)
            swallowed == \E c \in Elements(suppressed) : combo_triggered(key, c, now)
<1>1. held \in Seq(Key) /\ held # <<>> /\ key = held[Len(held)] /\ held' = RemoveAt(held, Len(held))
  BY DEF HeldInv, KeyReleased
<1>2. /\ app' = IF swallowed THEN app ELSE WithKey(app, key, FALSE)
      /\ suppressed # <<>> => supDown' = now
  BY HookDecides DEF KeyReleased
<1>3. \A m, n \in DOMAIN held : held[m] = held[n] => m = n
  BY DEF CarefulInv
<1>4. /\ DOMAIN held' = 1 .. Len(held) - 1 /\ DOMAIN held = 1 .. Len(held) /\ Len(held) \in DOMAIN held
      /\ \A n \in DOMAIN held' :
           n \in DOMAIN held /\ held'[n] = held[n] /\ HeldUnder(held', n) = HeldUnder(held, n)
      /\ Elements(held') = HeldUnder(held, Len(held))
      /\ Elements(held') = Elements(held) \ {key}
  BY <1>1, <1>3, ReleasedFromTop
<1>5. now = Elements(held')
  BY <1>4 DEF WithKey
<1>6. app' \subseteq app
  BY <1>2 DEF WithKey
<1>7. key \notin app'
  <2>1. CASE swallowed
    <3>1. SwallowedAt(Len(held))
      BY <1>1, <1>4, <1>5, <2>1 DEF SwallowedAt
    <3>2. key \notin app
      BY <1>1, <1>4, <3>1 DEF CarefulInv
    <3>. QED
      BY <1>6, <3>2
  <2>2. CASE ~swallowed
    BY <1>2, <2>2 DEF WithKey
  <2>. QED
    BY <2>1, <2>2
<1>8. NoStuckKey'
  BY <1>4, <1>6, <1>7 DEF CarefulInv, NoStuckKey
<1>9. ASSUME NEW n \in DOMAIN held', SwallowedAt(n)' PROVE held'[n] \notin app'
  <2>1. SwallowedAt(n)
    BY <1>4, <1>9 DEF SwallowedAt
  <2>. QED
    BY <1>4, <1>6, <2>1 DEF CarefulInv
<1>10. suppressed' # <<>> => listening' /\ supDown' = Elements(held')
  BY <1>2, <1>5 DEF CarefulInv
<1>11. \A m, n \in DOMAIN held' : held'[m] = held'[n] => m = n
  BY <1>3, <1>4
<1>. QED
  BY <1>8, <1>9, <1>10, <1>11 DEF CarefulInv

\* Where a suppression changes no key is held, and so none is down for anyone.
LEMMA SuppressingKeepsCare ==
  ASSUME Careful, HeldInv, CarefulInv, Suppressing, UNCHANGED keyboardVars
  PROVE  CarefulInv'
<1>1. held = <<>> /\ Elements(held) = {} /\ DOMAIN held = {}
  BY DEF Suppressing, Elements
<1>2. app = {} /\ supDown = {}
  BY <1>1 DEF CarefulInv, NoStuckKey, HeldInv, NoPhantomKey
<1>3. suppressed' \in Seq(Suppressible) /\ (suppressed' # <<>> => listening')
  <2>1. PICK c \in Suppressible : l_supress_key(c) \/ l_unsupress_key(c)
    BY DEF Suppressing
  <2>2. suppressed \in Seq(Suppressible) /\ (suppressed # <<>> => listening)
    BY DEF CarefulInv
  <2>3. CASE l_supress_key(c)
    <3>1. PICK failed \in MayFail("input") :
            /\ listening' = (listening \/ ~failed)
            /\ suppressed' = IF failed \/ Len(suppressed) >= SuppressMax
                             THEN suppressed ELSE Append(suppressed, c)
      BY <2>3 DEF l_supress_key
    <3>2. failed \in BOOLEAN
      BY DEF MayFail
    <3>3. CASE suppressed' = suppressed
      BY <2>2, <3>1, <3>3
    <3>4. CASE ~failed /\ suppressed' = Append(suppressed, c)
      <4>1. suppressed' \in Seq(Suppressible)
        BY <2>2, <3>4
      <4>2. listening'
        BY <3>1, <3>4, Zenon
      <4>. QED
        BY <4>1, <4>2
    <3>. QED
      BY <3>1, <3>2, <3>3, <3>4
  <2>4. CASE l_unsupress_key(c)
    <3>1. suppressed' = Without(suppressed, {c}) /\ listening' = listening
      BY <2>4 DEF l_unsupress_key
    <3>2. suppressed' \in Seq(Suppressible) /\ Len(suppressed') <= Len(suppressed)
      BY <2>2, <3>1, WithoutIs
    <3>3. suppressed = <<>> => suppressed' = <<>>
      BY <2>2, <3>2
    <3>. QED
      BY <2>2, <3>1, <3>2, <3>3
  <2>. QED
    BY <2>1, <2>3, <2>4
<1>. QED
  BY <1>1, <1>2, <1>3 DEF CarefulInv, NoStuckKey, keyboardVars, Elements

LEMMA CarefulInvNext ==
  ASSUME Careful, "timeout" \notin Faults, HeldInv, CarefulInv, [Next]_vars
  PROVE  CarefulInv'
<1>1. ASSUME UNCHANGED <<held, app, supDown, suppressed>>, listening => listening'
      PROVE  CarefulInv'
  BY <1>1 DEF CarefulInv, NoStuckKey, SwallowedAt
<1>2. CASE Keyboard
  <2>1. UNCHANGED <<listening, suppressed>>
    BY <1>2 DEF Keyboard, tableVars
  <2>2. PICK key \in Key : KeyPressed(key) \/ KeyRepeats(key) \/ KeyReleased(key)
    BY <1>2 DEF Keyboard
  <2>. QED
    BY <2>1, <2>2, PressKeepsCare, RepeatKeepsCare, ReleaseKeepsCare
<1>3. CASE Script /\ Suppressing
  BY <1>3, SuppressingKeepsCare DEF Script
<1>4. CASE Script /\ Rebinding
  <2>1. UNCHANGED <<held, app, supDown>>
    BY <1>4 DEF Script, keyboardVars
  <2>2. UNCHANGED suppressed
    BY <1>4 DEF Rebinding, l_register_keybind, l_unregister_keybind
  <2>3. listening => listening'
    BY <1>4 DEF Rebinding, l_register_keybind, l_unregister_keybind
  <2>. QED
    BY <1>1, <2>1, <2>2, <2>3
<1>5. CASE Worker \/ UNCHANGED vars
  BY <1>1, <1>5 DEF Worker, process_keybinds, RunCallback, CallbackReturns, LoopEnds,
                    keyboardVars, tableVars, vars
<1>. QED
  BY <1>2, <1>3, <1>4, <1>5 DEF Next, Script

\* No application is left with a key down that the user has released, as long as Windows
\* waits for the hook, keys are released in reverse order and suppressions change while
\* none is held; whatever is suppressed, and whatever else the scripts bind meanwhile
\* (input.c:84-97, 182-217).
THEOREM NoKeyStuck ==
  ASSUME Careful, "timeout" \notin Faults
  PROVE  Spec => []NoStuckKey
<1>1. Init => CarefulInv
  BY DEF Init, CarefulInv, NoStuckKey, Elements
<1>2. HeldInv /\ CarefulInv /\ [Next]_vars => CarefulInv'
  BY CarefulInvNext
<1>3. CarefulInv => NoStuckKey
  BY DEF CarefulInv
<1>. QED
  BY <1>1, <1>2, <1>3, HeldInvInductive, PTL DEF Spec

-----------------------------------------------------------------------------
(* The loop over the bindings.                                              *)

\* The bindings the loop has passed, the one whose callback is under way included.
Passed == {n \in DOMAIN binds : n < index \/ (pc = "callback" /\ n = index)}

\* As long as no callback has changed the bindings, the loop is after the combos that are
\* due, and has run those it has passed.
LoopOnCourse ==
  /\ due = {c \in TriggeredBy(press.key, bindDown) : Len(c) = press.best}
  /\ \A c \in Bindable :
       fired[c] = IF c \in due /\ \E n \in Passed : binds[n].combo = c THEN 1 ELSE 0

FireInv ==
  /\ fired \in [Bindable -> 0 .. 2]
  /\ index \in Nat \ {0}
  /\ pc \in {"idle", "fire", "callback"}
  /\ pc = "idle" => index = 1
  /\ intact => IF pc = "idle" THEN RunsWhatIsDue ELSE LoopOnCourse

\* A set of lengths up to 4 has a longest.
LEMMA LongestOf ==
  ASSUME NEW T, T \subseteq 0 .. 4, 0 \in T
  PROVE  \E n \in T : \A m \in T : m <= n
<1>1. CASE 4 \in T
  BY <1>1
<1>2. CASE 4 \notin T /\ 3 \in T
  BY <1>2
<1>3. CASE 4 \notin T /\ 3 \notin T /\ 2 \in T
  BY <1>3
<1>4. CASE 4 \notin T /\ 3 \notin T /\ 2 \notin T /\ 1 \in T
  BY <1>4
<1>5. CASE 4 \notin T /\ 3 \notin T /\ 2 \notin T /\ 1 \notin T
  BY <1>5
<1>. QED
  BY <1>1, <1>2, <1>3, <1>4, <1>5

\* The combos with the length of the best are those that no other is longer than.
LEMMA BestIsMostSpecific ==
  ASSUME TableInv, NEW key, NEW down
  PROVE  /\ MostSpecific(key, down) = {c \in TriggeredBy(key, down) : Len(c) = BestLength(key, down)}
         /\ BestLength(key, down) \in 0 .. 4
<1>. DEFINE ran == TriggeredBy(key, down)
            lengths == {Len(c) : c \in ran} \cup {0}
            best == BestLength(key, down)
<1>1. \A c \in ran : Len(c) \in 0 .. 4
  <2>. SUFFICES ASSUME NEW c \in ran PROVE Len(c) \in 0 .. 4
    OBVIOUS
  <2>1. PICK m \in DOMAIN binds : c = binds[m].combo
    BY DEF TriggeredBy, BoundCombos
  <2>2. binds[m] \in Binding
    BY DEF TableInv, BindsTyped
  <2>3. c \in Combo
    BY <2>1, <2>2, KeyAssumption DEF Binding
  <2>4. c \in Seq(Key) /\ Len(c) <= 4
    BY <2>3, KeyAssumption
  <2>5. \E n \in Nat : n = Len(c)
    BY <2>4
  <2>6. \A n \in Nat : n <= 4 => n \in 0 .. 4
    OBVIOUS
  <2>. QED
    BY <2>4, <2>5, <2>6, Zenon
<1>2. best = CHOOSE n \in lengths : \A m \in lengths : m <= n
  BY DEF BestLength
<1>. HIDE DEF ran, best
<1>3. 0 \in lengths /\ \A c \in ran : Len(c) \in lengths
  OBVIOUS
<1>4. \A n \in lengths : n = 0 \/ \E c \in ran : n = Len(c)
  OBVIOUS
<1>5. ASSUME NEW n \in lengths PROVE n \in 0 .. 4
  <2>1. 0 \in 0 .. 4
    OBVIOUS
  <2>. QED
    BY <1>1, <1>4, <2>1, Zenon
<1>. HIDE DEF lengths
<1>6. \E n \in lengths : \A m \in lengths : m <= n
  <2>1. lengths \subseteq 0 .. 4
    BY <1>5
  <2>. QED
    BY <1>3, <2>1, LongestOf
<1>7. best \in lengths /\ \A m \in lengths : m <= best
  BY <1>2, <1>6
<1>8. ASSUME NEW c \in ran
      PROVE  (\A d \in ran : Len(d) <= Len(c)) <=> Len(c) = best
  <2>1. \A d \in ran : Len(d) \in 0 .. 4 /\ Len(d) <= best
    BY <1>1, <1>3, <1>7
  <2>2. best \in 0 .. 4
    BY <1>5, <1>7
  <2>3. best = 0 \/ \E d \in ran : best = Len(d)
    BY <1>4, <1>7
  <2>. QED
    BY <2>1, <2>2, <2>3
<1>9. {c \in ran : \A d \in ran : Len(d) <= Len(c)} = {c \in ran : Len(c) = best}
  BY <1>8
<1>10. best \in 0 .. 4
  BY <1>5, <1>7
<1>. QED
  BY <1>9, <1>10 DEF MostSpecific, ran, best

LEMMA HandlingStartsOnCourse ==
  ASSUME TableInv, QueueInv, FireInv, process_keybinds
  PROVE  FireInv'
<1>. DEFINE e == Head(queue)
<1>1. /\ e.key \in Key
      /\ e.fresh <=> e.key \notin bindDown
  <2>1. e = queue[1] /\ 1 \in DOMAIN queue /\ e \in KeyEvent
    BY DEF process_keybinds, QueueInv
  <2>2. e.key \in Key
    BY <2>1 DEF KeyEvent
  <2>3. e.fresh <=> ~DownAfter(queue, bindDown, e.key, 0)
    BY <2>1 DEF QueueInv
  <2>4. DownAfter(queue, bindDown, e.key, 0) <=> e.key \in bindDown
    BY DEF DownAfter, About
  <2>. QED
    BY <2>2, <2>3, <2>4
<1>2. /\ pc = "idle" /\ index = 1 /\ index' = index /\ binds' = binds /\ intact'
      /\ fired' = [c \in Bindable |-> 0]
      /\ due' = IF e.down /\ e.fresh THEN MostSpecific(e.key, bindDown') ELSE {}
  BY DEF process_keybinds, FireInv, tableVars
<1>3. \A c \in Bindable : fired'[c] = 0
  BY <1>2
<1>4. CASE e.down /\ e.fresh
  <2>1. pc' = "fire" /\ press' = [key |-> e.key, best |-> BestLength(e.key, bindDown')]
    BY <1>1, <1>4 DEF process_keybinds
  <2>2. due' = {c \in TriggeredBy(e.key, bindDown') : Len(c) = BestLength(e.key, bindDown')}
    BY <1>2, <1>4, BestIsMostSpecific
  <2>3. press'.key = e.key /\ press'.best = BestLength(e.key, bindDown')
    BY <2>1
  <2>4. BoundCombos' = BoundCombos
    BY <1>2 DEF BoundCombos
  <2>5. (TriggeredBy(press.key, bindDown))' = TriggeredBy(e.key, bindDown')
    BY <2>3, <2>4 DEF TriggeredBy
  <2>6. due' = {c \in TriggeredBy(press.key, bindDown)' : Len(c) = press'.best}
    BY <2>2, <2>3, <2>5
  <2>7. Passed' = {}
    <3>1. DOMAIN binds = 1 .. Len(binds) /\ Len(binds) \in Nat
      BY DEF TableInv, BindsTyped
    <3>. QED
      BY <1>2, <2>1, <3>1 DEF Passed
  <2>8. LoopOnCourse'
    BY <1>3, <2>6, <2>7 DEF LoopOnCourse
  <2>. QED
    BY <1>2, <2>1, <2>8 DEF FireInv
<1>5. CASE ~(e.down /\ e.fresh)
  <2>1. pc' = pc
    BY <1>1, <1>5 DEF process_keybinds
  <2>2. due' = {}
    BY <1>2, <1>5
  <2>3. RunsWhatIsDue'
    BY <1>2, <2>2 DEF RunsWhatIsDue
  <2>. QED
    BY <1>2, <2>1, <2>3 DEF FireInv
<1>. QED
  BY <1>4, <1>5

\* The combos that are due, as bindings.
LEMMA DueIsBound ==
  ASSUME LoopOnCourse
  PROVE  /\ \A c \in due : \E n \in DOMAIN binds : binds[n].combo = c
         /\ \A n \in DOMAIN binds :
              binds[n].combo \in due <=>
                /\ Len(binds[n].combo) = press.best
                /\ combo_triggered(press.key, binds[n].combo, bindDown)
BY DEF LoopOnCourse, TriggeredBy, BoundCombos

LEMMA RunningStaysOnCourse ==
  ASSUME TableInv, FireInv, RunCallback
  PROVE  FireInv'
<1>1. PICK n \in Ahead :
        /\ \A m \in Ahead : n <= m
        /\ index' = n
        /\ fired' = [fired EXCEPT ![binds[n].combo] = IF @ = 0 THEN 1 ELSE 2]
  BY DEF RunCallback
<1>2. /\ pc = "fire" /\ pc' = "callback" /\ binds' = binds
      /\ UNCHANGED <<bindDown, press, due, intact>>
  BY DEF RunCallback, tableVars
<1>3. /\ n \in DOMAIN binds /\ n >= index /\ DOMAIN binds \subseteq Nat \ {0}
      /\ binds[n].combo \in Bindable /\ index \in Nat \ {0}
  <2>1. n \in DOMAIN binds /\ n >= index
    BY DEF Ahead
  <2>2. binds[n] \in Binding /\ DOMAIN binds \subseteq Nat \ {0}
    BY <2>1 DEF TableInv, BindsTyped
  <2>. QED
    BY <2>1, <2>2 DEF Binding, FireInv
<1>. DEFINE c == binds[n].combo
<1>4. fired' \in [Bindable -> 0 .. 2]
  <2>1. fired \in [Bindable -> 0 .. 2]
    BY DEF FireInv
  <2>. HIDE DEF c
  <2>2. fired' = [fired EXCEPT ![c] = IF fired[c] = 0 THEN 1 ELSE 2]
    BY <1>1 DEF c
  <2>3. c \in Bindable
    BY <1>3 DEF c
  <2>. QED
    BY <2>1, <2>2, <2>3
<1>5. ASSUME intact PROVE LoopOnCourse'
  <2>1. LoopOnCourse
    BY <1>2, <1>5 DEF FireInv
  <2>2. due' = {d \in TriggeredBy(press.key, bindDown)' : Len(d) = press'.best}
    <3>1. BoundCombos' = BoundCombos
      BY <1>2 DEF BoundCombos
    <3>2. TriggeredBy(press.key, bindDown)' = TriggeredBy(press.key, bindDown)
      BY <1>2, <3>1 DEF TriggeredBy
    <3>. QED
      BY <1>2, <2>1, <3>2 DEF LoopOnCourse
  <2>3. c \in due
    BY <1>3, <2>1, DueIsBound DEF Ahead
  <2>4. Passed = {m \in DOMAIN binds : m < index}
    BY <1>2 DEF Passed
  <2>5. Passed' = {m \in DOMAIN binds : m <= n}
    BY <1>1, <1>2, <1>3 DEF Passed
  <2>6. \A m \in DOMAIN binds : binds[m].combo = c => m = n
    BY <1>3 DEF TableInv, UniqueCombos
  <2>7. fired[c] = 0
    <3>1. ~ \E m \in Passed : binds[m].combo = c
      BY <1>3, <2>4, <2>6
    <3>. QED
      BY <1>3, <2>1, <3>1 DEF LoopOnCourse
  <2>8. fired'[c] = 1 /\ \A d \in Bindable \ {c} : fired'[d] = fired[d]
    BY <1>1, <1>3, <2>7 DEF FireInv
  <2>9. \E m \in Passed' : binds[m].combo = c
    BY <1>3, <2>5
  <2>10. ASSUME NEW d \in due, d # c
         PROVE  (\E m \in Passed' : binds[m].combo = d) <=> \E m \in Passed : binds[m].combo = d
    <3>1. \A m \in Passed : m \in Passed'
      BY <1>3, <2>4, <2>5
    <3>2. ASSUME NEW m \in Passed', binds[m].combo = d PROVE m \in Passed
      <4>1. m \in DOMAIN binds /\ m <= n /\ m # n
        BY <2>5, <2>10, <3>2
      <4>2. m \notin Ahead
        BY <1>1, <1>3, <4>1
      <4>3. m < index
        BY <1>3, <2>1, <2>10, <3>2, <4>1, <4>2, DueIsBound DEF Ahead
      <4>. QED
        BY <2>4, <4>1, <4>3
    <3>. QED
      BY <3>1, <3>2
  <2>11. \A d \in Bindable :
           fired'[d] = IF d \in due /\ \E m \in Passed' : binds[m].combo = d THEN 1 ELSE 0
    BY <2>1, <2>3, <2>8, <2>9, <2>10 DEF LoopOnCourse
  <2>. QED
    BY <1>2, <2>2, <2>11 DEF LoopOnCourse
<1>. QED
  BY <1>1, <1>2, <1>3, <1>4, <1>5 DEF FireInv

LEMMA EndingHasRunAll ==
  ASSUME TableInv, FireInv, LoopEnds
  PROVE  FireInv'
<1>1. pc = "fire" /\ pc' = "idle" /\ index' = 1 /\ Ahead = {} /\ UNCHANGED <<due, intact, fired>>
  BY DEF LoopEnds
<1>2. ASSUME intact PROVE RunsWhatIsDue'
  <2>1. LoopOnCourse /\ index \in Nat /\ DOMAIN binds \subseteq Nat
    BY <1>1, <1>2 DEF FireInv, TableInv, BindsTyped
  <2>2. \A c \in due : \E n \in Passed : binds[n].combo = c
    <3>. SUFFICES ASSUME NEW c \in due PROVE \E n \in Passed : binds[n].combo = c
      OBVIOUS
    <3>1. PICK n \in DOMAIN binds : binds[n].combo = c
      BY <2>1, DueIsBound
    <3>2. ~(n >= index)
      BY <1>1, <2>1, <3>1, DueIsBound DEF Ahead
    <3>3. n < index
      BY <2>1, <3>2
    <3>. QED
      BY <3>1, <3>3 DEF Passed
  <2>3. \A c \in Bindable : fired[c] = IF c \in due THEN 1 ELSE 0
    BY <2>1, <2>2 DEF LoopOnCourse
  <2>4. fired = [c \in Bindable |-> IF c \in due THEN 1 ELSE 0]
    BY <2>3 DEF FireInv
  <2>. QED
    BY <1>1, <2>4 DEF RunsWhatIsDue
<1>. QED
  BY <1>1, <1>2 DEF FireInv

LEMMA FireInvInductive == Init /\ [][Next]_vars => []FireInv
<1>1. Init => FireInv
  BY DEF Init, FireInv, RunsWhatIsDue
<1>2. TableInv /\ QueueInv /\ FireInv /\ [Next]_vars => FireInv'
  <2>. SUFFICES ASSUME TableInv, QueueInv, FireInv, [Next]_vars PROVE FireInv'
    OBVIOUS
  <2>1. CASE UNCHANGED <<binds, firingVars>>
    BY <2>1 DEF FireInv, RunsWhatIsDue, LoopOnCourse, Passed, TriggeredBy, BoundCombos,
                firingVars
  <2>2. CASE Keyboard \/ UNCHANGED vars
    BY <2>1, <2>2 DEF Keyboard, tableVars, firingVars, vars
  <2>3. CASE Script /\ Suppressing
    BY <2>1, <2>3 DEF Script, Suppressing, l_supress_key, l_unsupress_key, firingVars
  <2>4. CASE Script /\ Rebinding
    <3>1. /\ UNCHANGED <<pc, index, due, fired>>
          /\ intact' = (intact /\ pc # "callback")
          /\ pc \in {"idle", "callback"}
      BY <2>4 DEF Script, Rebinding
    <3>. QED
      BY <3>1 DEF FireInv, RunsWhatIsDue
  <2>5. CASE process_keybinds
    BY <2>5, HandlingStartsOnCourse
  <2>6. CASE RunCallback
    BY <2>6, RunningStaysOnCourse
  <2>7. CASE CallbackReturns
    <3>1. /\ pc = "callback" /\ pc' = "fire" /\ index' = index + 1 /\ binds' = binds
          /\ UNCHANGED <<bindDown, press, due, intact, fired>>
      BY <2>7 DEF CallbackReturns, tableVars
    <3>2. index \in Nat /\ DOMAIN binds \subseteq Nat
      BY DEF FireInv, TableInv, BindsTyped
    <3>3. Passed' = Passed
      BY <3>1, <3>2 DEF Passed
    <3>4. LoopOnCourse => LoopOnCourse'
      BY <3>1, <3>3 DEF LoopOnCourse, TriggeredBy, BoundCombos
    <3>. QED
      BY <3>1, <3>4 DEF FireInv
  <2>8. CASE LoopEnds
    BY <2>8, EndingHasRunAll
  <2>. QED
    BY <2>2, <2>3, <2>4, <2>5, <2>6, <2>7, <2>8 DEF Next, Script, Worker
<1>. QED
  BY <1>1, <1>2, TableInvInductive, QueueInvInductive, PTL

\* A fresh press runs each of the most specific combos it completes once and nothing
\* else, and a repeat or a release runs nothing, as long as no callback of the press
\* changes the bindings.
THEOREM PressRunsWhatIsDue == Spec => []RunsWhatIsDue
<1>1. FireInv => RunsWhatIsDue
  BY DEF FireInv, RunsWhatIsDue
<1>. QED
  BY <1>1, FireInvInductive, PTL DEF Spec

-----------------------------------------------------------------------------
(* Types.  What the other invariants do not say of them already.           *)

RestTyped ==
  /\ held \in Seq(Key) /\ app \subseteq Key
  /\ listening \in BOOLEAN
  /\ suppressed \in Seq(Suppressible) /\ Len(suppressed) <= SuppressMax
  /\ supDown \subseteq Key /\ bindDown \subseteq Key
  /\ press \in [key : Key, best : Nat]
  /\ due \subseteq Bindable
  /\ intact \in BOOLEAN

LEMMA KeyboardKeepsTypes == ASSUME RestTyped, Keyboard PROVE RestTyped'
<1>1. UNCHANGED <<listening, suppressed, bindDown, press, due, intact>>
  BY DEF Keyboard, tableVars, firingVars
<1>2. PICK key \in Key : KeyPressed(key) \/ KeyRepeats(key) \/ KeyReleased(key)
  BY DEF Keyboard
<1>3. held' \in Seq(Key)
  <2>1. CASE KeyPressed(key)
    BY <2>1 DEF KeyPressed, RestTyped
  <2>2. CASE KeyRepeats(key)
    BY <2>2 DEF KeyRepeats, RestTyped
  <2>3. CASE KeyReleased(key)
    <3>1. PICK n \in DOMAIN held : held' = RemoveAt(held, n)
      BY <2>3 DEF KeyReleased
    <3>. QED
      BY <3>1, OthersStayHeld DEF RestTyped
  <2>. QED
    BY <1>2, <2>1, <2>2, <2>3
<1>4. PICK down \in BOOLEAN : KeyChanges(key, down)
  BY <1>2 DEF KeyPressed, KeyRepeats, KeyReleased
<1>5. app' \subseteq Key /\ supDown' \subseteq Key
  <2>1. app \subseteq Key /\ supDown \subseteq Key
    BY DEF RestTyped
  <2>. QED
    BY <1>4, <2>1 DEF KeyChanges, suppress_cb, WithKey
<1>. QED
  BY <1>1, <1>3, <1>5 DEF RestTyped

\* A table that is full takes no suppression.
LEMMA SuppressingKeepsTypes ==
  ASSUME RestTyped, NEW c \in Suppressible, l_supress_key(c) \/ l_unsupress_key(c)
  PROVE  /\ suppressed' \in Seq(Suppressible) /\ Len(suppressed') <= SuppressMax
         /\ listening' \in BOOLEAN
<1>1. /\ suppressed \in Seq(Suppressible) /\ Len(suppressed) \in Nat /\ Len(suppressed) <= SuppressMax
      /\ listening \in BOOLEAN /\ SuppressMax \in Nat
  BY TableAssumption DEF RestTyped
<1>2. CASE l_supress_key(c)
  <2>1. PICK failed \in BOOLEAN :
          /\ listening' = (listening \/ ~failed)
          /\ suppressed' = IF failed \/ Len(suppressed) >= SuppressMax
                           THEN suppressed ELSE Append(suppressed, c)
    <3>1. MayFail("input") \subseteq BOOLEAN
      BY DEF MayFail
    <3>. QED
      BY <1>2, <3>1 DEF l_supress_key
  <2>2. listening' \in BOOLEAN
    BY <2>1, Zenon
  <2>3. CASE failed \/ Len(suppressed) >= SuppressMax
    BY <1>1, <2>1, <2>2, <2>3
  <2>4. CASE ~(failed \/ Len(suppressed) >= SuppressMax)
    <3>1. suppressed' = Append(suppressed, c)
      BY <2>1, <2>4
    <3>2. ~(Len(suppressed) >= SuppressMax)
      BY <2>4
    <3>3. suppressed' \in Seq(Suppressible) /\ Len(suppressed') = Len(suppressed) + 1
      BY <1>1, <3>1
    <3>. QED
      BY <1>1, <2>2, <3>2, <3>3
  <2>. QED
    BY <2>3, <2>4
<1>3. CASE l_unsupress_key(c)
  <2>1. suppressed' = Without(suppressed, {c}) /\ listening' = listening
    BY <1>3 DEF l_unsupress_key
  <2>2. suppressed' \in Seq(Suppressible) /\ Len(suppressed') <= Len(suppressed)
    BY <1>1, <2>1, WithoutIs
  <2>. QED
    BY <1>1, <2>1, <2>2
<1>. QED
  BY <1>2, <1>3

LEMMA ScriptKeepsTypes == ASSUME RestTyped, Script PROVE RestTyped'
<1>1. UNCHANGED <<held, app, supDown, bindDown, press, due>>
  BY DEF Script, keyboardVars
<1>2. CASE Suppressing
  <2>1. intact' = intact
    BY <1>2 DEF Suppressing
  <2>. QED
    BY <1>1, <1>2, <2>1, SuppressingKeepsTypes DEF Suppressing, RestTyped
<1>3. CASE Rebinding
  <2>1. suppressed' = suppressed
    BY <1>3 DEF Rebinding, l_register_keybind, l_unregister_keybind
  <2>2. intact' \in BOOLEAN
    <3>1. intact' = (intact /\ pc # "callback")
      BY <1>3 DEF Rebinding
    <3>. QED
      BY <3>1, Zenon
  <2>3. listening' \in BOOLEAN
    <3>1. listening' = listening \/ \E failed \in MayFail("input") : listening' = (listening \/ ~failed)
      BY <1>3 DEF Rebinding, l_register_keybind, l_unregister_keybind
    <3>2. CASE listening' = listening
      BY <3>2 DEF RestTyped
    <3>3. CASE \E failed \in MayFail("input") : listening' = (listening \/ ~failed)
      BY <3>3, Zenon
    <3>. QED
      BY <3>1, <3>2, <3>3
  <2>. QED
    BY <1>1, <2>1, <2>2, <2>3 DEF RestTyped
<1>. QED
  BY <1>2, <1>3 DEF Script

LEMMA WorkerKeepsTypes == ASSUME RestTyped, TableInv, QueueInv, Worker PROVE RestTyped'
<1>1. UNCHANGED <<held, app, supDown, listening, suppressed>>
  BY DEF Worker, process_keybinds, RunCallback, CallbackReturns, LoopEnds, tableVars, keyboardVars
<1>2. CASE process_keybinds
  <2>. DEFINE e == Head(queue)
  <2>1. e.key \in Key
    <3>1. queue \in Seq(KeyEvent) /\ queue # <<>>
      BY <1>2 DEF QueueInv, process_keybinds
    <3>2. e \in KeyEvent
      BY <3>1
    <3>. QED
      BY <3>2 DEF KeyEvent
  <2>. HIDE DEF e
  <2>2. bindDown' = WithKey(bindDown, e.key, e.down) /\ bindDown' \subseteq Key
    BY <1>2, <2>1 DEF process_keybinds, e, RestTyped, WithKey
  <2>3. BestLength(e.key, bindDown') \in Nat
    BY BestIsMostSpecific
  <2>4. press' = [key |-> e.key, best |-> BestLength(e.key, bindDown')] \/ press' = press
    BY <1>2 DEF process_keybinds, e
  <2>5. press' \in [key : Key, best : Nat]
    BY <2>1, <2>3, <2>4 DEF RestTyped
  <2>6. due' \subseteq Bindable
    <3>1. due' \subseteq BoundCombos
      BY <1>2 DEF process_keybinds, MostSpecific, TriggeredBy
    <3>2. \A n \in DOMAIN binds : binds[n] \in Binding
      BY DEF TableInv, BindsTyped
    <3>3. BoundCombos \subseteq Bindable
      BY <3>2 DEF BoundCombos, Binding
    <3>. QED
      BY <3>1, <3>3
  <2>7. intact' \in BOOLEAN
    BY <1>2 DEF process_keybinds
  <2>. QED
    BY <1>1, <2>2, <2>5, <2>6, <2>7 DEF RestTyped
<1>3. CASE RunCallback \/ CallbackReturns
  BY <1>1, <1>3 DEF RunCallback, CallbackReturns, RestTyped
<1>4. CASE LoopEnds
  <2>1. NoPress \in [key : Key, best : Nat]
    BY KeyAssumption DEF NoPress
  <2>. QED
    BY <1>1, <1>4, <2>1 DEF LoopEnds, RestTyped
<1>. QED
  BY <1>2, <1>3, <1>4 DEF Worker

\* Every variable keeps its type: neither table outgrows its array, whatever the scripts
\* suppress and bind and whichever call fails (input.c:182-240).
THEOREM KeyboardTypes == Spec => []TypeOK
<1>1. Init => RestTyped
  <2>. SUFFICES ASSUME Init PROVE RestTyped
    OBVIOUS
  <2>1. NoPress \in [key : Key, best : Nat]
    BY KeyAssumption DEF NoPress
  <2>2. suppressed \in Seq(Suppressible) /\ Len(suppressed) <= SuppressMax
    BY TableAssumption DEF Init
  <2>3. press \in [key : Key, best : Nat]
    BY <2>1, Zenon DEF Init
  <2>4. held \in Seq(Key) /\ app \subseteq Key /\ supDown \subseteq Key /\ bindDown \subseteq Key
        /\ due \subseteq Bindable
    BY DEF Init
  <2>5. listening \in BOOLEAN /\ intact \in BOOLEAN
    BY Zenon DEF Init
  <2>. QED
    BY <2>2, <2>3, <2>4, <2>5 DEF RestTyped
<1>2. RestTyped /\ TableInv /\ QueueInv /\ [Next]_vars => RestTyped'
  <2>. SUFFICES ASSUME RestTyped, TableInv, QueueInv, [Next]_vars PROVE RestTyped'
    OBVIOUS
  <2>1. CASE UNCHANGED vars
    BY <2>1 DEF vars, RestTyped
  <2>. QED
    BY <2>1, KeyboardKeepsTypes, ScriptKeepsTypes, WorkerKeepsTypes DEF Next
<1>3. RestTyped /\ TableInv /\ QueueInv /\ FireInv => TypeOK
  BY DEF RestTyped, TableInv, BindsTyped, QueueInv, FireInv, TypeOK
<1>. QED
  BY <1>1, <1>2, <1>3, TableInvInductive, QueueInvInductive, FireInvInductive, PTL DEF Spec

=================================================================================
