------------------------------- MODULE BindingMap -------------------------------
(***************************************************************************)
(* What the keybind table of libuniwm promises the scripts: a map that     *)
(* gives each combo its callback, as a set of at most one.  Registering a  *)
(* combo replaces its callback or, when the new one cannot be made, leaves *)
(* the combo without one; no other combo is ever touched, and two combos   *)
(* never share a callback.                                                 *)
(***************************************************************************)
CONSTANTS Bindable, Callback

VARIABLE bound

Init == bound = [c \in Bindable |-> {}]

OfOthers(c) == UNION {bound[d] : d \in Bindable \ {c}}

Bind(c) == \E ctx \in Callback \ OfOthers(c) : bound' = [bound EXCEPT ![c] = {ctx}]

Unbind(c) == bound' = [bound EXCEPT ![c] = {}]

Next == \E c \in Bindable : Bind(c) \/ Unbind(c)

Spec == Init /\ [][Next]_bound
================================================================================
