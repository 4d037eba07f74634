------------------------------ MODULE MCKeybinds ------------------------------
(* The keyboard for TLC: two modifiers, a key, and the combos of them whose   *)
(* last key is that key or a modifier.                                        *)
EXTENDS Keybinds, TLC

CONSTANTS ctrl, shift, k

MCKey   == {ctrl, shift, k}
Plain   == <<k>>
CtrlK   == <<ctrl, k>>
ShiftK  == <<shift, k>>
CtrlShift == <<ctrl, shift>>
MCCombo == {Plain, CtrlK, ShiftK, CtrlShift}

NoCombos    == {}
TwoCombos   == {CtrlK, ShiftK}
ThreeCombos == {Plain, CtrlK, ShiftK}

Symmetry == Permutations(Callback)
==============================================================================
