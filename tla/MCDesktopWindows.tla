---------------------------- MODULE MCDesktopWindows ----------------------------
(* The windows of the desktops for TLC: no property tells two windows apart,  *)
(* nor two desktops.                                                          *)
EXTENDS DesktopWindows, TLC

Symmetry == Permutations(Window) \cup Permutations(Desktop)
=================================================================================
