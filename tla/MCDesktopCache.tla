----------------------------- MODULE MCDesktopCache -----------------------------
(* The desktops for TLC: no property tells one GUID from another.             *)
EXTENDS DesktopCache, TLC

Symmetry == Permutations(Guid)
==================================================================================
