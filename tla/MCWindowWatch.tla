---------------------------- MODULE MCWindowWatch ----------------------------
(* The window watch for TLC.  The properties of the safety runs do not tell   *)
(* handles apart, so TLC may take them up to a permutation there.             *)
EXTENDS WindowWatch, TLC

Symmetry == Permutations(Handle)
==============================================================================
