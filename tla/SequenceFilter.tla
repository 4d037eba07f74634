------------------------------- MODULE SequenceFilter -------------------------------
(***************************************************************************)
(* Taking elements out of a table that is kept as a sequence.  SelectSeq   *)
(* does the same; this form can be reasoned about.                         *)
(***************************************************************************)
EXTENDS Integers, Sequences

\* The elements of s that are not in X, in their order.
Without(s, X) ==
  LET Kept[n \in 0 .. Len(s)] ==
        IF n = 0 THEN <<>>
        ELSE IF s[n] \in X THEN Kept[n - 1]
        ELSE Append(Kept[n - 1], s[n])
  IN  Kept[Len(s)]

=====================================================================================
