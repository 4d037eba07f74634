---------------------------------- MODULE KeyCombo ----------------------------------
(***************************************************************************)
(* wm_key_combo_from_str (libuniwm/src/wm.c): the keys that a text such as *)
(* "ctrl+shift+a" names.  A text is a sequence of characters; the name of  *)
(* a key counts as one of them.                                            *)
(***************************************************************************)
EXTENDS Integers, Sequences, FiniteSetsExt

CONSTANTS
  Key,              \* the names that mc_key_from_str knows
  Plus,             \* the character between two names
  WM_KEY_COMBO_MAX  \* the keys a combo has room for

ASSUME KeyAssumption   == Plus \notin Key
ASSUME ComboAssumption == WM_KEY_COMBO_MAX \in Nat \ {0}

\* An error has no combo; a combo has at least one key.
Invalid == <<>>

\* The key that a text names, in a sequence; MC_KEY_UNKNOWN is the empty one.
mc_key_from_str(text) == IF Len(text) = 1 /\ text[1] \in Key THEN text ELSE <<>>

\* The end of the name that starts at p.
NameEnd(spec, p) == Min({n \in p .. Len(spec) : spec[n] = Plus} \cup {Len(spec) + 1})

\* Mutant: an unknown name is passed over.
ComboOfKnown(spec) ==
  LET Keys[p \in 1 .. Len(spec) + 1] == [count \in 0 .. WM_KEY_COMBO_MAX |->
        LET plus == NameEnd(spec, p)
            key  == mc_key_from_str(SubSeq(spec, p, plus - 1))
        IN  IF count + Len(key) > WM_KEY_COMBO_MAX THEN Invalid
            ELSE IF plus > Len(spec) THEN key
            ELSE key \o Keys[plus + 1][count + Len(key)]]
  IN  Keys[1][0]

\* Mutant: the room left in the combo is tested once too late.
ComboOverfills(spec) ==
  LET Keys[p \in 1 .. Len(spec) + 1] == [count \in 0 .. WM_KEY_COMBO_MAX + 1 |->
        LET plus == NameEnd(spec, p)
            key  == mc_key_from_str(SubSeq(spec, p, plus - 1))
        IN  IF key = <<>> \/ count > WM_KEY_COMBO_MAX THEN Invalid
            ELSE IF plus > Len(spec) THEN key
            ELSE LET rest == Keys[plus + 1][count + 1]
                 IN  IF rest = Invalid THEN Invalid ELSE key \o rest]
  IN  Keys[1][0]

\* Keys[p][count]: the keys named from p on, when count keys came before.
wm_key_combo_from_str(spec) ==
  LET Keys[p \in 1 .. Len(spec) + 1] == [count \in 0 .. WM_KEY_COMBO_MAX |->
        LET plus == NameEnd(spec, p)
            key  == mc_key_from_str(SubSeq(spec, p, plus - 1))
        IN  IF key = <<>> \/ count >= WM_KEY_COMBO_MAX THEN Invalid
            ELSE IF plus > Len(spec) THEN key
            ELSE LET rest == Keys[plus + 1][count + 1]
                 IN  IF rest = Invalid THEN Invalid ELSE key \o rest]
  IN  Keys[1][0]

-----------------------------------------------------------------------------
(* What the text of a combo is, for reference.                             *)

Spelling(keys) ==
  [n \in 1 .. 2 * Len(keys) - 1 |-> IF n % 2 = 1 THEN keys[(n + 1) \div 2] ELSE Plus]

Combos == UNION {[1 .. n -> Key] : n \in 1 .. WM_KEY_COMBO_MAX}

====================================================================================
