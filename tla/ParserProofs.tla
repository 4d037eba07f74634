-------------------------------- MODULE ParserProofs --------------------------------
(***************************************************************************)
(* The two texts that uniwm takes apart: key combos, and the command line  *)
(* of the worker.                                                          *)
(*                                                                         *)
(* wm_key_combo_from_str reads every text right, whatever its length and   *)
(* whatever room a combo has.  The keys it finds from a place on are given *)
(* by a formula, Reading, without recursion.  Reading solves the equation  *)
(* that defines Keys, so that there is such a function; and it is the only *)
(* one, for a least distance from the end at which another solution        *)
(* differs is a contradiction.                                             *)
(*                                                                         *)
(* The worker reads on its command line the arguments that the supervisor  *)
(* has written, by induction along the line: after every character of a    *)
(* plain argument the reader has seen that argument up to there.  The flag *)
(* of the worker comes first and is read whatever follows.                 *)
(***************************************************************************)
EXTENDS KeyCombo, CommandLine, InductionProofs, TLAPS

-----------------------------------------------------------------------------
(* One name.                                                               *)

\* The loop stops at the first plus, or at the end.
LEMMA NameEndIs ==
  ASSUME NEW Char, NEW spec \in Seq(Char), NEW p \in 1 .. Len(spec) + 1
  PROVE  /\ NameEnd(spec, p) \in p .. Len(spec) + 1
         /\ NameEnd(spec, p) <= Len(spec) => spec[NameEnd(spec, p)] = Plus
         /\ \A m \in p .. NameEnd(spec, p) - 1 : spec[m] # Plus
<1>. DEFINE S == {n \in p .. Len(spec) : spec[n] = Plus} \cup {Len(spec) + 1}
<1>1. Len(spec) \in Nat /\ p \in Nat
  OBVIOUS
<1>2. S \subseteq p .. Len(spec) + 1 /\ S # {}
  BY <1>1
<1>3. S \subseteq Nat
  BY <1>1, <1>2
<1>4. PICK x \in S : \A y \in S : x <= y
  <2>. HIDE DEF S
  <2>. QED
    BY <1>2, <1>3, LeastNatural
<1>5. NameEnd(spec, p) = Min(S)
  BY DEF NameEnd
<1>6. NameEnd(spec, p) \in S /\ \A y \in S : NameEnd(spec, p) <= y
  <2>. HIDE DEF S
  <2>. QED
    BY <1>4, <1>5 DEF Min
<1>7. NameEnd(spec, p) \in p .. Len(spec) + 1
  BY <1>2, <1>6
<1>8. NameEnd(spec, p) <= Len(spec) => spec[NameEnd(spec, p)] = Plus
  BY <1>1, <1>6
<1>9. ASSUME NEW m \in p .. NameEnd(spec, p) - 1 PROVE spec[m] # Plus
  <2>1. m \in p .. Len(spec) /\ m < NameEnd(spec, p)
    BY <1>1, <1>7
  <2>2. m \notin S
    BY <1>1, <1>6, <1>7, <2>1
  <2>. QED
    BY <2>1, <2>2
<1>. QED
  BY <1>7, <1>8, <1>9

\* A known name from p on, and after it the end or a plus.
KeyAt(spec, p) ==
  /\ p <= Len(spec)
  /\ spec[p] \in Key
  /\ p < Len(spec) => spec[p + 1] = Plus

Named(spec, p) == mc_key_from_str(SubSeq(spec, p, NameEnd(spec, p) - 1))

LEMMA NamedIs ==
  ASSUME NEW Char, NEW spec \in Seq(Char), NEW p \in 1 .. Len(spec) + 1
  PROVE  /\ KeyAt(spec, p) => Named(spec, p) = <<spec[p]>> /\ NameEnd(spec, p) = p + 1
         /\ ~KeyAt(spec, p) => Named(spec, p) = <<>>
<1>. DEFINE e == NameEnd(spec, p)
            s == SubSeq(spec, p, e - 1)
<1>1. Len(spec) \in Nat /\ p \in Nat
  OBVIOUS
<1>2. /\ e \in p .. Len(spec) + 1
      /\ e <= Len(spec) => spec[e] = Plus
      /\ \A m \in p .. e - 1 : spec[m] # Plus
  BY NameEndIs
<1>. HIDE DEF e
<1>3. Len(s) = e - p /\ \A i \in 1 .. e - p : s[i] = spec[p + i - 1]
  BY <1>1, <1>2
<1>. HIDE DEF s
<1>4. Named(spec, p) = IF Len(s) = 1 /\ s[1] \in Key THEN s ELSE <<>>
  BY DEF Named, mc_key_from_str, e, s
<1>5. CASE KeyAt(spec, p)
  <2>1. p \in 1 .. Len(spec) /\ spec[p] # Plus
    BY <1>1, <1>5, KeyAssumption DEF KeyAt
  <2>2. e # p
    BY <1>2, <2>1
  <2>3. e = p + 1
    <3>1. CASE p = Len(spec)
      BY <1>1, <1>2, <2>2, <3>1
    <3>2. CASE p < Len(spec)
      <4>1. spec[p + 1] = Plus
        BY <1>5, <3>2 DEF KeyAt
      <4>2. p + 1 \notin p .. e - 1
        BY <1>2, <4>1
      <4>. QED
        BY <1>1, <1>2, <2>2, <4>2
    <3>. QED
      BY <1>1, <2>1, <3>1, <3>2
  <2>4. Len(s) = 1 /\ s[1] = spec[p]
    BY <1>1, <1>3, <2>3
  <2>5. s = <<spec[p]>>
    <3>1. s \in Seq(Char)
      BY <1>1, <1>2 DEF s
    <3>. QED
      BY <2>4, <3>1
  <2>. QED
    BY <1>4, <1>5, <2>3, <2>4, <2>5 DEF KeyAt, e
<1>6. CASE ~KeyAt(spec, p)
  <2>1. ASSUME Len(s) = 1, s[1] \in Key PROVE FALSE
    <3>1. e = p + 1
      <4>1. e - p = 1
        BY <1>3, <2>1
      <4>2. e \in Int
        BY <1>1, <1>2
      <4>. QED
        BY <1>1, <4>1, <4>2
    <3>2. s[1] = spec[p]
      BY <1>1, <1>3, <3>1
    <3>3. p <= Len(spec)
      BY <1>1, <1>2, <3>1
    <3>4. p < Len(spec) => spec[p + 1] = Plus
      BY <1>1, <1>2, <3>1
    <3>. QED
      BY <1>6, <2>1, <3>2, <3>3, <3>4 DEF KeyAt
  <2>. QED
    BY <1>4, <1>6, <2>1
<1>. QED
  BY <1>5, <1>6 DEF e

-----------------------------------------------------------------------------
(* One step of the walk.                                                   *)

\* The right side of the equation for Keys.
Walk(spec, K) ==
  [p \in 1 .. Len(spec) + 1 |-> [count \in 0 .. WM_KEY_COMBO_MAX |->
     LET plus == NameEnd(spec, p)
         key  == mc_key_from_str(SubSeq(spec, p, plus - 1))
     IN  IF key = <<>> \/ count >= WM_KEY_COMBO_MAX THEN Invalid
         ELSE IF plus > Len(spec) THEN key
         ELSE LET rest == K[plus + 1][count + 1]
              IN  IF rest = Invalid THEN Invalid ELSE key \o rest]]

LEMMA KeysSolve ==
  ASSUME NEW spec
  PROVE  wm_key_combo_from_str(spec) = (CHOOSE K : K = Walk(spec, K))[1][0]
BY DEF wm_key_combo_from_str, Walk

Found(spec, K, p, count) ==
  IF ~KeyAt(spec, p) \/ count >= WM_KEY_COMBO_MAX THEN <<>>
  ELSE IF p = Len(spec) THEN <<spec[p]>>
  ELSE IF K[p + 2][count + 1] = <<>> THEN <<>>
  ELSE <<spec[p]>> \o K[p + 2][count + 1]

LEMMA WalkFinds ==
  ASSUME NEW Char, NEW spec \in Seq(Char), NEW K,
         NEW p \in 1 .. Len(spec) + 1, NEW count \in 0 .. WM_KEY_COMBO_MAX
  PROVE  Walk(spec, K)[p][count] = Found(spec, K, p, count)
<1>. DEFINE plus == NameEnd(spec, p)
            rest == K[plus + 1][count + 1]
<1>1. Walk(spec, K)[p][count] =
        IF Named(spec, p) = <<>> \/ count >= WM_KEY_COMBO_MAX THEN <<>>
        ELSE IF plus > Len(spec) THEN Named(spec, p)
        ELSE IF rest = <<>> THEN <<>> ELSE Named(spec, p) \o rest
  BY DEF Walk, Named, Invalid
<1>2. CASE ~KeyAt(spec, p) \/ count >= WM_KEY_COMBO_MAX
  <2>1. Named(spec, p) = <<>> \/ count >= WM_KEY_COMBO_MAX
    BY <1>2, NamedIs
  <2>2. Walk(spec, K)[p][count] = <<>>
    BY <1>1, <2>1
  <2>. QED
    BY <1>2, <2>2 DEF Found
<1>3. CASE KeyAt(spec, p) /\ ~(count >= WM_KEY_COMBO_MAX)
  <2>1. Named(spec, p) = <<spec[p]>> /\ plus = p + 1
    BY <1>3, NamedIs
  <2>2. Len(spec) \in Nat /\ p \in 1 .. Len(spec)
    BY <1>3 DEF KeyAt
  <2>3. plus > Len(spec) <=> p = Len(spec)
    BY <2>1, <2>2
  <2>4. rest = K[p + 2][count + 1]
    BY <2>1, <2>2
  <2>5. Named(spec, p) # <<>>
    BY <2>1
  <2>. HIDE DEF plus, rest
  <2>. QED
    BY <1>1, <1>3, <2>1, <2>3, <2>4, <2>5 DEF Found
<1>. QED
  BY <1>2, <1>3

-----------------------------------------------------------------------------
(* The keys from a place on, without recursion.                            *)

Spelled(spec, p, room) ==
  \E n \in 1 .. room :
    /\ Len(spec) - p = 2 * n - 2
    /\ \A i \in 0 .. n - 1 : spec[p + 2 * i] \in Key
    /\ \A i \in 1 .. n - 1 : spec[p + 2 * i - 1] = Plus

KeysOf(spec, p) == [i \in 1 .. (Len(spec) - p) \div 2 + 1 |-> spec[p + 2 * i - 2]]

Reading(spec) ==
  [p \in 1 .. Len(spec) + 1 |-> [count \in 0 .. WM_KEY_COMBO_MAX |->
     IF Spelled(spec, p, WM_KEY_COMBO_MAX - count) THEN KeysOf(spec, p) ELSE <<>>]]

LEMMA HalfOf == \A n \in Int : (2 * n - 2) \div 2 + 1 = n
OBVIOUS

\* A name, and the rest after the plus.
LEMMA SpelledFirst ==
  ASSUME NEW Char, NEW spec \in Seq(Char), NEW p \in 1 .. Len(spec) + 1, NEW room \in Nat
  PROVE  Spelled(spec, p, room) <=>
           /\ KeyAt(spec, p)
           /\ room >= 1
           /\ p = Len(spec) \/ (p < Len(spec) /\ Spelled(spec, p + 2, room - 1))
<1>1. Len(spec) \in Nat /\ p \in Nat
  OBVIOUS
<1>2. ASSUME Spelled(spec, p, room)
      PROVE  /\ KeyAt(spec, p)
             /\ room >= 1
             /\ p = Len(spec) \/ (p < Len(spec) /\ Spelled(spec, p + 2, room - 1))
  <2>1. PICK n \in 1 .. room :
          /\ Len(spec) - p = 2 * n - 2
          /\ \A i \in 0 .. n - 1 : spec[p + 2 * i] \in Key
          /\ \A i \in 1 .. n - 1 : spec[p + 2 * i - 1] = Plus
    BY <1>2 DEF Spelled
  <2>2. spec[p] \in Key
    <3>1. 0 \in 0 .. n - 1 /\ p + 2 * 0 = p
      BY <1>1
    <3>. QED
      BY <2>1, <3>1
  <2>3. CASE n = 1
    BY <1>1, <2>1, <2>2, <2>3 DEF KeyAt
  <2>4. CASE n > 1
    <3>1. p < Len(spec)
      BY <1>1, <2>1, <2>4
    <3>2. spec[p + 1] = Plus
      <4>1. 1 \in 1 .. n - 1 /\ p + 2 * 1 - 1 = p + 1
        BY <1>1, <2>4
      <4>. QED
        BY <2>1, <4>1
    <3>3. n - 1 \in 1 .. room - 1 /\ Len(spec) - (p + 2) = 2 * (n - 1) - 2
      BY <1>1, <2>1, <2>4
    <3>4. ASSUME NEW i \in 0 .. n - 1 - 1 PROVE spec[p + 2 + 2 * i] \in Key
      <4>1. i + 1 \in 0 .. n - 1 /\ p + 2 * (i + 1) = p + 2 + 2 * i
        BY <1>1
      <4>. QED
        BY <2>1, <4>1
    <3>5. ASSUME NEW i \in 1 .. n - 1 - 1 PROVE spec[p + 2 + 2 * i - 1] = Plus
      <4>1. i + 1 \in 1 .. n - 1 /\ p + 2 * (i + 1) - 1 = p + 2 + 2 * i - 1
        BY <1>1
      <4>. QED
        BY <2>1, <4>1
    <3>6. Spelled(spec, p + 2, room - 1)
      BY <3>3, <3>4, <3>5 DEF Spelled
    <3>. QED
      BY <1>1, <2>2, <3>1, <3>2, <3>6 DEF KeyAt
  <2>. QED
    BY <2>3, <2>4
<1>3. ASSUME KeyAt(spec, p), room >= 1, p = Len(spec)
      PROVE  Spelled(spec, p, room)
  <2>1. 1 \in 1 .. room /\ Len(spec) - p = 2 * 1 - 2
    BY <1>1, <1>3
  <2>2. \A i \in 0 .. 1 - 1 : spec[p + 2 * i] \in Key
    <3>1. \A i \in 0 .. 1 - 1 : p + 2 * i = p
      BY <1>1
    <3>. QED
      BY <1>3, <3>1 DEF KeyAt
  <2>3. \A i \in 1 .. 1 - 1 : spec[p + 2 * i - 1] = Plus
    OBVIOUS
  <2>. QED
    BY <2>1, <2>2, <2>3 DEF Spelled
<1>4. ASSUME KeyAt(spec, p), room >= 1, p < Len(spec), Spelled(spec, p + 2, room - 1)
      PROVE  Spelled(spec, p, room)
  <2>1. PICK n \in 1 .. room - 1 :
          /\ Len(spec) - (p + 2) = 2 * n - 2
          /\ \A i \in 0 .. n - 1 : spec[p + 2 + 2 * i] \in Key
          /\ \A i \in 1 .. n - 1 : spec[p + 2 + 2 * i - 1] = Plus
    BY <1>4 DEF Spelled
  <2>. DEFINE m == n + 1
  <2>2. m \in 1 .. room /\ Len(spec) - p = 2 * m - 2
    BY <1>1, <2>1
  <2>3. ASSUME NEW i \in 0 .. m - 1 PROVE spec[p + 2 * i] \in Key
    <3>1. CASE i = 0
      <4>1. p + 2 * i = p
        BY <1>1, <3>1
      <4>. QED
        BY <1>4, <4>1 DEF KeyAt
    <3>2. CASE i # 0
      <4>1. i - 1 \in 0 .. n - 1 /\ p + 2 + 2 * (i - 1) = p + 2 * i
        BY <1>1, <3>2
      <4>. QED
        BY <2>1, <4>1
    <3>. QED
      BY <3>1, <3>2
  <2>4. ASSUME NEW i \in 1 .. m - 1 PROVE spec[p + 2 * i - 1] = Plus
    <3>1. CASE i = 1
      <4>1. p + 2 * i - 1 = p + 1
        BY <1>1, <3>1
      <4>. QED
        BY <1>4, <4>1 DEF KeyAt
    <3>2. CASE i # 1
      <4>1. i - 1 \in 1 .. n - 1 /\ p + 2 + 2 * (i - 1) - 1 = p + 2 * i - 1
        BY <1>1, <3>2
      <4>. QED
        BY <2>1, <4>1
    <3>. QED
      BY <3>1, <3>2
  <2>. HIDE DEF m
  <2>. QED
    BY <2>2, <2>3, <2>4 DEF Spelled
<1>. QED
  BY <1>2, <1>3, <1>4

LEMMA PrependIs ==
  ASSUME NEW S, NEW x \in S, NEW u \in Seq(S)
  PROVE  /\ <<x>> \o u \in Seq(S)
         /\ Len(<<x>> \o u) = Len(u) + 1
         /\ (<<x>> \o u)[1] = x
         /\ \A i \in 2 .. Len(u) + 1 : (<<x>> \o u)[i] = u[i - 1]
<1>1. <<x>> \in Seq(S) /\ Len(<<x>>) = 1 /\ <<x>>[1] = x
  OBVIOUS
<1>. DEFINE s == <<x>>
<1>. HIDE DEF s
<1>2. s \o u \in Seq(S) /\ Len(s \o u) = Len(s) + Len(u)
  BY <1>1 DEF s
<1>3. \A i \in 1 .. Len(s) + Len(u) :
        (s \o u)[i] = IF i <= Len(s) THEN s[i] ELSE u[i - Len(s)]
  BY <1>1 DEF s
<1>. QED
  BY <1>1, <1>2, <1>3 DEF s

LEMMA KeysFirst ==
  ASSUME NEW Char, NEW spec \in Seq(Char), NEW p \in 1 .. Len(spec) + 1, NEW room \in Nat,
         Spelled(spec, p, room)
  PROVE  /\ p = Len(spec) => KeysOf(spec, p) = <<spec[p]>>
         /\ p # Len(spec) => KeysOf(spec, p) = <<spec[p]>> \o KeysOf(spec, p + 2)
         /\ KeysOf(spec, p) # <<>>
<1>1. Len(spec) \in Nat /\ p \in Nat /\ p + 2 \in Nat
  OBVIOUS
<1>2. PICK n \in 1 .. room : Len(spec) - p = 2 * n - 2
  BY DEF Spelled
<1>3. n \in Nat \ {0}
  BY <1>2
<1>4. KeysOf(spec, p) = [i \in 1 .. n |-> spec[p + 2 * i - 2]]
  <2>1. (Len(spec) - p) \div 2 + 1 = n
    BY <1>2, HalfOf
  <2>. QED
    BY <2>1 DEF KeysOf
<1>5. p <= Len(spec)
  BY <1>1, <1>2
<1>6. \A i \in 1 .. n : spec[p + 2 * i - 2] \in Char
  <2>1. \A i \in 1 .. n : p + 2 * i - 2 \in 1 .. Len(spec)
    BY <1>1, <1>2, <1>5
  <2>. QED
    BY <2>1
<1>7. Len(KeysOf(spec, p)) = n /\ KeysOf(spec, p) \in Seq(Char)
  BY <1>3, <1>4, <1>6
<1>8. p + 2 * 1 - 2 = p
  BY <1>1
<1>9. ASSUME p = Len(spec) PROVE KeysOf(spec, p) = <<spec[p]>>
  <2>1. n = 1
    BY <1>1, <1>2, <1>9
  <2>2. KeysOf(spec, p)[1] = spec[p]
    BY <1>4, <1>8, <2>1
  <2>3. spec[p] \in Char
    BY <1>1, <1>5
  <2>. QED
    BY <1>7, <2>1, <2>2, <2>3
<1>10. ASSUME p # Len(spec) PROVE KeysOf(spec, p) = <<spec[p]>> \o KeysOf(spec, p + 2)
  <2>. DEFINE m == n - 1
              s == <<spec[p]>>
              u == KeysOf(spec, p + 2)
  <2>1. m \in Nat \ {0} /\ Len(spec) - (p + 2) = 2 * m - 2
    BY <1>1, <1>2, <1>3, <1>10
  <2>2. u = [i \in 1 .. m |-> spec[p + 2 + 2 * i - 2]]
    <3>1. (Len(spec) - (p + 2)) \div 2 + 1 = m
      BY <2>1, HalfOf
    <3>. QED
      BY <3>1 DEF KeysOf
  <2>3. \A i \in 1 .. m : p + 2 + 2 * i - 2 = p + 2 * (i + 1) - 2 /\ i + 1 \in 1 .. n
    BY <1>1, <2>1
  <2>4. \A i \in 1 .. m : u[i] = spec[p + 2 * (i + 1) - 2] /\ u[i] \in Char
    <3>. HIDE DEF u, m
    <3>1. \A i \in 1 .. m : u[i] = spec[p + 2 + 2 * i - 2]
      BY <2>2
    <3>2. \A i \in 1 .. m : u[i] = spec[p + 2 * (i + 1) - 2]
      BY <2>3, <3>1
    <3>3. \A i \in 1 .. m : spec[p + 2 * (i + 1) - 2] \in Char
      BY <1>6, <2>3
    <3>. QED
      BY <3>2, <3>3
  <2>5. u \in Seq(Char) /\ Len(u) = m
    <3>. HIDE DEF m, u
    <3>1. \A i \in 1 .. m : spec[p + 2 + 2 * i - 2] \in Char
      BY <2>2, <2>4
    <3>. QED
      BY <2>1, <2>2, <3>1
  <2>6. spec[p] \in Char
    BY <1>1, <1>5
  <2>. HIDE DEF u
  <2>7. /\ s \o u \in Seq(Char)
        /\ Len(s \o u) = Len(u) + 1
        /\ (s \o u)[1] = spec[p]
        /\ \A i \in 2 .. Len(u) + 1 : (s \o u)[i] = u[i - 1]
    <3>1. u \in Seq(Char)
      BY <2>5
    <3>. QED
      BY <2>6, <3>1, PrependIs
  <2>8. Len(u) + 1 = n
    BY <1>3, <2>5
  <2>. HIDE DEF s
  <2>9. ASSUME NEW i \in 1 .. n PROVE (s \o u)[i] = KeysOf(spec, p)[i]
    <3>1. KeysOf(spec, p)[i] = spec[p + 2 * i - 2]
      BY <1>4
    <3>2. CASE i = 1
      BY <1>8, <2>7, <3>1, <3>2
    <3>3. CASE i # 1
      <4>1. i - 1 \in 1 .. m /\ (i - 1) + 1 = i /\ i \in 2 .. n
        BY <1>3, <3>3
      <4>2. (s \o u)[i] = u[i - 1]
        BY <2>7, <2>8, <4>1
      <4>3. u[i - 1] = spec[p + 2 * ((i - 1) + 1) - 2]
        BY <2>4, <4>1
      <4>. QED
        BY <3>1, <4>1, <4>2, <4>3
    <3>. QED
      BY <3>2, <3>3
  <2>10. s \o u = KeysOf(spec, p)
    <3>1. Len(s \o u) = n
      BY <2>7, <2>8
    <3>. DEFINE w == s \o u
                k == KeysOf(spec, p)
    <3>. HIDE DEF w, k
    <3>2. w \in Seq(Char) /\ k \in Seq(Char) /\ Len(w) = n /\ Len(k) = n
      BY <1>7, <2>7, <3>1 DEF w, k
    <3>3. \A i \in 1 .. n : w[i] = k[i]
      BY <2>9 DEF w, k
    <3>4. w = k
      BY <3>2, <3>3
    <3>. QED
      BY <3>4 DEF w, k
  <2>. QED
    BY <2>10 DEF s, u
<1>11. KeysOf(spec, p) # <<>>
  BY <1>3, <1>7
<1>. QED
  BY <1>9, <1>10, <1>11

\* Reading solves the equation.
LEMMA ReadingFinds ==
  ASSUME NEW Char, NEW spec \in Seq(Char),
         NEW p \in 1 .. Len(spec) + 1, NEW count \in 0 .. WM_KEY_COMBO_MAX
  PROVE  Reading(spec)[p][count] = Found(spec, Reading(spec), p, count)
<1>. DEFINE room == WM_KEY_COMBO_MAX - count
<1>1. WM_KEY_COMBO_MAX \in Nat /\ room \in Nat /\ Len(spec) \in Nat /\ p \in Nat
  BY ComboAssumption
<1>2. Reading(spec)[p][count] = IF Spelled(spec, p, room) THEN KeysOf(spec, p) ELSE <<>>
  BY DEF Reading
<1>3. count >= WM_KEY_COMBO_MAX <=> ~(room >= 1)
  BY <1>1
<1>4. ASSUME KeyAt(spec, p), room >= 1, p # Len(spec)
      PROVE  Reading(spec)[p + 2][count + 1]
               = IF Spelled(spec, p + 2, room - 1) THEN KeysOf(spec, p + 2) ELSE <<>>
  <2>1. p < Len(spec)
    BY <1>1, <1>4 DEF KeyAt
  <2>2. p + 2 \in 1 .. Len(spec) + 1 /\ count + 1 \in 0 .. WM_KEY_COMBO_MAX
    BY <1>1, <1>4, <2>1
  <2>3. WM_KEY_COMBO_MAX - (count + 1) = room - 1
    BY <1>1
  <2>. QED
    BY <2>2, <2>3 DEF Reading
<1>. HIDE DEF room
<1>5. Spelled(spec, p, room) <=>
           /\ KeyAt(spec, p)
           /\ room >= 1
           /\ p = Len(spec) \/ (p < Len(spec) /\ Spelled(spec, p + 2, room - 1))
  BY <1>1, SpelledFirst
<1>6. CASE ~KeyAt(spec, p) \/ count >= WM_KEY_COMBO_MAX
  BY <1>2, <1>3, <1>5, <1>6 DEF Found
<1>7. CASE KeyAt(spec, p) /\ ~(count >= WM_KEY_COMBO_MAX)
  <2>1. room >= 1
    BY <1>3, <1>7
  <2>2. CASE p = Len(spec)
    <3>1. Spelled(spec, p, room)
      BY <1>5, <1>7, <2>1, <2>2
    <3>2. KeysOf(spec, p) = <<spec[p]>>
      BY <1>1, <2>2, <3>1, KeysFirst
    <3>. QED
      BY <1>2, <1>7, <2>2, <3>1, <3>2 DEF Found
  <2>3. CASE p # Len(spec)
    <3>1. Reading(spec)[p + 2][count + 1]
            = IF Spelled(spec, p + 2, room - 1) THEN KeysOf(spec, p + 2) ELSE <<>>
      BY <1>4, <1>7, <2>1, <2>3
    <3>2. p < Len(spec)
      BY <1>1, <1>7, <2>3 DEF KeyAt
    <3>3. CASE Spelled(spec, p + 2, room - 1)
      <4>1. Spelled(spec, p, room)
        BY <1>5, <1>7, <2>1, <3>2, <3>3
      <4>2. KeysOf(spec, p) = <<spec[p]>> \o KeysOf(spec, p + 2)
        BY <1>1, <2>3, <4>1, KeysFirst
      <4>3. KeysOf(spec, p + 2) # <<>>
        <5>1. p + 2 \in 1 .. Len(spec) + 1 /\ room - 1 \in Nat
          BY <1>1, <2>1, <3>2
        <5>. QED
          BY <3>3, <5>1, KeysFirst
      <4>. QED
        BY <1>2, <1>7, <2>3, <3>1, <3>3, <4>1, <4>2, <4>3 DEF Found
    <3>4. CASE ~Spelled(spec, p + 2, room - 1)
      <4>1. ~Spelled(spec, p, room)
        BY <1>5, <2>3, <3>4
      <4>. QED
        BY <1>2, <1>7, <2>3, <3>1, <3>4, <4>1 DEF Found
    <3>. QED
      BY <3>3, <3>4
  <2>. QED
    BY <2>2, <2>3
<1>. QED
  BY <1>6, <1>7

\* Two solutions agree everywhere: where the distance to the end is least among the
\* places at which they do not, they agree on what is behind.
LEMMA OneSolution ==
  ASSUME NEW Char, NEW spec \in Seq(Char), NEW K, NEW L,
         \A p \in 1 .. Len(spec) + 1, count \in 0 .. WM_KEY_COMBO_MAX :
           /\ K[p][count] = Found(spec, K, p, count)
           /\ L[p][count] = Found(spec, L, p, count)
  PROVE  \A p \in 1 .. Len(spec) + 1, count \in 0 .. WM_KEY_COMBO_MAX :
           K[p][count] = L[p][count]
<1>. DEFINE Agree(p) == \A count \in 0 .. WM_KEY_COMBO_MAX : K[p][count] = L[p][count]
            T == {d \in 0 .. Len(spec) : ~Agree(Len(spec) + 1 - d)}
<1>1. Len(spec) \in Nat /\ WM_KEY_COMBO_MAX \in Nat
  BY ComboAssumption
<1>2. T = {}
  <2>1. SUFFICES ASSUME T # {} PROVE FALSE
    OBVIOUS
  <2>2. T \subseteq Nat
    BY <1>1
  <2>3. PICK d \in T : \A e \in T : d <= e
    <3>. HIDE DEF T
    <3>. QED
      BY <2>1, <2>2, LeastNatural
  <2>. DEFINE p == Len(spec) + 1 - d
  <2>4. d \in 0 .. Len(spec) /\ ~Agree(p)
    BY <2>3
  <2>5. p \in 1 .. Len(spec) + 1
    BY <1>1, <2>4
  <2>6. p < Len(spec) => Agree(p + 2)
    <3>1. SUFFICES ASSUME p < Len(spec) PROVE Agree(p + 2)
      OBVIOUS
    <3>2. d - 2 \in 0 .. Len(spec) /\ Len(spec) + 1 - (d - 2) = p + 2
      BY <1>1, <2>4, <3>1
    <3>3. d - 2 \notin T
      <4>. HIDE DEF T
      <4>1. d - 2 \in T => d <= d - 2
        BY <2>3, Zenon
      <4>2. ~(d <= d - 2)
        BY <1>1, <2>4
      <4>. QED
        BY <4>1, <4>2
    <3>. QED
      BY <3>2, <3>3
  <2>. HIDE DEF T, p
  <2>7. ASSUME NEW count \in 0 .. WM_KEY_COMBO_MAX PROVE K[p][count] = L[p][count]
    <3>1. K[p][count] = Found(spec, K, p, count) /\ L[p][count] = Found(spec, L, p, count)
      BY <2>5
    <3>2. CASE ~KeyAt(spec, p) \/ count >= WM_KEY_COMBO_MAX \/ p = Len(spec)
      BY <3>1, <3>2 DEF Found
    <3>3. CASE KeyAt(spec, p) /\ ~(count >= WM_KEY_COMBO_MAX) /\ p # Len(spec)
      <4>1. p < Len(spec) /\ count + 1 \in 0 .. WM_KEY_COMBO_MAX
        BY <1>1, <2>5, <3>3 DEF KeyAt
      <4>2. K[p + 2][count + 1] = L[p + 2][count + 1]
        BY <2>6, <4>1
      <4>. QED
        BY <3>1, <4>2 DEF Found
    <3>. QED
      BY <3>2, <3>3
  <2>. QED
    BY <2>4, <2>7
<1>3. ASSUME NEW p \in 1 .. Len(spec) + 1 PROVE Agree(p)
  <2>1. Len(spec) + 1 - p \in 0 .. Len(spec) /\ Len(spec) + 1 - (Len(spec) + 1 - p) = p
    BY <1>1
  <2>2. Len(spec) + 1 - p \notin T
    BY <1>2
  <2>. QED
    BY <2>1, <2>2
<1>. QED
  BY <1>3

\* What the code finds is the reading of the text.
LEMMA ComboIsReading ==
  ASSUME NEW Char, NEW spec \in Seq(Char)
  PROVE  wm_key_combo_from_str(spec)
           = IF Spelled(spec, 1, WM_KEY_COMBO_MAX) THEN KeysOf(spec, 1) ELSE <<>>
<1>. DEFINE K == CHOOSE K : K = Walk(spec, K)
            R == Reading(spec)
            P == 1 .. Len(spec) + 1
            C == 0 .. WM_KEY_COMBO_MAX
<1>1. R = Walk(spec, R)
  <2>1. R = [p \in P |-> [count \in C |-> R[p][count]]]
    BY DEF Reading
  <2>2. Walk(spec, R) = [p \in P |-> [count \in C |-> Walk(spec, R)[p][count]]]
    BY DEF Walk
  <2>3. \A p \in P, count \in C : R[p][count] = Walk(spec, R)[p][count]
    BY ReadingFinds, WalkFinds
  <2>. HIDE DEF R, P, C
  <2>. QED
    BY <2>1, <2>2, <2>3
<1>2. K = Walk(spec, K)
  <2>. HIDE DEF R
  <2>. QED
    BY <1>1, Zenon
<1>. HIDE DEF K
<1>3. \A p \in P, count \in C : K[p][count] = Found(spec, K, p, count)
  <2>1. \A p \in P, count \in C : Walk(spec, K)[p][count] = Found(spec, K, p, count)
    BY WalkFinds
  <2>. QED
    BY <1>2, <2>1, Zenon
<1>4. \A p \in P, count \in C : R[p][count] = Found(spec, R, p, count)
  BY ReadingFinds
<1>5. 1 \in P /\ 0 \in C
  BY ComboAssumption
<1>6. K[1][0] = R[1][0]
  <2>. HIDE DEF R
  <2>1. \A p \in P, count \in C : K[p][count] = R[p][count]
    BY <1>3, <1>4, OneSolution
  <2>. QED
    BY <1>5, <2>1
<1>7. wm_key_combo_from_str(spec) = K[1][0]
  BY KeysSolve DEF K
<1>8. R[1][0] = IF Spelled(spec, 1, WM_KEY_COMBO_MAX) THEN KeysOf(spec, 1) ELSE <<>>
  <2>1. WM_KEY_COMBO_MAX - 0 = WM_KEY_COMBO_MAX
    BY ComboAssumption
  <2>. QED
    BY <1>5, <2>1 DEF Reading
<1>. QED
  BY <1>6, <1>7, <1>8, Zenon

-----------------------------------------------------------------------------
(* The text of a combo.                                                    *)

\* The places of a text of 2n - 1 characters.
LEMMA OddAndEven ==
  ASSUME NEW n \in Nat \ {0}, NEW j \in 1 .. 2 * n - 1
  PROVE  /\ j % 2 = 1 => /\ (j + 1) \div 2 \in 1 .. n
                         /\ 1 + 2 * ((j + 1) \div 2) - 2 = j
         /\ j % 2 # 1 => \E i \in 1 .. n - 1 : j = 1 + 2 * i - 1
<1>1. ASSUME j % 2 = 1
      PROVE  (j + 1) \div 2 \in 1 .. n /\ 1 + 2 * ((j + 1) \div 2) - 2 = j
  BY <1>1
<1>2. ASSUME j % 2 # 1 PROVE \E i \in 1 .. n - 1 : j = 1 + 2 * i - 1
  <2>1. j \div 2 \in 1 .. n - 1 /\ j = 1 + 2 * (j \div 2) - 1
    BY <1>2
  <2>. QED
    BY <2>1
<1>. QED
  BY <1>1, <1>2

\* What is spelled is the spelling of its keys.
LEMMA SpelledIsSpelling ==
  ASSUME NEW Char, NEW spec \in Seq(Char), Spelled(spec, 1, WM_KEY_COMBO_MAX)
  PROVE  KeysOf(spec, 1) \in Combos /\ Spelling(KeysOf(spec, 1)) = spec
<1>. DEFINE keys == KeysOf(spec, 1)
<1>1. Len(spec) \in Nat /\ WM_KEY_COMBO_MAX \in Nat
  BY ComboAssumption
<1>2. PICK n \in 1 .. WM_KEY_COMBO_MAX :
        /\ Len(spec) - 1 = 2 * n - 2
        /\ \A i \in 0 .. n - 1 : spec[1 + 2 * i] \in Key
        /\ \A i \in 1 .. n - 1 : spec[1 + 2 * i - 1] = Plus
  BY DEF Spelled
<1>3. keys = [i \in 1 .. n |-> spec[1 + 2 * i - 2]]
  <2>1. (Len(spec) - 1) \div 2 + 1 = n
    BY <1>2, HalfOf
  <2>. QED
    BY <2>1 DEF KeysOf
<1>4. \A i \in 1 .. n : spec[1 + 2 * i - 2] \in Key
  <2>1. \A i \in 1 .. n : i - 1 \in 0 .. n - 1 /\ 1 + 2 * (i - 1) = 1 + 2 * i - 2
    BY <1>1
  <2>. QED
    BY <1>2, <2>1
<1>. HIDE DEF keys
<1>5. keys \in [1 .. n -> Key]
  BY <1>3, <1>4
<1>6. keys \in Combos
  BY <1>5 DEF Combos
<1>7. Len(keys) = n
  BY <1>1, <1>5
<1>8. Spelling(keys)
        = [j \in 1 .. 2 * n - 1 |-> IF j % 2 = 1 THEN keys[(j + 1) \div 2] ELSE Plus]
  BY <1>7 DEF Spelling
<1>9. Len(spec) = 2 * n - 1
  BY <1>1, <1>2
<1>10. ASSUME NEW j \in 1 .. 2 * n - 1
       PROVE  (IF j % 2 = 1 THEN keys[(j + 1) \div 2] ELSE Plus) = spec[j]
  <2>0. n \in Nat \ {0}
    BY <1>1
  <2>1. CASE j % 2 = 1
    <3>1. (j + 1) \div 2 \in 1 .. n /\ 1 + 2 * ((j + 1) \div 2) - 2 = j
      BY <2>0, <2>1, OddAndEven
    <3>. DEFINE h == (j + 1) \div 2
    <3>2. keys[h] = spec[1 + 2 * h - 2]
      <4>1. h \in 1 .. n
        BY <3>1
      <4>. HIDE DEF h
      <4>. QED
        BY <1>3, <4>1
    <3>. QED
      BY <2>1, <3>1, <3>2
  <2>2. CASE j % 2 # 1
    <3>1. PICK i \in 1 .. n - 1 : j = 1 + 2 * i - 1
      BY <2>0, <2>2, OddAndEven
    <3>. QED
      BY <1>2, <2>2, <3>1
  <2>. QED
    BY <2>1, <2>2
<1>11. spec = [j \in 1 .. 2 * n - 1 |-> spec[j]]
  BY <1>9
<1>12. Spelling(keys) = spec
  BY <1>8, <1>10, <1>11
<1>. QED
  BY <1>6, <1>12 DEF keys

\* A spelling is spelled.
LEMMA SpellingIsSpelled ==
  ASSUME NEW keys \in Combos
  PROVE  Spelled(Spelling(keys), 1, WM_KEY_COMBO_MAX)
<1>. DEFINE spec == Spelling(keys)
<1>1. PICK n \in 1 .. WM_KEY_COMBO_MAX : keys \in [1 .. n -> Key]
  BY DEF Combos
<1>2. WM_KEY_COMBO_MAX \in Nat /\ n \in Nat /\ Len(keys) = n
  BY <1>1, ComboAssumption
<1>3. spec = [j \in 1 .. 2 * n - 1 |-> IF j % 2 = 1 THEN keys[(j + 1) \div 2] ELSE Plus]
  BY <1>2 DEF Spelling
<1>. HIDE DEF spec
<1>4. Len(spec) = 2 * n - 1
  <2>1. 2 * n - 1 \in Nat
    BY <1>1, <1>2
  <2>. QED
    BY <1>3, <2>1
<1>5. ASSUME NEW i \in 0 .. n - 1 PROVE spec[1 + 2 * i] \in Key
  <2>1. /\ 1 + 2 * i \in 1 .. 2 * n - 1 /\ (1 + 2 * i) % 2 = 1
        /\ (1 + 2 * i + 1) \div 2 = i + 1 /\ i + 1 \in 1 .. n
    BY <1>2
  <2>2. spec[1 + 2 * i] = keys[i + 1]
    BY <1>3, <2>1
  <2>. QED
    BY <1>1, <2>1, <2>2
<1>6. ASSUME NEW i \in 1 .. n - 1 PROVE spec[1 + 2 * i - 1] = Plus
  <2>1. 1 + 2 * i - 1 \in 1 .. 2 * n - 1 /\ (1 + 2 * i - 1) % 2 # 1
    BY <1>2
  <2>. QED
    BY <1>3, <2>1
<1>7. Len(spec) - 1 = 2 * n - 2
  BY <1>2, <1>4
<1>. QED
  BY <1>5, <1>6, <1>7 DEF Spelled, spec

LEMMA NothingSpellsNothing == \A keys \in Combos : Spelling(keys) # <<>>
<1>1. ASSUME NEW keys \in Combos, Spelling(keys) = <<>> PROVE FALSE
  <2>1. PICK n \in 1 .. WM_KEY_COMBO_MAX : Len(<<>>) - 1 = 2 * n - 2
    BY <1>1, SpellingIsSpelled DEF Spelled
  <2>2. n \in Int /\ -1 = 2 * n - 2
    BY <2>1
  <2>. QED
    BY <2>2
<1>. QED
  BY <1>1

\* wm_key_combo_from_str takes exactly the texts that spell a combo, of a known key at
\* least and of no more than there is room for, and takes each for the combo it spells
\* (wm.c:78-112).
THEOREM ComboIsItsText ==
  ASSUME NEW Char, NEW spec \in Seq(Char)
  PROVE  LET combo == wm_key_combo_from_str(spec)
         IN  /\ combo = Invalid => \A keys \in Combos : Spelling(keys) # spec
             /\ combo # Invalid => combo \in Combos /\ Spelling(combo) = spec
<1>. DEFINE combo == wm_key_combo_from_str(spec)
<1>1. combo = IF Spelled(spec, 1, WM_KEY_COMBO_MAX) THEN KeysOf(spec, 1) ELSE <<>>
  BY ComboIsReading
<1>. HIDE DEF combo
<1>2. CASE Spelled(spec, 1, WM_KEY_COMBO_MAX)
  <2>1. combo = KeysOf(spec, 1) /\ KeysOf(spec, 1) # <<>>
    <3>1. 1 \in 1 .. Len(spec) + 1 /\ WM_KEY_COMBO_MAX \in Nat
      BY ComboAssumption
    <3>. QED
      BY <1>1, <1>2, <3>1, KeysFirst
  <2>. QED
    BY <1>2, <2>1, SpelledIsSpelling DEF Invalid, combo
<1>3. CASE ~Spelled(spec, 1, WM_KEY_COMBO_MAX)
  <2>1. combo = <<>>
    BY <1>1, <1>3
  <2>2. \A keys \in Combos : Spelling(keys) # spec
    BY <1>3, SpellingIsSpelled
  <2>. QED
    BY <2>1, <2>2 DEF Invalid, combo
<1>. QED
  BY <1>2, <1>3

-----------------------------------------------------------------------------
(* The command line: how it is read.                                       *)

\* Nothing in these proofs depends on what a character is; STRING by another name keeps
\* it from the provers, which know too much of STRING.
Character == STRING

Chars == /\ {Blank, Quote, Backslash, WorkerFlag, RestartFlag, ScriptFlag} \subseteq Character
         /\ Self \in Seq(Character) /\ DefaultScript \in Seq(Character)

LEMMA CharsAre == Chars
BY CharAssumption, SelfAssumption DEF Chars, Character

Reader == [args : Seq(Seq(Character)), text : Seq(Character), open : BOOLEAN,
           quoted : BOOLEAN, slashes : Nat]

State(a, t, o, q, n) == [args |-> a, text |-> t, open |-> o, quoted |-> q, slashes |-> n]

LEMMA AppendIs ==
  ASSUME NEW S, NEW s \in Seq(S), NEW x \in S
  PROVE  /\ Append(s, x) \in Seq(S)
         /\ Len(Append(s, x)) = Len(s) + 1
         /\ Append(s, x)[Len(s) + 1] = x
         /\ \A i \in 1 .. Len(s) : Append(s, x)[i] = s[i]
OBVIOUS

LEMMA AppendCharIs ==
  ASSUME NEW s \in Seq(Character), NEW c \in Character
  PROVE  /\ Append(s, c) \in Seq(Character)
         /\ Len(Append(s, c)) = Len(s) + 1
         /\ Append(s, c)[Len(s) + 1] = c
         /\ \A i \in 1 .. Len(s) : Append(s, c)[i] = s[i]
BY AppendIs

LEMMA ConcatAppend ==
  ASSUME NEW S, NEW s \in Seq(S), NEW t \in Seq(S), NEW x \in S
  PROVE  s \o Append(t, x) = Append(s \o t, x)
OBVIOUS

LEMMA ConcatTyped ==
  ASSUME NEW S, NEW s \in Seq(S), NEW t \in Seq(S)
  PROVE  s \o t \in Seq(S)
OBVIOUS

LEMMA ConcatNothing ==
  ASSUME NEW S, NEW s \in Seq(S)
  PROVE  s \o <<>> = s
OBVIOUS

LEMMA BackslashesIs ==
  ASSUME NEW n \in Nat
  PROVE  Backslashes(n) \in Seq(Character) /\ Len(Backslashes(n)) = n /\ Backslashes(0) = <<>>
<1>1. Backslash \in Character
  BY CharAssumption, CharsAre DEF Chars
<1>2. Backslashes(n) \in [1 .. n -> Character]
  BY <1>1 DEF Backslashes
<1>3. Backslashes(0) = <<>>
  BY DEF Backslashes
<1>. QED
  BY <1>2, <1>3

LEMMA OneBackslashMore ==
  ASSUME NEW n \in Nat
  PROVE  Backslashes(n + 1) = Append(Backslashes(n), Backslash)
<1>. DEFINE b == Backslashes(n)
            m == Backslashes(n + 1)
<1>1. Backslash \in Character /\ n + 1 \in Nat
  BY CharAssumption, CharsAre DEF Chars
<1>2. b \in Seq(Character) /\ Len(b) = n /\ m \in Seq(Character) /\ Len(m) = n + 1
  BY <1>1, BackslashesIs
<1>3. /\ \A i \in 1 .. n : b[i] = Backslash
      /\ \A i \in 1 .. n + 1 : m[i] = Backslash
  BY DEF Backslashes
<1>. DEFINE a == Append(b, Backslash)
<1>. HIDE DEF b, m
<1>4. /\ a \in Seq(Character) /\ Len(a) = n + 1 /\ a[n + 1] = Backslash
      /\ \A i \in 1 .. n : a[i] = b[i]
  BY <1>1, <1>2, AppendCharIs
<1>. HIDE DEF a
<1>5. \A i \in 1 .. n + 1 : a[i] = m[i]
  <2>. SUFFICES ASSUME NEW i \in 1 .. n + 1 PROVE a[i] = m[i]
    OBVIOUS
  <2>1. i \in 1 .. n \/ i = n + 1
    OBVIOUS
  <2>. QED
    BY <1>3, <1>4, <2>1
<1>6. a = m
  BY <1>2, <1>4, <1>5
<1>. QED
  BY <1>6 DEF a, b, m

\* A state of the reader and its parts.
LEMMA ReaderParts ==
  ASSUME NEW s \in Reader
  PROVE  /\ s.args \in Seq(Seq(Character)) /\ s.text \in Seq(Character)
         /\ s.open \in BOOLEAN /\ s.quoted \in BOOLEAN /\ s.slashes \in Nat
         /\ s = State(s.args, s.text, s.open, s.quoted, s.slashes)
BY DEF Reader, State

LEMMA StateIs ==
  ASSUME NEW a, NEW t, NEW o, NEW q, NEW n
  PROVE  /\ State(a, t, o, q, n).args = a
         /\ State(a, t, o, q, n).text = t
         /\ State(a, t, o, q, n).open = o
         /\ State(a, t, o, q, n).quoted = q
         /\ State(a, t, o, q, n).slashes = n
BY DEF State

LEMMA StateTyped ==
  ASSUME NEW a \in Seq(Seq(Character)), NEW t \in Seq(Character), NEW o \in BOOLEAN,
         NEW q \in BOOLEAN, NEW n \in Nat
  PROVE  State(a, t, o, q, n) \in Reader
BY DEF State, Reader

LEMMA FlushedIs ==
  ASSUME NEW s \in Reader
  PROVE  /\ Flushed(s) = State(s.args, s.text \o Backslashes(s.slashes), s.open, s.quoted, 0)
         /\ Flushed(s) \in Reader
<1>. DEFINE t == s.text \o Backslashes(s.slashes)
            f == Flushed(s)
<1>1. s.text \in Seq(Character) /\ Backslashes(s.slashes) \in Seq(Character)
  BY ReaderParts, BackslashesIs
<1>2. t \in Seq(Character)
  BY <1>1
<1>3. f = [s EXCEPT !.text = t, !.slashes = 0]
  BY DEF Flushed
<1>. HIDE DEF t, f
<1>4. /\ f \in Reader /\ f.args = s.args /\ f.text = t
      /\ f.open = s.open /\ f.quoted = s.quoted /\ f.slashes = 0
  BY <1>2, <1>3 DEF Reader
<1>5. f = State(s.args, t, s.open, s.quoted, 0)
  BY <1>4, ReaderParts, Zenon
<1>. QED
  BY <1>4, <1>5 DEF t, f

LEMMA ClosedIs ==
  ASSUME NEW s \in Reader
  PROVE  /\ s.open => Closed(s) = State(Append(s.args, s.text), <<>>, FALSE, s.quoted, s.slashes)
         /\ ~s.open => Closed(s) = s
         /\ Closed(s) \in Reader
<1>. DEFINE a == Append(s.args, s.text)
<1>1. a \in Seq(Seq(Character)) /\ <<>> \in Seq(Character)
  BY DEF Reader
<1>2. s.open => Closed(s) = [s EXCEPT !.args = a, !.text = <<>>, !.open = FALSE]
  BY DEF Closed
<1>3. ~s.open => Closed(s) = s
  BY DEF Closed
<1>. HIDE DEF a
<1>4. s.open => /\ Closed(s) \in Reader /\ Closed(s).args = a /\ Closed(s).text = <<>>
                /\ Closed(s).open = FALSE /\ Closed(s).quoted = s.quoted
                /\ Closed(s).slashes = s.slashes
  BY <1>1, <1>2 DEF Reader
<1>5. ASSUME s.open PROVE Closed(s) = State(a, <<>>, FALSE, s.quoted, s.slashes)
  <2>. DEFINE r == Closed(s)
              none == FALSE
  <2>1. /\ r \in Reader /\ r.args = a /\ r.text = <<>> /\ r.open = none
        /\ r.quoted = s.quoted /\ r.slashes = s.slashes
    BY <1>4, <1>5
  <2>. HIDE DEF r, none
  <2>2. r = State(a, <<>>, none, s.quoted, s.slashes)
    BY <2>1, ReaderParts, ZenonT(30)
  <2>. QED
    BY <2>2 DEF r, none
<1>. QED
  BY <1>3, <1>4, <1>5 DEF a

LEMMA ReadBackslash ==
  ASSUME NEW s \in Reader
  PROVE  /\ ReadChar(s, Backslash) = State(s.args, s.text, TRUE, s.quoted, s.slashes + 1)
         /\ ReadChar(s, Backslash) \in Reader
<1>. DEFINE r == ReadChar(s, Backslash)
            n == s.slashes + 1
<1>1. r = [s EXCEPT !.slashes = n, !.open = TRUE]
  BY CharAssumption, CharsAre DEF ReadChar, Chars
<1>2. n \in Nat
  BY ReaderParts
<1>. HIDE DEF r, n
<1>3. /\ r \in Reader /\ r.args = s.args /\ r.text = s.text /\ r.open = TRUE
      /\ r.quoted = s.quoted /\ r.slashes = n
  BY <1>1, <1>2 DEF Reader
<1>4. r = State(s.args, s.text, TRUE, s.quoted, n)
  BY <1>3, ReaderParts, Zenon
<1>. QED
  BY <1>3, <1>4 DEF r, n

LEMMA ReadQuoteIs ==
  ASSUME NEW s \in Reader
  PROVE  /\ ReadChar(s, Quote) = ReadQuote(s)
         /\ ReadQuote(s).args = s.args
         /\ s.slashes = 0 => ReadQuote(s) = State(s.args, s.text, TRUE, ~s.quoted, 0)
         /\ s.slashes = 1 => ReadQuote(s) = State(s.args, Append(s.text, Quote), TRUE, s.quoted, 0)
         /\ ReadQuote(s) \in Reader
<1>. DEFINE odd == s.slashes % 2 = 1
            half == s.slashes \div 2
            tail == IF odd THEN <<Quote>> ELSE <<>>
            t == s.text \o Backslashes(half) \o tail
            q == IF odd THEN s.quoted ELSE ~s.quoted
            r == ReadQuote(s)
<1>0. ReadChar(s, Quote) = ReadQuote(s)
  BY CharAssumption, CharsAre DEF ReadChar, Chars
<1>1. s.slashes \in Nat /\ s.text \in Seq(Character) /\ Quote \in Character
  BY ReaderParts, CharAssumption, CharsAre DEF Chars
<1>2. half \in Nat /\ (s.slashes = 0 => half = 0 /\ ~odd) /\ (s.slashes = 1 => half = 0 /\ odd)
  BY <1>1
<1>3. r = [s EXCEPT !.text = t, !.quoted = q, !.slashes = 0, !.open = TRUE]
  BY DEF ReadQuote
<1>. HIDE DEF odd, half, r
<1>4. Backslashes(half) \in Seq(Character) /\ Backslashes(0) = <<>>
  BY <1>2, BackslashesIs
<1>5. tail \in Seq(Character)
  <2>1. CASE odd
    BY <1>1, <2>1
  <2>2. CASE ~odd
    <3>1. tail = <<>> /\ <<>> \in Seq(Character)
      BY <2>2
    <3>. QED
      BY <3>1
  <2>. QED
    BY <2>1, <2>2
<1>6. t \in Seq(Character)
  <2>. HIDE DEF tail
  <2>. QED
    BY <1>1, <1>4, <1>5
<1>7. q \in BOOLEAN
  BY ReaderParts, Zenon
<1>9. s.slashes = 0 => t = s.text /\ q = ~s.quoted
  BY <1>1, <1>2, <1>4
<1>10. s.slashes = 1 => t = Append(s.text, Quote) /\ q = s.quoted
  BY <1>1, <1>2, <1>4
<1>. HIDE DEF t, q
<1>8. /\ r \in Reader /\ r.args = s.args /\ r.text = t /\ r.open = TRUE
      /\ r.quoted = q /\ r.slashes = 0
  BY <1>3, <1>6, <1>7 DEF Reader
<1>11. r = State(s.args, t, TRUE, q, 0)
  BY <1>8, ReaderParts, Zenon
<1>. QED
  BY <1>0, <1>8, <1>9, <1>10, <1>11, Zenon DEF r

LEMMA ReadBlank ==
  ASSUME NEW s \in Reader, ~s.quoted
  PROVE  ReadChar(s, Blank) = Closed(Flushed(s)) /\ ReadChar(s, Blank) \in Reader
<1>1. ReadChar(s, Blank) = Closed(Flushed(s))
  BY CharAssumption, CharsAre DEF ReadChar, Chars
<1>. QED
  BY <1>1, FlushedIs, ClosedIs

LEMMA ReadOther ==
  ASSUME NEW s \in Reader, NEW c \in Character,
         c # Backslash, c # Quote, c = Blank => s.quoted
  PROVE  /\ ReadChar(s, c) = State(s.args, Append(s.text \o Backslashes(s.slashes), c),
                                   TRUE, s.quoted, 0)
         /\ ReadChar(s, c) \in Reader
<1>. DEFINE t == s.text \o Backslashes(s.slashes)
            f == Flushed(s)
            r == ReadChar(s, c)
<1>1. r = [f EXCEPT !.text = Append(@, c), !.open = TRUE]
  BY DEF ReadChar
<1>2. f = State(s.args, t, s.open, s.quoted, 0) /\ f \in Reader
  BY FlushedIs
<1>. HIDE DEF t, f, r
<1>3. f.args = s.args /\ f.text = t /\ f.quoted = s.quoted /\ f.slashes = 0
  BY <1>2, StateIs
<1>4. t \in Seq(Character)
  BY <1>2, <1>3 DEF Reader
<1>5. Append(t, c) \in Seq(Character) /\ r = [f EXCEPT !.text = Append(t, c), !.open = TRUE]
  BY <1>1, <1>3, <1>4
<1>6. /\ r \in Reader /\ r.args = s.args /\ r.text = Append(t, c) /\ r.open = TRUE
      /\ r.quoted = s.quoted /\ r.slashes = 0
  BY <1>2, <1>3, <1>5 DEF Reader
<1>7. r = State(s.args, Append(t, c), TRUE, s.quoted, 0)
  BY <1>6, ReaderParts, Zenon
<1>. QED
  BY <1>6, <1>7 DEF t, r

\* Whatever is read, the arguments had before stay.
LEMMA ReadCharTyped ==
  ASSUME NEW s \in Reader, NEW c \in Character
  PROVE  ReadChar(s, c) \in Reader
<1>1. CASE c = Backslash
  BY <1>1, ReadBackslash
<1>2. CASE c = Quote
  BY <1>2, ReadQuoteIs
<1>3. CASE c = Blank /\ ~s.quoted
  BY <1>3, ReadBlank
<1>4. CASE c # Backslash /\ c # Quote /\ (c = Blank => s.quoted)
  BY <1>4, ReadOther
<1>. QED
  BY <1>1, <1>2, <1>3, <1>4

LEMMA NoArgumentIs ==
  /\ NoArgument \in Reader
  /\ NoArgument = State(<<>>, <<>>, FALSE, FALSE, 0)
BY DEF NoArgument, Reader, State

\* The states of the reader, character by character.
UptoOf(line) == CHOOSE U : U = [n \in 0 .. Len(line) |->
                  IF n <= Len(Self) + 2 THEN NoArgument ELSE ReadChar(U[n - 1], line[n])]

LEMMA UptoExists ==
  ASSUME NEW line \in Seq(Character)
  PROVE  /\ UptoOf(line) = [n \in 0 .. Len(line) |->
              IF n <= Len(Self) + 2 THEN NoArgument ELSE ReadChar(UptoOf(line)[n - 1], line[n])]
         /\ UptoOf(line) \in [0 .. Len(line) -> Reader]
         /\ Read(line) = UptoOf(line)[Len(line)]
<1>. DEFINE skip == Len(Self) + 2
            step == [i \in 1 .. Len(line) |-> [s \in Reader |->
                       IF i <= skip THEN NoArgument ELSE ReadChar(s, line[i])]]
<1>0. Len(line) \in Nat /\ skip \in Nat
  BY SelfAssumption
<1>1. \A i \in 1 .. Len(line) : line[i] \in Character
  OBVIOUS
<1>. HIDE DEF skip
<1>2. \A i \in 1 .. Len(line), s \in Reader :
        step[i][s] = IF i <= skip THEN NoArgument ELSE ReadChar(s, line[i])
  OBVIOUS
<1>3. \A i \in 1 .. Len(line), s \in Reader : step[i][s] \in Reader
  <2>. HIDE DEF step
  <2>. QED
    BY <1>1, <1>2, ReadCharTyped, NoArgumentIs
<1>. HIDE DEF step
<1>4. PICK U : Iterates(Len(line), Reader, NoArgument, step, U)
  BY <1>0, <1>3, NoArgumentIs, Iteration DEF Steps
<1>5. \A i \in 0 .. Len(line) : ~(i <= skip) => i \in 1 .. Len(line) /\ U[i - 1] \in Reader
  <2>1. \A i \in 0 .. Len(line) : ~(i <= skip) => i \in 1 .. Len(line) /\ i - 1 \in 0 .. Len(line)
    BY <1>0
  <2>. QED
    BY <1>4, <2>1 DEF Iterates
<1>6. \A i \in 0 .. Len(line) :
        U[i] = IF i <= skip THEN NoArgument ELSE ReadChar(U[i - 1], line[i])
  <2>. SUFFICES ASSUME NEW i \in 0 .. Len(line)
                PROVE  U[i] = IF i <= skip THEN NoArgument ELSE ReadChar(U[i - 1], line[i])
    OBVIOUS
  <2>1. CASE i = 0
    <3>1. i <= skip /\ U[i] = NoArgument
      BY <1>0, <1>4, <2>1 DEF Iterates
    <3>. QED
      BY <3>1, Zenon
  <2>2. CASE i # 0
    <3>1. i \in 1 .. Len(line) /\ i - 1 \in 0 .. Len(line)
      BY <2>2
    <3>2. U[i - 1] \in Reader /\ U[i] = step[i][U[i - 1]]
      BY <1>4, <3>1, Zenon DEF Iterates
    <3>. QED
      BY <1>2, <3>1, <3>2, Zenon
  <2>. QED
    BY <2>1, <2>2
<1>7. U = [n \in 0 .. Len(line) |-> IF n <= skip THEN NoArgument ELSE ReadChar(U[n - 1], line[n])]
  <2>1. U = [n \in 0 .. Len(line) |-> U[n]]
    BY <1>4 DEF Iterates
  <2>. QED
    BY <1>6, <2>1, Zenon
<1>8. UptoOf(line) = [n \in 0 .. Len(line) |->
              IF n <= skip THEN NoArgument ELSE ReadChar(UptoOf(line)[n - 1], line[n])]
  BY <1>7, Zenon DEF UptoOf, skip
<1>9. Read(line) = UptoOf(line)[Len(line)]
  BY DEF Read, UptoOf
<1>10. UptoOf(line) \in [0 .. Len(line) -> Reader]
  <2>. DEFINE V == UptoOf(line)
              G == {i \in 0 .. Len(line) : V[i] \in Reader}
  <2>1. V = [n \in 0 .. Len(line) |-> IF n <= skip THEN NoArgument ELSE ReadChar(V[n - 1], line[n])]
    BY <1>8
  <2>. HIDE DEF V
  <2>2. \A n \in 0 .. Len(line) : V[n] = IF n <= skip THEN NoArgument ELSE ReadChar(V[n - 1], line[n])
    BY <2>1, Zenon
  <2>3. 0 \in G
    <3>1. 0 \in 0 .. Len(line) /\ 0 <= skip
      BY <1>0
    <3>2. V[0] = NoArgument
      BY <2>2, <3>1, Zenon
    <3>. QED
      BY <3>1, <3>2, NoArgumentIs
  <2>4. ASSUME NEW i \in 0 .. Len(line) - 1, i \in G PROVE i + 1 \in G
    <3>1. i + 1 \in 0 .. Len(line) /\ i + 1 \in 1 .. Len(line) /\ i + 1 - 1 = i /\ V[i] \in Reader
      BY <1>0, <2>4
    <3>2. V[i + 1] = IF i + 1 <= skip THEN NoArgument ELSE ReadChar(V[i], line[i + 1])
      BY <2>2, <3>1
    <3>3. V[i + 1] \in Reader
      BY <1>1, <3>1, <3>2, ReadCharTyped, NoArgumentIs
    <3>. QED
      BY <3>1, <3>3
  <2>. HIDE DEF G
  <2>5. \A i \in 0 .. Len(line) : i \in G
    BY <1>0, <2>3, <2>4, InductionUpTo
  <2>. QED
    BY <2>1, <2>5 DEF V, G
<1>. QED
  BY <1>8, <1>9, <1>10 DEF skip

\* One character more.
LEMMA ReadIs ==
  ASSUME NEW line \in Seq(Character)
  PROVE  /\ Read(line) \in Reader
         /\ Len(line) <= Len(Self) + 2 => Read(line) = NoArgument
         /\ \A c \in Character : ~(Len(line) + 1 <= Len(Self) + 2)
              => Read(Append(line, c)) = ReadChar(Read(line), c)
<1>. DEFINE U == UptoOf(line)
            N == Len(line)
<1>0. N \in Nat /\ Len(Self) \in Nat
  BY SelfAssumption
<1>1. U = [n \in 0 .. N |-> IF n <= Len(Self) + 2 THEN NoArgument ELSE ReadChar(U[n - 1], line[n])]
  BY UptoExists
<1>2. U \in [0 .. N -> Reader] /\ Read(line) = U[N]
  BY UptoExists
<1>. HIDE DEF U
<1>3. \A n \in 0 .. N : U[n] = IF n <= Len(Self) + 2 THEN NoArgument ELSE ReadChar(U[n - 1], line[n])
  <2>. HIDE DEF N
  <2>. QED
    BY <1>1, Zenon
<1>4. Read(line) \in Reader /\ (N <= Len(Self) + 2 => Read(line) = NoArgument)
  <2>. HIDE DEF N
  <2>. QED
    BY <1>0, <1>2, <1>3
<1>5. ASSUME NEW c \in Character, ~(N + 1 <= Len(Self) + 2)
      PROVE  Read(Append(line, c)) = ReadChar(Read(line), c)
  <2>. DEFINE more == Append(line, c)
              V == UptoOf(more)
  <2>1. more \in Seq(Character) /\ Len(more) = N + 1 /\ more[N + 1] = c
        /\ \A i \in 1 .. N : more[i] = line[i]
    BY AppendCharIs
  <2>. HIDE DEF more, N
  <2>2. V = [n \in 0 .. N + 1 |-> IF n <= Len(Self) + 2 THEN NoArgument ELSE ReadChar(V[n - 1], more[n])]
        /\ Read(more) = V[N + 1]
    BY <2>1, UptoExists
  <2>. HIDE DEF V
  <2>3. \A n \in 0 .. N + 1 : V[n] = IF n <= Len(Self) + 2 THEN NoArgument ELSE ReadChar(V[n - 1], more[n])
    BY <2>2, Zenon
  <2>. DEFINE G == {i \in 0 .. N : V[i] = U[i]}
  <2>4. 0 \in G
    BY <1>0, <1>3, <2>3
  <2>5. ASSUME NEW i \in 0 .. N - 1, i \in G PROVE i + 1 \in G
    <3>1. /\ i + 1 \in 0 .. N /\ i + 1 \in 0 .. N + 1 /\ i + 1 \in 1 .. N
          /\ i + 1 - 1 = i /\ V[i] = U[i]
      BY <1>0, <2>5
    <3>2. V[i + 1] = U[i + 1]
      BY <1>3, <2>1, <2>3, <3>1
    <3>. QED
      BY <3>1, <3>2
  <2>. HIDE DEF G
  <2>6. \A i \in 0 .. N : i \in G
    BY <1>0, <2>4, <2>5, InductionUpTo
  <2>7. V[N] = U[N] /\ N + 1 \in 0 .. N + 1 /\ N + 1 - 1 = N
    BY <1>0, <2>6 DEF G
  <2>8. V[N + 1] = ReadChar(V[N], c)
    <3>. DEFINE m == N + 1
    <3>1. m \in 0 .. N + 1 /\ m - 1 = N /\ ~(m <= Len(Self) + 2) /\ more[m] = c
      BY <1>0, <1>5, <2>1, <2>7
    <3>. HIDE DEF m
    <3>2. V[m] = ReadChar(V[m - 1], more[m])
      BY <2>3, <3>1, Zenon
    <3>3. V[m] = ReadChar(V[N], c)
      BY <3>1, <3>2, Zenon
    <3>. QED
      BY <3>3 DEF m
  <2>. QED
    BY <1>2, <2>2, <2>7, <2>8 DEF more
<1>. QED
  BY <1>4, <1>5

-----------------------------------------------------------------------------
(* How the line is written.                                                *)

\* There is room for another character and its backslash, so none was left out.
Ample(line) == Len(line) + 2 < COMMAND_LINE_CAP

LEMMA LongerIsTighter ==
  ASSUME NEW line, NEW more, Len(line) \in Nat, Len(more) \in Nat, Len(line) <= Len(more)
  PROVE  Ample(more) => Ample(line)
<1>. DEFINE m == Len(line)
            n == Len(more)
<1>1. m \in Nat /\ n \in Nat /\ m <= n /\ COMMAND_LINE_CAP \in Nat
  BY CapAssumption
<1>. HIDE DEF m, n
<1>2. n + 2 < COMMAND_LINE_CAP => m + 2 < COMMAND_LINE_CAP
  BY <1>1
<1>. QED
  BY <1>2 DEF Ample, m, n

LEMMA CharLen ==
  ASSUME NEW s \in Seq(Character)
  PROVE  Len(s) \in Nat
OBVIOUS

LEMMA PutIs ==
  ASSUME NEW line \in Seq(Character), NEW c \in Character
  PROVE  /\ Put(line, c) \in Seq(Character)
         /\ Len(line) <= Len(Put(line, c))
         /\ Ample(Put(line, c)) => Ample(line)
         /\ Len(line) + 1 < COMMAND_LINE_CAP => Put(line, c) = Append(line, c)
         /\ Ample(line) => Put(line, c) = Append(line, c)
         /\ Put(line, c) = Append(line, c) \/ Put(line, c) = line
<1>. DEFINE one == Append(line, c)
            r == Put(line, c)
            n == Len(line)
<1>1. one \in Seq(Character) /\ Len(one) = n + 1
  BY AppendCharIs, Zenon
<1>2. n \in Nat /\ COMMAND_LINE_CAP \in Nat
  BY CharLen, CapAssumption, Zenon
<1>3. r = IF n + 1 < COMMAND_LINE_CAP THEN one ELSE line
  BY Zenon DEF Put
<1>4. n + 2 < COMMAND_LINE_CAP => n + 1 < COMMAND_LINE_CAP
  <2>. HIDE DEF n
  <2>. QED
    BY <1>2
<1>5. r = one \/ r = line
  BY <1>3, Zenon
<1>. HIDE DEF one, r
<1>6. r \in Seq(Character)
  BY <1>1, <1>5, Zenon
<1>7. n <= Len(r)
  <2>1. Len(r) = n + 1 \/ Len(r) = n
    BY <1>1, <1>5, Zenon
  <2>. DEFINE m == Len(r)
  <2>. HIDE DEF n, m
  <2>2. n <= m
    BY <1>2, <2>1 DEF m
  <2>. QED
    BY <2>2 DEF m
<1>8. Ample(r) => Ample(line)
  BY <1>2, <1>6, <1>7, CharLen, LongerIsTighter, Zenon
<1>9. Ample(line) => n + 1 < COMMAND_LINE_CAP
  BY <1>4, Zenon DEF Ample
<1>. QED
  BY <1>3, <1>5, <1>6, <1>7, <1>8, <1>9, Zenon DEF one, r, n

LEMMA PutEscapedIs ==
  ASSUME NEW line \in Seq(Character), NEW c \in Character
  PROVE  /\ PutEscaped(line, c) \in Seq(Character)
         /\ Len(line) <= Len(PutEscaped(line, c))
         /\ Ample(PutEscaped(line, c)) => Ample(line)
         /\ Ample(line) /\ c # Quote => PutEscaped(line, c) = Append(line, c)
         /\ Ample(line) /\ c = Quote => PutEscaped(line, c) = Append(Append(line, Backslash), c)
         /\ \/ PutEscaped(line, c) = line
            \/ PutEscaped(line, c) = Append(line, c)
            \/ PutEscaped(line, c) = Append(Append(line, Backslash), c)
<1>. DEFINE one == Append(line, c)
            half == Append(line, Backslash)
            two == Append(half, c)
            r == PutEscaped(line, c)
            n == Len(line)
<1>1. one \in Seq(Character) /\ Len(one) = n + 1
  BY AppendCharIs, Zenon
<1>2. Backslash \in Character
  BY CharAssumption, CharsAre DEF Chars
<1>3. half \in Seq(Character) /\ Len(half) = n + 1
  BY <1>2, AppendCharIs, Zenon
<1>4. two \in Seq(Character) /\ Len(two) = Len(half) + 1
  <2>. HIDE DEF half
  <2>. QED
    BY <1>3, AppendCharIs, Zenon
<1>7. n \in Nat
  BY CharLen, Zenon
<1>8. r = IF Ample(line) THEN (IF c = Quote THEN two ELSE one) ELSE line
  <2>1. r = IF Ample(line) THEN Append(IF c = Quote THEN half ELSE line, c) ELSE line
    BY Zenon DEF PutEscaped, Ample
  <2>. HIDE DEF r, half
  <2>. QED
    BY <2>1, Zenon
<1>. HIDE DEF one, two, r, half
<1>9. r = line \/ r = one \/ r = two
  BY <1>8, Zenon
<1>10. r \in Seq(Character)
  BY <1>1, <1>4, <1>9, Zenon
<1>11. n <= Len(r)
  <2>1. Len(r) = n \/ Len(r) = n + 1 \/ Len(r) = n + 1 + 1
    BY <1>1, <1>3, <1>4, <1>9, Zenon
  <2>. DEFINE m == Len(r)
  <2>. HIDE DEF n, m
  <2>2. n <= m
    BY <1>7, <2>1 DEF m
  <2>. QED
    BY <2>2 DEF m
<1>12. Ample(r) => Ample(line)
  BY <1>7, <1>10, <1>11, CharLen, LongerIsTighter, Zenon
<1>. QED
  BY <1>8, <1>9, <1>10, <1>11, <1>12, Zenon DEF r, one, two, half, n

\* An argument between its quotes, character by character.
WrittenOf(line, text) == CHOOSE W : W = [n \in 0 .. Len(text) |->
                           IF n = 0 THEN Put(line, Quote) ELSE PutEscaped(W[n - 1], text[n])]

LEMMA WrittenExists ==
  ASSUME NEW line \in Seq(Character), NEW text \in Seq(Character)
  PROVE  /\ WrittenOf(line, text) = [n \in 0 .. Len(text) |->
              IF n = 0 THEN Put(line, Quote) ELSE PutEscaped(WrittenOf(line, text)[n - 1], text[n])]
         /\ WrittenOf(line, text) \in [0 .. Len(text) -> Seq(Character)]
         /\ append_quoted(line, text) = Put(WrittenOf(line, text)[Len(text)], Quote)
<1>. DEFINE N == Len(text)
            S == Seq(Character)
            base == Put(line, Quote)
            step == [i \in 1 .. N |-> [s \in S |-> PutEscaped(s, text[i])]]
<1>0. N \in Nat /\ base \in S
  BY CharLen, PutIs, CharAssumption, CharsAre DEF Chars
<1>1. \A i \in 1 .. N : text[i] \in Character
  OBVIOUS
<1>2. \A i \in 1 .. N, s \in S : step[i][s] = PutEscaped(s, text[i])
  OBVIOUS
<1>3. \A i \in 1 .. N, s \in S : step[i][s] \in S
  <2>. HIDE DEF step
  <2>. QED
    BY <1>1, <1>2, PutEscapedIs
<1>. HIDE DEF step, base, S, N
<1>4. PICK W : Iterates(N, S, base, step, W)
  BY <1>0, <1>3, Iteration DEF Steps
<1>5. \A i \in 0 .. N : W[i] = IF i = 0 THEN base ELSE PutEscaped(W[i - 1], text[i])
  <2>. SUFFICES ASSUME NEW i \in 0 .. N
                PROVE  W[i] = IF i = 0 THEN base ELSE PutEscaped(W[i - 1], text[i])
    OBVIOUS
  <2>1. CASE i = 0
    BY <1>4, <2>1 DEF Iterates
  <2>2. CASE i # 0
    <3>1. i \in 1 .. N /\ i - 1 \in 0 .. N
      BY <1>0, <2>2
    <3>2. W[i - 1] \in S /\ W[i] = step[i][W[i - 1]]
      BY <1>4, <3>1, Zenon DEF Iterates
    <3>. QED
      BY <1>2, <2>2, <3>1, <3>2, Zenon
  <2>. QED
    BY <2>1, <2>2
<1>6. W = [n \in 0 .. N |-> IF n = 0 THEN base ELSE PutEscaped(W[n - 1], text[n])]
  <2>1. W = [n \in 0 .. N |-> W[n]]
    BY <1>4 DEF Iterates
  <2>. QED
    BY <1>5, <2>1, Zenon
<1>7. WrittenOf(line, text) = [n \in 0 .. N |->
        IF n = 0 THEN base ELSE PutEscaped(WrittenOf(line, text)[n - 1], text[n])]
  BY <1>6, Zenon DEF WrittenOf, base, N
<1>8. append_quoted(line, text) = Put(WrittenOf(line, text)[N], Quote)
  BY DEF append_quoted, WrittenOf, N
<1>9. WrittenOf(line, text) \in [0 .. N -> S]
  <2>. DEFINE V == WrittenOf(line, text)
              G == {i \in 0 .. N : V[i] \in S}
  <2>1. V = [n \in 0 .. N |-> IF n = 0 THEN base ELSE PutEscaped(V[n - 1], text[n])]
    BY <1>7
  <2>. HIDE DEF V
  <2>2. \A n \in 0 .. N : V[n] = IF n = 0 THEN base ELSE PutEscaped(V[n - 1], text[n])
    BY <2>1, Zenon
  <2>3. 0 \in G
    BY <1>0, <2>2
  <2>4. ASSUME NEW i \in 0 .. N - 1, i \in G PROVE i + 1 \in G
    <3>1. /\ i + 1 \in 0 .. N /\ i + 1 \in 1 .. N /\ i + 1 - 1 = i /\ i + 1 # 0 /\ V[i] \in S
      BY <1>0, <2>4
    <3>2. V[i + 1] = PutEscaped(V[i], text[i + 1])
      BY <2>2, <3>1
    <3>3. V[i + 1] \in S
      BY <1>1, <3>1, <3>2, PutEscapedIs DEF S
    <3>. QED
      BY <3>1, <3>3
  <2>. HIDE DEF G
  <2>5. \A i \in 0 .. N : i \in G
    BY <1>0, <2>3, <2>4, InductionUpTo
  <2>. QED
    BY <2>1, <2>5 DEF V, G
<1>. QED
  BY <1>7, <1>8, <1>9 DEF base, N, S

\* The same, one character at a time.
LEMMA WrittenStep ==
  ASSUME NEW line \in Seq(Character), NEW text \in Seq(Character)
  PROVE  /\ WrittenOf(line, text)[0] = Put(line, Quote)
         /\ \A i \in 0 .. Len(text) - 1 :
              WrittenOf(line, text)[i + 1] = PutEscaped(WrittenOf(line, text)[i], text[i + 1])
         /\ \A i \in 0 .. Len(text) : WrittenOf(line, text)[i] \in Seq(Character)
<1>. DEFINE W == WrittenOf(line, text)
            N == Len(text)
<1>1. W = [n \in 0 .. N |-> IF n = 0 THEN Put(line, Quote) ELSE PutEscaped(W[n - 1], text[n])]
      /\ W \in [0 .. N -> Seq(Character)] /\ N \in Nat
  BY WrittenExists, CharLen
<1>. HIDE DEF W, N
<1>2. \A n \in 0 .. N : W[n] = IF n = 0 THEN Put(line, Quote) ELSE PutEscaped(W[n - 1], text[n])
  BY <1>1, Zenon
<1>3. W[0] = Put(line, Quote)
  BY <1>1, <1>2
<1>4. ASSUME NEW i \in 0 .. N - 1 PROVE W[i + 1] = PutEscaped(W[i], text[i + 1])
  <2>1. i + 1 \in 0 .. N /\ i + 1 - 1 = i /\ i + 1 # 0
    BY <1>1
  <2>. QED
    BY <1>2, <2>1
<1>5. \A i \in 0 .. N : W[i] \in Seq(Character)
  BY <1>1
<1>. QED
  BY <1>3, <1>4, <1>5 DEF W, N

LEMMA append_quotedTyped ==
  ASSUME NEW line \in Seq(Character), NEW text \in Seq(Character)
  PROVE  append_quoted(line, text) \in Seq(Character)
<1>1. Len(text) \in 0 .. Len(text)
  BY CharLen
<1>2. WrittenOf(line, text)[Len(text)] \in Seq(Character)
  BY <1>1, WrittenStep
<1>. QED
  BY <1>2, WrittenExists, PutIs, CharAssumption, CharsAre DEF Chars

-----------------------------------------------------------------------------
(* A plain argument is read as it was written.                             *)

\* What has been read of an argument, were the next character no quote.
Sofar(s) == s.text \o Backslashes(s.slashes)

LEMMA SofarTyped ==
  ASSUME NEW s \in Reader
  PROVE  /\ Sofar(s) \in Seq(Character)
         /\ s.slashes = 0 => Sofar(s) = s.text
<1>1. s.text \in Seq(Character) /\ s.slashes \in Nat
  BY ReaderParts
<1>2. Backslashes(s.slashes) \in Seq(Character) /\ Backslashes(0) = <<>>
  BY <1>1, BackslashesIs
<1>. QED
  BY <1>1, <1>2, ConcatTyped, ConcatNothing, Zenon DEF Sofar

LEMMA EscapedReads ==
  ASSUME NEW line \in Seq(Character), Ample(line), Len(Self) + 2 <= Len(line),
         NEW c \in Character, Read(line).quoted, c = Quote => Read(line).slashes = 0
  PROVE  /\ Read(PutEscaped(line, c)).args = Read(line).args
         /\ Read(PutEscaped(line, c)).open
         /\ Read(PutEscaped(line, c)).quoted
         /\ Sofar(Read(PutEscaped(line, c))) = Append(Sofar(Read(line)), c)
         /\ c # Backslash => Read(PutEscaped(line, c)).slashes = 0
<1>. DEFINE r == Read(line)
            more == PutEscaped(line, c)
            r2 == Read(more)
            Good == /\ r2.args = r.args /\ r2.open /\ r2.quoted
                    /\ Sofar(r2) = Append(Sofar(r), c)
                    /\ c # Backslash => r2.slashes = 0
<1>0. Len(line) \in Nat /\ Len(Self) \in Nat /\ Backslash \in Character /\ Quote \in Character
  BY CharLen, SelfAssumption, CharAssumption, CharsAre DEF Chars
<1>1. r \in Reader /\ r.text \in Seq(Character) /\ r.slashes \in Nat /\ r.quoted
  BY ReadIs, ReaderParts
<1>2. ~(Len(line) + 1 <= Len(Self) + 2)
  BY <1>0
<1>3. Backslashes(r.slashes) \in Seq(Character) /\ Backslashes(0) = <<>>
  BY <1>1, BackslashesIs
<1>4. Sofar(r) \in Seq(Character) /\ (r.slashes = 0 => Sofar(r) = r.text)
  BY <1>1, SofarTyped
<1>5. Append(Sofar(r), c) \in Seq(Character)
  BY <1>4, AppendCharIs
<1>6. ASSUME c = Backslash PROVE Good
  <2>1. more = Append(line, Backslash)
    BY <1>6, PutEscapedIs, CharAssumption, CharsAre DEF Chars
  <2>2. r2 = State(r.args, r.text, TRUE, r.quoted, r.slashes + 1)
    <3>1. r2 = ReadChar(r, Backslash)
      BY <1>0, <1>2, <2>1, ReadIs
    <3>. HIDE DEF r, r2
    <3>. QED
      BY <1>1, <3>1, ReadBackslash
  <2>3. Backslashes(r.slashes + 1) = Append(Backslashes(r.slashes), Backslash)
    BY <1>1, OneBackslashMore
  <2>4. r.text \o Append(Backslashes(r.slashes), Backslash) = Append(Sofar(r), Backslash)
    <3>. DEFINE x == r.text
                b == Backslashes(r.slashes)
    <3>1. x \in Seq(Character) /\ b \in Seq(Character) /\ Backslash \in Character
      BY <1>0, <1>1, <1>3
    <3>2. Sofar(r) = x \o b
      BY DEF Sofar
    <3>. HIDE DEF x, b
    <3>3. x \o Append(b, Backslash) = Append(x \o b, Backslash)
      BY <3>1, ConcatAppend
    <3>. QED
      BY <3>2, <3>3, Zenon DEF x, b
  <2>. HIDE DEF r, r2, more
  <2>5. /\ r2.args = r.args /\ r2.text = r.text /\ r2.open /\ r2.quoted = r.quoted
        /\ r2.slashes = r.slashes + 1
    BY <2>2 DEF State
  <2>6. Sofar(r2) = Append(Sofar(r), c)
    BY <1>6, <2>3, <2>4, <2>5, Zenon DEF Sofar
  <2>. QED
    BY <1>1, <1>6, <2>5, <2>6, Zenon
<1>7. ASSUME c = Quote PROVE Good
  <2>. DEFINE half == Append(line, Backslash)
              h == Read(half)
  <2>1. more = Append(half, Quote)
    BY <1>7, PutEscapedIs
  <2>2. half \in Seq(Character) /\ Len(half) = Len(line) + 1
    BY <1>0, AppendCharIs
  <2>3. h = State(r.args, r.text, TRUE, r.quoted, r.slashes + 1) /\ h \in Reader
    BY <1>0, <1>1, <1>2, ReadIs, ReadBackslash
  <2>4. r.slashes = 0
    BY <1>7
  <2>5. ~(Len(half) + 1 <= Len(Self) + 2)
    <3>. HIDE DEF half
    <3>. QED
      BY <1>0, <1>2, <2>2
  <2>6. r2 = ReadChar(h, Quote)
    <3>. HIDE DEF half
    <3>. QED
      BY <1>0, <2>1, <2>2, <2>5, ReadIs
  <2>. HIDE DEF r, r2, more, half, h
  <2>7. h.slashes = 1 /\ h.args = r.args /\ h.text = r.text /\ h.quoted = r.quoted
    <3>1. h.slashes = r.slashes + 1 /\ h.args = r.args /\ h.text = r.text /\ h.quoted = r.quoted
      BY <2>3 DEF State
    <3>. QED
      BY <2>4, <3>1
  <2>8. r2 = State(r.args, Append(r.text, Quote), TRUE, r.quoted, 0)
    <3>1. r2 = State(h.args, Append(h.text, Quote), TRUE, h.quoted, 0)
      <4>1. r2 = ReadQuote(h)
        BY <2>3, <2>6, ReadQuoteIs, Zenon
      <4>2. h.slashes = 1 => ReadQuote(h) = State(h.args, Append(h.text, Quote), TRUE, h.quoted, 0)
        BY <2>3, ReadQuoteIs, Zenon
      <4>. QED
        BY <2>7, <4>1, <4>2, Zenon
    <3>. QED
      BY <2>7, <3>1, Zenon
  <2>9. Append(r.text, Quote) \o <<>> = Append(r.text, Quote)
    BY <1>0, <1>1, AppendCharIs, ConcatNothing, Zenon
  <2>10. /\ r2.args = r.args /\ r2.text = Append(r.text, Quote) /\ r2.open
         /\ r2.quoted = r.quoted /\ r2.slashes = 0
    BY <2>8 DEF State
  <2>11. Sofar(r2) = Append(Sofar(r), c)
    BY <1>3, <1>4, <1>7, <2>4, <2>9, <2>10, Zenon DEF Sofar
  <2>. QED
    BY <1>1, <2>10, <2>11, Zenon
<1>8. ASSUME c # Backslash, c # Quote PROVE Good
  <2>1. more = Append(line, c)
    BY <1>8, PutEscapedIs
  <2>2. r2 = State(r.args, Append(Sofar(r), c), TRUE, r.quoted, 0)
    <3>1. r2 = ReadChar(r, c)
      BY <1>2, <2>1, ReadIs
    <3>. HIDE DEF r, r2
    <3>. QED
      BY <1>1, <1>8, <3>1, ReadOther DEF Sofar
  <2>3. Append(Sofar(r), c) \o <<>> = Append(Sofar(r), c)
    BY <1>5, ConcatNothing, Zenon
  <2>. HIDE DEF r, r2, more
  <2>4. /\ r2.args = r.args /\ r2.text = Append(Sofar(r), c) /\ r2.open
        /\ r2.quoted = r.quoted /\ r2.slashes = 0
    BY <2>2 DEF State
  <2>5. Sofar(r2) = Append(Sofar(r), c)
    BY <1>3, <2>3, <2>4, Zenon DEF Sofar
  <2>. QED
    BY <1>1, <2>4, <2>5, Zenon
<1>. QED
  BY <1>6, <1>7, <1>8

LEMMA PrefixIs ==
  ASSUME NEW S, NEW s \in Seq(S)
  PROVE  /\ SubSeq(s, 1, 0) = <<>>
         /\ \A i \in 0 .. Len(s) - 1 : SubSeq(s, 1, i + 1) = Append(SubSeq(s, 1, i), s[i + 1])
         /\ \A i \in 0 .. Len(s) : SubSeq(s, 1, i) \in Seq(S)
         /\ SubSeq(s, 1, Len(s)) = s
OBVIOUS

\* A line never gets shorter.
LEMMA WrittenLonger ==
  ASSUME NEW line \in Seq(Character), NEW text \in Seq(Character)
  PROVE  /\ \A i \in 0 .. Len(text) : Len(line) <= Len(WrittenOf(line, text)[i])
         /\ Len(line) <= Len(append_quoted(line, text))
<1>. DEFINE W == WrittenOf(line, text)
            N == Len(text)
            L == Len(line)
            G == {i \in 0 .. N : L <= Len(W[i])}
<1>0. N \in Nat /\ L \in Nat /\ Quote \in Character /\ (\A i \in 0 .. N : W[i] \in Seq(Character))
      /\ \A i \in 1 .. N : text[i] \in Character
  BY CharLen, CharsAre, WrittenStep DEF Chars
<1>1. /\ W[0] = Put(line, Quote)
      /\ \A i \in 0 .. N - 1 : W[i + 1] = PutEscaped(W[i], text[i + 1])
      /\ append_quoted(line, text) = Put(W[N], Quote)
  BY WrittenStep, WrittenExists
<1>2. 0 \in G
  <2>1. L <= Len(W[0])
    BY <1>0, <1>1, PutIs
  <2>. QED
    BY <1>0, <2>1
<1>3. ASSUME NEW i \in 0 .. N - 1, i \in G PROVE i + 1 \in G
  <2>1. i \in 0 .. N /\ i + 1 \in 0 .. N /\ i + 1 \in 1 .. N /\ L <= Len(W[i])
    BY <1>0, <1>3
  <2>. DEFINE u == W[i]
              v == W[i + 1]
  <2>2. u \in Seq(Character) /\ v = PutEscaped(u, text[i + 1]) /\ text[i + 1] \in Character
    BY <1>0, <1>1, <2>1
  <2>. HIDE DEF u, v
  <2>3. Len(u) <= Len(v) /\ v \in Seq(Character)
    BY <2>2, PutEscapedIs
  <2>4. Len(u) \in Nat /\ Len(v) \in Nat
    BY <2>2, <2>3, CharLen
  <2>5. L <= Len(u)
    BY <2>1 DEF u
  <2>6. L <= Len(v)
    BY <1>0, <2>3, <2>4, <2>5
  <2>. QED
    BY <2>1, <2>6 DEF v
<1>. HIDE DEF G, N, W
<1>4. \A i \in 0 .. N : i \in G
  BY <1>0, <1>2, <1>3, InductionUpTo
<1>5. \A i \in 0 .. N : L <= Len(W[i])
  BY <1>4 DEF G
<1>6. L <= Len(append_quoted(line, text))
  <2>. DEFINE u == W[N]
              v == Put(u, Quote)
  <2>1. u \in Seq(Character) /\ L <= Len(u)
    BY <1>0, <1>5
  <2>. HIDE DEF u
  <2>2. Len(u) <= Len(v) /\ v \in Seq(Character)
    BY <1>0, <2>1, PutIs
  <2>. HIDE DEF v
  <2>3. Len(u) \in Nat /\ Len(v) \in Nat
    BY <2>1, <2>2, CharLen
  <2>4. L <= Len(v)
    BY <1>0, <2>1, <2>2, <2>3
  <2>. QED
    BY <1>1, <2>4 DEF u, v
<1>. QED
  BY <1>5, <1>6 DEF W, N

LEMMA QuotedReads ==
  ASSUME NEW line \in Seq(Character), Len(Self) + 2 <= Len(line),
         NEW as \in Seq(Seq(Character)), Read(line) = State(as, <<>>, FALSE, FALSE, 0),
         NEW text \in Seq(Character), Plain(text), Ample(append_quoted(line, text))
  PROVE  Read(append_quoted(line, text)) = State(as, text, TRUE, FALSE, 0)
<1>. DEFINE W == WrittenOf(line, text)
            N == Len(text)
            R(i) == Read(W[i])
            Good(i) == /\ R(i).args = as
                       /\ R(i).open
                       /\ R(i).quoted
                       /\ Sofar(R(i)) = SubSeq(text, 1, i)
                       /\ R(i).slashes # 0 => i # 0 /\ text[i] = Backslash
            G == {i \in 0 .. N : Ample(W[i]) => Good(i)}
<1>0. N \in Nat /\ Quote \in Character /\ (\A i \in 0 .. N : W[i] \in Seq(Character))
      /\ \A i \in 1 .. N : text[i] \in Character
  BY CharLen, CharsAre, WrittenStep DEF Chars
<1>1. /\ W[0] = Put(line, Quote)
      /\ \A i \in 0 .. N - 1 : W[i + 1] = PutEscaped(W[i], text[i + 1])
      /\ append_quoted(line, text) = Put(W[N], Quote)
  BY WrittenStep, WrittenExists
<1>2. Len(Self) \in Nat /\ Len(line) \in Nat
  BY CharLen, CharsAre DEF Chars
<1>3. \A i \in 0 .. N : ~(Len(W[i]) + 1 <= Len(Self) + 2) /\ Len(Self) + 2 <= Len(W[i])
  <2>1. ASSUME NEW i \in 0 .. N
        PROVE  ~(Len(W[i]) + 1 <= Len(Self) + 2) /\ Len(Self) + 2 <= Len(W[i])
    <3>1. Len(line) <= Len(W[i]) /\ Len(W[i]) \in Nat
      BY <1>0, WrittenLonger, CharLen
    <3>. HIDE DEF W
    <3>. QED
      BY <1>2, <3>1
  <2>. QED
    BY <2>1
<1>4. \A i \in 1 .. N : text[i] = Backslash => i # N /\ text[i + 1] # Quote
  <2>1. DOMAIN text = 1 .. N
    OBVIOUS
  <2>2. \A i \in 1 .. N : text[i] = Backslash => i < N /\ text[i + 1] # Quote
    BY <2>1, Zenon DEF Plain
  <2>3. \A i \in 1 .. N : i < N => i # N
    BY <1>0
  <2>. QED
    BY <2>2, <2>3, Zenon
<1>5. Ample(W[0]) => Good(0)
  <2>. SUFFICES ASSUME Ample(W[0]) PROVE Good(0)
    OBVIOUS
  <2>. DEFINE l == Read(line)
              r == R(0)
  <2>1. l \in Reader /\ l = State(as, <<>>, FALSE, FALSE, 0)
    BY ReadIs
  <2>2. W[0] = Append(line, Quote)
    BY <1>0, <1>1, PutIs
  <2>3. ~(Len(line) + 1 <= Len(Self) + 2)
    BY <1>2
  <2>4. r = ReadChar(l, Quote)
    BY <1>0, <2>2, <2>3, ReadIs
  <2>. HIDE DEF l, r
  <2>5. l.args = as /\ l.text = <<>> /\ l.quoted = FALSE /\ l.slashes = 0
    BY <2>1 DEF State
  <2>6. r = ReadQuote(l)
    BY <2>1, <2>4, ReadQuoteIs, Zenon
  <2>7. l.slashes = 0 => ReadQuote(l) = State(l.args, l.text, TRUE, ~l.quoted, 0)
    BY <2>1, ReadQuoteIs, Zenon
  <2>8. r = State(as, <<>>, TRUE, ~l.quoted, 0)
    BY <2>5, <2>6, <2>7, Zenon
  <2>9. r.args = as /\ r.text = <<>> /\ r.open /\ r.quoted /\ r.slashes = 0
    BY <2>5, <2>8 DEF State
  <2>10. Sofar(r) = <<>>
    <3>1. Backslashes(0) = <<>>
      BY BackslashesIs
    <3>2. <<>> \o <<>> = <<>>
      OBVIOUS
    <3>. QED
      BY <2>9, <3>1, <3>2, Zenon DEF Sofar
  <2>11. SubSeq(text, 1, 0) = <<>>
    BY PrefixIs, Zenon
  <2>. QED
    BY <2>9, <2>10, <2>11, Zenon DEF r
<1>6. ASSUME NEW i \in 0 .. N - 1, i \in G PROVE i + 1 \in G
  <2>1. /\ i \in 0 .. N /\ i + 1 \in 0 .. N /\ i + 1 \in 1 .. N /\ i + 1 # 0 /\ i # N
        /\ (i # 0 => i \in 1 .. N)
    BY <1>0
  <2>. SUFFICES ASSUME Ample(W[i + 1]) PROVE Good(i + 1)
    BY <2>1
  <2>. DEFINE c == text[i + 1]
              u == W[i]
              v == W[i + 1]
  <2>2. u \in Seq(Character) /\ v = PutEscaped(u, c) /\ c \in Character
        /\ Len(Self) + 2 <= Len(u)
    BY <1>0, <1>1, <1>3, <2>1
  <2>3. Ample(u)
    <3>1. Ample(v)
      OBVIOUS
    <3>. HIDE DEF c, u, v
    <3>. QED
      BY <2>2, <3>1, PutEscapedIs
  <2>4. Good(i)
    BY <1>6, <2>3
  <2>5. c = Quote => Read(u).slashes = 0
    BY <1>4, <2>1, <2>4
  <2>6. Read(u).quoted /\ Read(u).args = as /\ Sofar(Read(u)) = SubSeq(text, 1, i)
    BY <2>4
  <2>7. SubSeq(text, 1, i + 1) = Append(SubSeq(text, 1, i), c)
    BY PrefixIs
  <2>8. c # Backslash => Read(v).slashes = 0
    <3>. HIDE DEF c, u, v
    <3>. QED
      BY <2>2, <2>3, <2>5, <2>6, EscapedReads
  <2>9. Read(v).args = as /\ Read(v).open /\ Read(v).quoted
        /\ Sofar(Read(v)) = Append(SubSeq(text, 1, i), c)
    <3>. HIDE DEF c, u, v
    <3>. QED
      BY <2>2, <2>3, <2>5, <2>6, EscapedReads
  <2>. QED
    BY <2>1, <2>7, <2>8, <2>9
<1>7. \A i \in 0 .. N : i \in G
  <2>0. 0 \in 0 .. N
    BY <1>0
  <2>1. 0 \in G
    BY <1>5, <2>0, Zenon
  <2>. HIDE DEF G, N
  <2>. QED
    BY <1>0, <1>6, <2>1, InductionUpTo
<1>8. W[N] \in Seq(Character) /\ N \in 0 .. N
  BY <1>0
<1>9. Ample(W[N]) /\ Put(W[N], Quote) = Append(W[N], Quote) /\ Good(N)
  <2>1. Ample(Put(W[N], Quote))
    BY <1>1
  <2>. DEFINE u == W[N]
  <2>2. u \in Seq(Character)
    BY <1>8
  <2>. HIDE DEF u
  <2>3. Ample(Put(u, Quote)) => Ample(u) /\ Put(u, Quote) = Append(u, Quote)
    BY <1>0, <2>2, PutIs
  <2>4. Ample(W[N]) /\ Put(W[N], Quote) = Append(W[N], Quote)
    BY <2>1, <2>3 DEF u
  <2>5. N \in G
    BY <1>7, <1>8
  <2>6. Good(N)
    BY <2>4, <2>5, Zenon
  <2>. QED
    BY <2>4, <2>6
<1>10. R(N).slashes = 0
  <2>1. R(N).slashes # 0 => N # 0 /\ text[N] = Backslash
    BY <1>9
  <2>2. N # 0 => N \in 1 .. N
    BY <1>0
  <2>. QED
    BY <1>4, <2>1, <2>2
<1>11. R(N) \in Reader /\ R(N).text = text
  <2>1. R(N) \in Reader
    BY <1>0, ReadIs
  <2>2. Sofar(R(N)) = R(N).text
    BY <1>10, <2>1, SofarTyped
  <2>3. SubSeq(text, 1, N) = text
    BY PrefixIs
  <2>. QED
    BY <1>9, <2>1, <2>2, <2>3
<1>12. Read(Put(W[N], Quote)) = ReadQuote(R(N))
  <2>1. Put(W[N], Quote) = Append(W[N], Quote)
    BY <1>9
  <2>2. Read(Append(W[N], Quote)) = ReadChar(R(N), Quote)
    BY <1>0, <1>3, ReadIs
  <2>. QED
    BY <1>11, <2>1, <2>2, ReadQuoteIs
<1>13. ReadQuote(R(N)) = State(as, text, TRUE, ~R(N).quoted, 0)
  <2>. DEFINE r == R(N)
  <2>1. r.slashes = 0 => ReadQuote(r) = State(r.args, r.text, TRUE, ~r.quoted, 0)
    BY <1>11, ReadQuoteIs
  <2>2. r.args = as
    BY <1>9
  <2>. HIDE DEF r
  <2>. QED
    BY <1>10, <1>11, <2>1, <2>2, Zenon DEF r
<1>14. (~R(N).quoted) = FALSE
  BY <1>9
<1>. QED
  BY <1>1, <1>12, <1>13, <1>14

-----------------------------------------------------------------------------
(* The whole line.                                                         *)

LineOf(k) == CHOOSE L : L = [n \in 0 .. Len(k) |->
               IF n = 0 THEN append_quoted(<<>>, Self) ELSE append_quoted(Put(L[n - 1], Blank), k[n])]

LEMMA LineExists ==
  ASSUME NEW k \in Seq(Seq(Character))
  PROVE  /\ LineOf(k) = [n \in 0 .. Len(k) |->
               IF n = 0 THEN append_quoted(<<>>, Self)
               ELSE append_quoted(Put(LineOf(k)[n - 1], Blank), k[n])]
         /\ Joined(k) = LineOf(k)[Len(k)]
<1>. DEFINE N == Len(k)
            S == Seq(Character)
            base == append_quoted(<<>>, Self)
            step == [i \in 1 .. N |-> [s \in S |-> append_quoted(Put(s, Blank), k[i])]]
<1>0. N \in Nat /\ base \in S
  <2>1. <<>> \in S /\ N \in Nat
    OBVIOUS
  <2>. QED
    BY <2>1, append_quotedTyped, CharsAre DEF Chars
<1>1. \A i \in 1 .. N : k[i] \in S
  OBVIOUS
<1>2. \A i \in 1 .. N, s \in S : step[i][s] = append_quoted(Put(s, Blank), k[i])
  OBVIOUS
<1>3. \A i \in 1 .. N, s \in S : step[i][s] \in S
  <2>. SUFFICES ASSUME NEW i \in 1 .. N, NEW s \in S PROVE step[i][s] \in S
    OBVIOUS
  <2>1. Put(s, Blank) \in S
    BY CharsAre, PutIs DEF Chars
  <2>2. append_quoted(Put(s, Blank), k[i]) \in S
    BY <1>1, <2>1, append_quotedTyped
  <2>. QED
    BY <1>2, <2>2
<1>. HIDE DEF step, base, S, N
<1>4. PICK L : Iterates(N, S, base, step, L)
  BY <1>0, <1>3, Iteration DEF Steps
<1>5. \A i \in 0 .. N : L[i] = IF i = 0 THEN base ELSE append_quoted(Put(L[i - 1], Blank), k[i])
  <2>. SUFFICES ASSUME NEW i \in 0 .. N
                PROVE  L[i] = IF i = 0 THEN base ELSE append_quoted(Put(L[i - 1], Blank), k[i])
    OBVIOUS
  <2>1. CASE i = 0
    BY <1>4, <2>1 DEF Iterates
  <2>2. CASE i # 0
    <3>1. i \in 1 .. N /\ i - 1 \in 0 .. N
      BY <1>0, <2>2
    <3>2. L[i - 1] \in S /\ L[i] = step[i][L[i - 1]]
      BY <1>4, <3>1, Zenon DEF Iterates
    <3>. QED
      BY <1>2, <2>2, <3>1, <3>2, Zenon
  <2>. QED
    BY <2>1, <2>2
<1>6. L = [n \in 0 .. N |-> IF n = 0 THEN base ELSE append_quoted(Put(L[n - 1], Blank), k[n])]
  <2>1. L = [n \in 0 .. N |-> L[n]]
    BY <1>4 DEF Iterates
  <2>. QED
    BY <1>5, <2>1, Zenon
<1>7. LineOf(k) = [n \in 0 .. N |->
        IF n = 0 THEN base ELSE append_quoted(Put(LineOf(k)[n - 1], Blank), k[n])]
  BY <1>6, Zenon DEF LineOf, base, N
<1>8. Joined(k) = LineOf(k)[N]
  BY DEF Joined, LineOf, N
<1>. QED
  BY <1>7, <1>8 DEF base, N

LEMMA LineStep ==
  ASSUME NEW k \in Seq(Seq(Character))
  PROVE  /\ LineOf(k)[0] = append_quoted(<<>>, Self)
         /\ \A i \in 0 .. Len(k) - 1 :
              LineOf(k)[i + 1] = append_quoted(Put(LineOf(k)[i], Blank), k[i + 1])
         /\ \A i \in 0 .. Len(k) : LineOf(k)[i] \in Seq(Character)
         /\ Joined(k) \in Seq(Character)
<1>. DEFINE L == LineOf(k)
            N == Len(k)
            G == {i \in 0 .. N : L[i] \in Seq(Character)}
<1>0. N \in Nat /\ append_quoted(<<>>, Self) \in Seq(Character) /\ Blank \in Character
  <2>1. <<>> \in Seq(Character) /\ N \in Nat
    OBVIOUS
  <2>. QED
    BY <2>1, append_quotedTyped, CharsAre DEF Chars
<1>1. /\ L = [n \in 0 .. N |-> IF n = 0 THEN append_quoted(<<>>, Self)
                               ELSE append_quoted(Put(L[n - 1], Blank), k[n])]
      /\ Joined(k) = L[N]
  BY LineExists
<1>2. \A i \in 1 .. N : k[i] \in Seq(Character)
  OBVIOUS
<1>. HIDE DEF L, N
<1>3. \A n \in 0 .. N : L[n] = IF n = 0 THEN append_quoted(<<>>, Self)
                               ELSE append_quoted(Put(L[n - 1], Blank), k[n])
  BY <1>1, Zenon
<1>4. L[0] = append_quoted(<<>>, Self)
  <2>1. 0 \in 0 .. N
    BY <1>0
  <2>. QED
    BY <1>3, <2>1, Zenon
<1>5. ASSUME NEW i \in 0 .. N - 1 PROVE L[i + 1] = append_quoted(Put(L[i], Blank), k[i + 1])
  <2>1. i + 1 \in 0 .. N /\ i + 1 - 1 = i /\ i + 1 # 0
    BY <1>0
  <2>. QED
    BY <1>3, <2>1
<1>6. 0 \in G
  BY <1>0, <1>4
<1>7. ASSUME NEW i \in 0 .. N - 1, i \in G PROVE i + 1 \in G
  <2>1. i + 1 \in 0 .. N /\ i + 1 \in 1 .. N /\ L[i] \in Seq(Character)
    BY <1>0, <1>7
  <2>2. Put(L[i], Blank) \in Seq(Character)
    BY <1>0, <2>1, PutIs
  <2>3. append_quoted(Put(L[i], Blank), k[i + 1]) \in Seq(Character)
    BY <1>2, <2>1, <2>2, append_quotedTyped
  <2>. QED
    BY <1>5, <2>1, <2>3
<1>. HIDE DEF G
<1>8. \A i \in 0 .. N : i \in G
  BY <1>0, <1>6, <1>7, InductionUpTo
<1>9. (\A i \in 0 .. N : L[i] \in Seq(Character)) /\ N \in 0 .. N
  BY <1>0, <1>8 DEF G
<1>. QED
  BY <1>1, <1>4, <1>5, <1>9 DEF L, N

\* The path of the executable has its quotes, and room is left for the flag.
LEMMA PathIs == Len(append_quoted(<<>>, Self)) = Len(Self) + 2
<1>. DEFINE W == WrittenOf(<<>>, Self)
            N == Len(Self)
            G == {i \in 0 .. N : Len(W[i]) = i + 1}
<1>0. N \in Nat /\ <<>> \in Seq(Character) /\ Self \in Seq(Character) /\ Quote \in Character
      /\ N + 8 < COMMAND_LINE_CAP /\ COMMAND_LINE_CAP \in Nat /\ Len(<<>>) = 0
  <2>1. <<>> \in Seq(Character) /\ Len(<<>>) = 0
    OBVIOUS
  <2>2. Self \in Seq(Character) /\ Quote \in Character
    BY CharsAre DEF Chars
  <2>. QED
    BY <2>1, <2>2, CharLen, CapAssumption
<1>1. /\ W[0] = Put(<<>>, Quote)
      /\ \A i \in 0 .. N - 1 : W[i + 1] = PutEscaped(W[i], Self[i + 1])
      /\ \A i \in 0 .. N : W[i] \in Seq(Character)
      /\ append_quoted(<<>>, Self) = Put(W[N], Quote)
  <2>1. /\ W[0] = Put(<<>>, Quote)
        /\ \A i \in 0 .. N - 1 : W[i + 1] = PutEscaped(W[i], Self[i + 1])
        /\ \A i \in 0 .. N : W[i] \in Seq(Character)
    BY <1>0, WrittenStep, Zenon
  <2>2. append_quoted(<<>>, Self) = Put(W[N], Quote)
    BY <1>0, WrittenExists, Zenon
  <2>. QED
    BY <2>1, <2>2, Zenon
<1>2. \A i \in 1 .. N : Self[i] \in Character /\ Self[i] # Quote
  <2>1. \A i \in 1 .. N : Self[i] \in Character
    BY <1>0
  <2>2. Self \in Seq(Character)
    BY <1>0
  <2>3. DOMAIN Self = 1 .. N
    BY <2>2
  <2>4. \A i \in 1 .. N : Self[i] # Quote
    BY <2>3, SelfAssumption, Zenon DEF ToSet
  <2>. QED
    BY <2>1, <2>4
<1>3. ASSUME NEW l \in Seq(Character), Len(l) <= N + 4 PROVE Ample(l)
  <2>1. Len(l) \in Nat
    BY CharLen
  <2>. QED
    BY <1>0, <1>3, <2>1 DEF Ample
<1>. HIDE DEF W, N
<1>4. ASSUME NEW l \in Seq(Character), NEW c \in Character, Len(l) <= N + 4
      PROVE  Len(Put(l, c)) = Len(l) + 1 /\ (c # Quote => Len(PutEscaped(l, c)) = Len(l) + 1)
  <2>1. Ample(l)
    BY <1>3, <1>4
  <2>2. Put(l, c) = Append(l, c)
    BY <2>1, PutIs
  <2>3. c # Quote => PutEscaped(l, c) = Append(l, c)
    BY <2>1, PutEscapedIs
  <2>4. Len(Append(l, c)) = Len(l) + 1
    BY AppendCharIs
  <2>. QED
    BY <2>2, <2>3, <2>4
<1>5. 0 \in G
  <2>1. 0 \in 0 .. N /\ 0 <= N + 4
    BY <1>0
  <2>2. Len(Put(<<>>, Quote)) = 0 + 1
    BY <1>0, <1>4, <2>1
  <2>. QED
    BY <1>1, <2>1, <2>2
<1>6. ASSUME NEW i \in 0 .. N - 1, i \in G PROVE i + 1 \in G
  <2>1. i + 1 \in 1 .. N /\ i + 1 \in 0 .. N /\ i \in 0 .. N /\ Len(W[i]) = i + 1 /\ i + 1 <= N + 4
    BY <1>0, <1>6
  <2>2. Len(PutEscaped(W[i], Self[i + 1])) = i + 1 + 1
    BY <1>1, <1>2, <1>4, <2>1
  <2>. QED
    BY <1>1, <2>1, <2>2
<1>. HIDE DEF G
<1>7. \A i \in 0 .. N : i \in G
  BY <1>0, <1>5, <1>6, InductionUpTo
<1>8. N \in 0 .. N /\ Len(W[N]) = N + 1 /\ N + 1 <= N + 4 /\ N + 1 + 1 = N + 2
  BY <1>0, <1>7 DEF G
<1>9. Len(Put(W[N], Quote)) = N + 1 + 1
  BY <1>0, <1>1, <1>4, <1>8
<1>. QED
  BY <1>1, <1>8, <1>9 DEF N

\* A blank between quotes apart, and the end of the line, close the argument.
Ended(s) == Closed(Flushed(s))

LEMMA EndedIs ==
  ASSUME NEW s \in Reader, NEW as \in Seq(Seq(Character)), NEW text \in Seq(Character)
  PROVE  /\ s = State(as, text, TRUE, FALSE, 0) => Ended(s) = State(Append(as, text), <<>>, FALSE, FALSE, 0)
         /\ s = State(as, <<>>, FALSE, FALSE, 0) => Ended(s) = s
<1>. DEFINE f == Flushed(s)
            none == FALSE
<1>1. f = State(s.args, s.text \o Backslashes(s.slashes), s.open, s.quoted, 0) /\ f \in Reader
  BY FlushedIs
<1>2. Backslashes(0) = <<>>
  BY BackslashesIs
<1>3. text \o <<>> = text /\ <<>> \o <<>> = <<>>
  BY ConcatNothing
<1>4. ASSUME s = State(as, text, TRUE, FALSE, 0)
      PROVE  Ended(s) = State(Append(as, text), <<>>, FALSE, FALSE, 0)
  <2>1. s.args = as /\ s.text = text /\ s.open /\ s.quoted = none /\ s.slashes = 0
    BY <1>4 DEF State
  <2>. HIDE DEF f, none
  <2>2. f = State(as, text, s.open, none, 0)
    BY <1>1, <1>2, <1>3, <2>1, Zenon
  <2>3. f.args = as /\ f.text = text /\ f.open = s.open /\ f.quoted = none /\ f.slashes = 0
    BY <2>2 DEF State
  <2>4. f.open
    BY <2>1, <2>3
  <2>5. Closed(f) = State(Append(f.args, f.text), <<>>, FALSE, f.quoted, f.slashes)
    BY <1>1, <2>4, ClosedIs
  <2>6. Closed(f) = State(Append(as, text), <<>>, FALSE, none, 0)
    BY <2>3, <2>5, Zenon
  <2>. QED
    BY <2>6 DEF Ended, f, none
<1>5. ASSUME s = State(as, <<>>, FALSE, FALSE, 0)
      PROVE  Ended(s) = s
  <2>1. s.args = as /\ s.text = <<>> /\ s.open = none /\ s.quoted = none /\ s.slashes = 0
    BY <1>5 DEF State
  <2>2. s = State(as, <<>>, none, none, 0)
    BY <1>5
  <2>. HIDE DEF f, none
  <2>3. f = s
    BY <1>1, <1>2, <1>3, <2>1, <2>2, Zenon
  <2>4. ~f.open
    BY <2>1, <2>3 DEF none
  <2>5. Closed(f) = f
    BY <1>1, <2>4, ClosedIs
  <2>. QED
    BY <2>3, <2>5 DEF Ended, f
<1>. QED
  BY <1>4, <1>5

LEMMA EndedTyped ==
  ASSUME NEW s \in Reader
  PROVE  Ended(s) \in Reader
BY FlushedIs, ClosedIs DEF Ended

LEMMA BlankReads ==
  ASSUME NEW line \in Seq(Character), Ample(line), Len(Self) + 2 <= Len(line), ~Read(line).quoted
  PROVE  Read(Put(line, Blank)) = Ended(Read(line))
<1>1. Len(Self) \in Nat /\ Len(line) \in Nat /\ Blank \in Character
  BY CharLen, CharsAre DEF Chars
<1>2. Put(line, Blank) = Append(line, Blank)
  BY <1>1, PutIs
<1>3. ~(Len(line) + 1 <= Len(Self) + 2)
  BY <1>1
<1>4. Read(Append(line, Blank)) = ReadChar(Read(line), Blank) /\ Read(line) \in Reader
  BY <1>1, <1>3, ReadIs
<1>. QED
  BY <1>2, <1>4, ReadBlank DEF Ended

\* An argument after a blank.
LEMMA ArgumentReads ==
  ASSUME NEW line \in Seq(Character), Len(Self) + 2 <= Len(line), ~Read(line).quoted,
         NEW as \in Seq(Seq(Character)), Ended(Read(line)) = State(as, <<>>, FALSE, FALSE, 0),
         NEW text \in Seq(Character), Plain(text), Ample(append_quoted(Put(line, Blank), text))
  PROVE  /\ Read(append_quoted(Put(line, Blank), text)) = State(as, text, TRUE, FALSE, 0)
         /\ ~Read(append_quoted(Put(line, Blank), text)).quoted
         /\ Ended(Read(append_quoted(Put(line, Blank), text))) = State(Append(as, text), <<>>, FALSE, FALSE, 0)
         /\ Len(Self) + 2 <= Len(append_quoted(Put(line, Blank), text))
<1>. DEFINE b == Put(line, Blank)
            q == append_quoted(b, text)
<1>1. Len(Self) \in Nat /\ Len(line) \in Nat /\ Blank \in Character
  BY CharLen, CharsAre DEF Chars
<1>2. b \in Seq(Character) /\ Len(line) <= Len(b) /\ (Ample(b) => Ample(line))
  BY <1>1, PutIs
<1>. HIDE DEF b
<1>3. q \in Seq(Character) /\ Len(b) <= Len(q)
  BY <1>2, append_quotedTyped, WrittenLonger
<1>. HIDE DEF q
<1>4. Len(b) \in Nat /\ Len(q) \in Nat
  BY <1>2, <1>3, CharLen
<1>5. Len(Self) + 2 <= Len(b) /\ Len(Self) + 2 <= Len(q)
  BY <1>1, <1>2, <1>3, <1>4
<1>6. Ample(b) /\ Ample(line)
  BY <1>2, <1>3, <1>4, LongerIsTighter DEF q, b
<1>7. Read(b) = State(as, <<>>, FALSE, FALSE, 0)
  BY <1>6, BlankReads DEF b
<1>8. Read(q) = State(as, text, TRUE, FALSE, 0)
  BY <1>2, <1>5, <1>7, QuotedReads DEF q, b
<1>9. Read(q) \in Reader
  BY <1>3, ReadIs
<1>10. ~Read(q).quoted
  BY <1>8 DEF State
<1>11. Ended(Read(q)) = State(Append(as, text), <<>>, FALSE, FALSE, 0)
  BY <1>8, <1>9, EndedIs
<1>. QED
  BY <1>5, <1>8, <1>10, <1>11 DEF q, b

\* Before the first argument.
LEMMA PathReads ==
  /\ append_quoted(<<>>, Self) \in Seq(Character)
  /\ Len(append_quoted(<<>>, Self)) = Len(Self) + 2
  /\ ~Read(append_quoted(<<>>, Self)).quoted
  /\ Ended(Read(append_quoted(<<>>, Self))) = State(<<>>, <<>>, FALSE, FALSE, 0)
<1>. DEFINE p == append_quoted(<<>>, Self)
<1>1. <<>> \in Seq(Character) /\ <<>> \in Seq(Seq(Character)) /\ Len(Self) \in Nat
  <2>1. <<>> \in Seq(Character) /\ <<>> \in Seq(Seq(Character))
    OBVIOUS
  <2>. QED
    BY <2>1, CharsAre, CharLen DEF Chars
<1>2. p \in Seq(Character) /\ Len(p) = Len(Self) + 2
  BY <1>1, append_quotedTyped, PathIs, CharsAre DEF Chars
<1>. HIDE DEF p
<1>3. Len(p) <= Len(Self) + 2
  BY <1>1, <1>2
<1>4. Read(p) = NoArgument
  BY <1>2, <1>3, ReadIs
<1>5. ~NoArgument.quoted
  BY DEF NoArgument
<1>6. Ended(NoArgument) = NoArgument
  BY <1>1, NoArgumentIs, EndedIs, Zenon
<1>. QED
  BY <1>2, <1>4, <1>5, <1>6, NoArgumentIs DEF p

\* The worker takes out of the line what the supervisor has put in.
LEMMA RoundTrip ==
  ASSUME NEW k \in Seq(Seq(Character)), \A i \in DOMAIN k : Plain(k[i]), Ample(Joined(k))
  PROVE  ArgumentsOf(Joined(k)) = k
<1>. DEFINE L == LineOf(k)
            N == Len(k)
            Good(i) == /\ Len(Self) + 2 <= Len(L[i])
                       /\ ~Read(L[i]).quoted
                       /\ Ended(Read(L[i])) = State(SubSeq(k, 1, i), <<>>, FALSE, FALSE, 0)
            G == {i \in 0 .. N : Ample(L[i]) => Good(i)}
<1>0. N \in Nat /\ Len(Self) \in Nat /\ Blank \in Character
      /\ \A i \in 1 .. N : k[i] \in Seq(Character) /\ Plain(k[i])
  BY CharLen, CharsAre DEF Chars
<1>1. /\ L[0] = append_quoted(<<>>, Self)
      /\ \A i \in 0 .. N - 1 : L[i + 1] = append_quoted(Put(L[i], Blank), k[i + 1])
      /\ \A i \in 0 .. N : L[i] \in Seq(Character)
      /\ Joined(k) = L[N]
  BY LineStep, LineExists
<1>2. /\ SubSeq(k, 1, 0) = <<>>
      /\ \A i \in 0 .. N - 1 : SubSeq(k, 1, i + 1) = Append(SubSeq(k, 1, i), k[i + 1])
      /\ \A i \in 0 .. N : SubSeq(k, 1, i) \in Seq(Seq(Character))
      /\ SubSeq(k, 1, N) = k
  BY PrefixIs
<1>. HIDE DEF L, N
<1>3. 0 \in G
  <2>1. Len(Self) + 2 <= Len(L[0])
    BY <1>0, <1>1, PathReads
  <2>2. Good(0)
    BY <1>1, <1>2, <2>1, PathReads
  <2>3. 0 \in 0 .. N
    BY <1>0
  <2>. QED
    BY <2>2, <2>3
<1>4. ASSUME NEW i \in 0 .. N - 1, i \in G PROVE i + 1 \in G
  <2>1. i \in 0 .. N /\ i + 1 \in 0 .. N /\ i + 1 \in 1 .. N
    BY <1>0
  <2>. SUFFICES ASSUME Ample(L[i + 1]) PROVE Good(i + 1)
    BY <2>1
  <2>. DEFINE l == L[i]
              b == Put(l, Blank)
              text == k[i + 1]
              q == append_quoted(b, text)
  <2>2. l \in Seq(Character) /\ text \in Seq(Character) /\ Plain(text) /\ L[i + 1] = q
    BY <1>0, <1>1, <2>1
  <2>3. Ample(l)
    <3>. HIDE DEF l, text
    <3>1. b \in Seq(Character) /\ (Ample(b) => Ample(l))
      BY <1>0, <2>2, PutIs
    <3>. HIDE DEF b
    <3>2. q \in Seq(Character) /\ Len(b) <= Len(q)
      BY <2>2, <3>1, append_quotedTyped, WrittenLonger
    <3>3. Len(b) \in Nat /\ Len(q) \in Nat
      BY <3>1, <3>2, CharLen
    <3>. QED
      BY <2>2, <3>1, <3>2, <3>3, LongerIsTighter
  <2>4. Good(i)
    BY <1>4, <2>3
  <2>5. SubSeq(k, 1, i) \in Seq(Seq(Character)) /\ SubSeq(k, 1, i + 1) = Append(SubSeq(k, 1, i), text)
    BY <1>2, <2>1
  <2>6. Ample(append_quoted(Put(l, Blank), text))
    BY <2>2
  <2>7. /\ ~Read(q).quoted
        /\ Ended(Read(q)) = State(Append(SubSeq(k, 1, i), text), <<>>, FALSE, FALSE, 0)
        /\ Len(Self) + 2 <= Len(q)
    <3>. DEFINE as == SubSeq(k, 1, i)
    <3>1. Len(Self) + 2 <= Len(l) /\ ~Read(l).quoted
          /\ Ended(Read(l)) = State(as, <<>>, FALSE, FALSE, 0) /\ as \in Seq(Seq(Character))
      BY <2>4, <2>5
    <3>. HIDE DEF as, l, text
    <3>2. /\ ~Read(append_quoted(Put(l, Blank), text)).quoted
          /\ Ended(Read(append_quoted(Put(l, Blank), text))) = State(Append(as, text), <<>>, FALSE, FALSE, 0)
          /\ Len(Self) + 2 <= Len(append_quoted(Put(l, Blank), text))
      BY <2>2, <2>6, <3>1, ArgumentReads
    <3>. QED
      BY <3>2 DEF as
  <2>. QED
    BY <2>2, <2>5, <2>7
<1>. HIDE DEF G
<1>5. \A i \in 0 .. N : i \in G
  BY <1>0, <1>3, <1>4, InductionUpTo
<1>6. N \in 0 .. N
  BY <1>0
<1>7. Ended(Read(L[N])) = State(k, <<>>, FALSE, FALSE, 0)
  <2>1. Ample(L[N]) => Good(N)
    BY <1>5, <1>6, Zenon DEF G
  <2>2. Ended(Read(L[N])) = State(SubSeq(k, 1, N), <<>>, FALSE, FALSE, 0)
    BY <1>1, <2>1
  <2>. QED
    BY <1>2, <2>2
<1>8. Ended(Read(L[N])).args = k
  BY <1>7 DEF State
<1>. QED
  BY <1>1, <1>8 DEF ArgumentsOf, Ended

-----------------------------------------------------------------------------
(* The flag comes first, and what follows does not take it away.            *)

\* The first argument is complete and it is the flag.
Marked(s) == 1 \in DOMAIN s.args /\ s.args[1] = <<WorkerFlag>>

LEMMA MarkStays ==
  ASSUME NEW S, NEW a \in Seq(S), NEW x \in S, NEW f, 1 \in DOMAIN a, a[1] = f
  PROVE  1 \in DOMAIN Append(a, x) /\ Append(a, x)[1] = f
OBVIOUS

LEMMA EndedMarked ==
  ASSUME NEW s \in Reader, Marked(s)
  PROVE  Marked(Ended(s))
<1>. DEFINE f == Flushed(s)
            e == Closed(f)
<1>1. f = State(s.args, s.text \o Backslashes(s.slashes), s.open, s.quoted, 0) /\ f \in Reader
  BY FlushedIs
<1>2. f.args = s.args
  BY <1>1 DEF State
<1>. HIDE DEF f
<1>3. f.args \in Seq(Seq(Character)) /\ f.text \in Seq(Character)
  BY <1>1, ReaderParts
<1>4. CASE f.open
  <2>1. e = State(Append(f.args, f.text), <<>>, FALSE, f.quoted, f.slashes)
    BY <1>1, <1>4, ClosedIs
  <2>2. e.args = Append(f.args, f.text)
    BY <2>1 DEF State
  <2>3. 1 \in DOMAIN Append(f.args, f.text) /\ Append(f.args, f.text)[1] = <<WorkerFlag>>
    <3>1. 1 \in DOMAIN f.args /\ f.args[1] = <<WorkerFlag>>
      BY <1>2 DEF Marked
    <3>. DEFINE a == f.args
                x == f.text
                flag == <<WorkerFlag>>
                S == Seq(Character)
    <3>2. a \in Seq(S) /\ x \in S /\ 1 \in DOMAIN a /\ a[1] = flag
      BY <1>3, <3>1
    <3>. HIDE DEF a, x, flag, S
    <3>3. 1 \in DOMAIN Append(a, x) /\ Append(a, x)[1] = flag
      BY <3>2, MarkStays
    <3>. QED
      BY <3>3 DEF a, x, flag
  <2>. QED
    BY <2>2, <2>3 DEF Ended, Marked, f
<1>5. CASE ~f.open
  <2>1. e = f
    BY <1>1, <1>5, ClosedIs
  <2>. QED
    BY <1>2, <2>1 DEF Ended, Marked, f
<1>. QED
  BY <1>4, <1>5

LEMMA ReadCharMarked ==
  ASSUME NEW s \in Reader, NEW c \in Character, Marked(s)
  PROVE  Marked(ReadChar(s, c))
<1>1. CASE c = Blank /\ ~s.quoted
  BY <1>1, ReadBlank, EndedMarked DEF Ended
<1>2. CASE ~(c = Blank /\ ~s.quoted)
  <2>1. ReadChar(s, c).args = s.args
    <3>1. CASE c = Backslash
      <4>1. ReadChar(s, c) = State(s.args, s.text, TRUE, s.quoted, s.slashes + 1)
        BY <3>1, ReadBackslash
      <4>. QED
        BY <4>1 DEF State
    <3>2. CASE c = Quote
      BY <3>2, ReadQuoteIs
    <3>3. CASE c # Backslash /\ c # Quote
      <4>1. ReadChar(s, c) = State(s.args, Append(s.text \o Backslashes(s.slashes), c), TRUE, s.quoted, 0)
        BY <1>2, <3>3, ReadOther
      <4>. QED
        BY <4>1 DEF State
    <3>. QED
      BY <3>1, <3>2, <3>3
  <2>. QED
    BY <2>1 DEF Marked
<1>. QED
  BY <1>1, <1>2

MarkedLine(line) ==
  line \in Seq(Character) /\ Len(Self) + 2 <= Len(line) /\ Marked(Read(line))

LEMMA AppendMarked ==
  ASSUME NEW line, MarkedLine(line), NEW c \in Character
  PROVE  MarkedLine(Append(line, c))
<1>1. /\ line \in Seq(Character) /\ Len(line) \in Nat /\ Len(Self) \in Nat
      /\ Len(Self) + 2 <= Len(line) /\ Marked(Read(line))
  BY CharLen, CharsAre DEF MarkedLine, Chars
<1>2. Append(line, c) \in Seq(Character) /\ Len(Append(line, c)) = Len(line) + 1
  BY <1>1, AppendCharIs
<1>3. ~(Len(line) + 1 <= Len(Self) + 2) /\ Len(Self) + 2 <= Len(line) + 1
  BY <1>1
<1>4. Read(Append(line, c)) = ReadChar(Read(line), c) /\ Read(line) \in Reader
  BY <1>1, <1>3, ReadIs
<1>5. Marked(ReadChar(Read(line), c))
  BY <1>1, <1>4, ReadCharMarked
<1>. QED
  BY <1>2, <1>3, <1>4, <1>5 DEF MarkedLine

LEMMA PutMarked ==
  ASSUME NEW line, MarkedLine(line), NEW c \in Character
  PROVE  MarkedLine(Put(line, c)) /\ MarkedLine(PutEscaped(line, c))
<1>1. line \in Seq(Character) /\ Backslash \in Character
  BY CharsAre DEF MarkedLine, Chars
<1>2. MarkedLine(Append(line, c)) /\ MarkedLine(Append(line, Backslash))
  BY <1>1, AppendMarked
<1>3. MarkedLine(Append(Append(line, Backslash), c))
  BY <1>2, AppendMarked
<1>4. Put(line, c) = Append(line, c) \/ Put(line, c) = line
  BY <1>1, PutIs
<1>5. \/ PutEscaped(line, c) = line
      \/ PutEscaped(line, c) = Append(line, c)
      \/ PutEscaped(line, c) = Append(Append(line, Backslash), c)
  BY <1>1, PutEscapedIs
<1>. QED
  BY <1>2, <1>3, <1>4, <1>5, Zenon

LEMMA append_quotedMarked ==
  ASSUME NEW line, MarkedLine(line), NEW text \in Seq(Character)
  PROVE  MarkedLine(append_quoted(line, text))
<1>. DEFINE W == WrittenOf(line, text)
            N == Len(text)
            G == {i \in 0 .. N : MarkedLine(W[i])}
<1>0. N \in Nat /\ line \in Seq(Character) /\ Quote \in Character
      /\ \A i \in 1 .. N : text[i] \in Character
  BY CharLen, CharsAre DEF MarkedLine, Chars
<1>1. /\ W[0] = Put(line, Quote)
      /\ \A i \in 0 .. N - 1 : W[i + 1] = PutEscaped(W[i], text[i + 1])
      /\ append_quoted(line, text) = Put(W[N], Quote)
  BY <1>0, WrittenStep, WrittenExists
<1>. HIDE DEF W, N
<1>2. 0 \in G
  <2>1. MarkedLine(W[0]) /\ 0 \in 0 .. N
    BY <1>0, <1>1, PutMarked
  <2>. QED
    BY <2>1
<1>3. ASSUME NEW i \in 0 .. N - 1, i \in G PROVE i + 1 \in G
  <2>1. i + 1 \in 1 .. N /\ i + 1 \in 0 .. N /\ MarkedLine(W[i])
    BY <1>0, <1>3
  <2>2. MarkedLine(PutEscaped(W[i], text[i + 1]))
    BY <1>0, <2>1, PutMarked
  <2>. QED
    BY <1>1, <2>1, <2>2
<1>. HIDE DEF G
<1>4. \A i \in 0 .. N : i \in G
  BY <1>0, <1>2, <1>3, InductionUpTo
<1>5. MarkedLine(W[N])
  BY <1>0, <1>4 DEF G
<1>. QED
  BY <1>0, <1>1, <1>5, PutMarked

\* There is room for the path, a blank and the flag.
LEMMA FlagFits ==
  /\ <<WorkerFlag>> \in Seq(Character)
  /\ Plain(<<WorkerFlag>>)
  /\ Ample(append_quoted(Put(append_quoted(<<>>, Self), Blank), <<WorkerFlag>>))
<1>. DEFINE n == Len(Self)
            flag == <<WorkerFlag>>
            p == append_quoted(<<>>, Self)
            b == Put(p, Blank)
            w0 == Put(b, Quote)
            w1 == PutEscaped(w0, WorkerFlag)
            q == Put(w1, Quote)
<1>0. n \in Nat /\ n + 8 < COMMAND_LINE_CAP /\ COMMAND_LINE_CAP \in Nat /\ Blank \in Character
      /\ Quote \in Character /\ WorkerFlag \in Character /\ WorkerFlag # Quote /\ WorkerFlag # Backslash
  BY CharLen, CharsAre, CharAssumption, CapAssumption DEF Chars
<1>1. flag \in Seq(Character) /\ Len(flag) = 1 /\ flag[1] = WorkerFlag
  BY <1>0
<1>2. Plain(flag)
  <2>1. DOMAIN flag = {1}
    BY <1>1
  <2>2. \A i \in DOMAIN flag : flag[i] # Backslash
    BY <1>0, <1>1, <2>1
  <2>. HIDE DEF flag
  <2>. QED
    BY <2>2 DEF Plain
<1>3. ASSUME NEW l \in Seq(Character), Len(l) <= n + 6 - 1
      PROVE  /\ \A c \in Character : Put(l, c) \in Seq(Character) /\ Len(Put(l, c)) = Len(l) + 1
             /\ \A c \in Character \ {Quote} :
                  PutEscaped(l, c) \in Seq(Character) /\ Len(PutEscaped(l, c)) = Len(l) + 1
  <2>1. Len(l) \in Nat
    BY CharLen
  <2>2. Ample(l)
    BY <1>0, <1>3, <2>1 DEF Ample
  <2>. QED
    BY <2>2, PutIs, PutEscapedIs, AppendCharIs
<1>4. p \in Seq(Character) /\ Len(p) = n + 2
  BY PathReads
<1>5. append_quoted(b, flag) = q
  <2>0. b \in Seq(Character)
    <3>. HIDE DEF p
    <3>. QED
      BY <1>0, <1>4, PutIs
  <2>. HIDE DEF b
  <2>1. /\ WrittenOf(b, flag)[0] = w0
        /\ \A i \in 0 .. Len(flag) - 1 : WrittenOf(b, flag)[i + 1] = PutEscaped(WrittenOf(b, flag)[i], flag[i + 1])
        /\ append_quoted(b, flag) = Put(WrittenOf(b, flag)[Len(flag)], Quote)
    BY <1>1, <2>0, WrittenStep, WrittenExists
  <2>2. 0 \in 0 .. Len(flag) - 1 /\ 0 + 1 = 1
    BY <1>1
  <2>3. WrittenOf(b, flag)[1] = PutEscaped(w0, flag[1])
    BY <2>1, <2>2
  <2>. HIDE DEF flag, w0
  <2>. QED
    BY <1>1, <2>1, <2>3, Zenon
<1>. HIDE DEF n, p
<1>6. b \in Seq(Character) /\ Len(b) = n + 3
  <2>1. Len(p) <= n + 6 - 1 /\ n + 2 + 1 = n + 3
    BY <1>0, <1>4
  <2>2. Put(p, Blank) \in Seq(Character) /\ Len(Put(p, Blank)) = Len(p) + 1
    BY <1>0, <1>3, <1>4, <2>1
  <2>. QED
    BY <1>4, <2>1, <2>2
<1>. HIDE DEF b
<1>7. w0 \in Seq(Character) /\ Len(w0) = n + 4
  <2>1. Len(b) <= n + 6 - 1 /\ n + 3 + 1 = n + 4
    BY <1>0, <1>6
  <2>2. Put(b, Quote) \in Seq(Character) /\ Len(Put(b, Quote)) = Len(b) + 1
    BY <1>0, <1>3, <1>6, <2>1
  <2>. QED
    BY <1>6, <2>1, <2>2
<1>. HIDE DEF w0
<1>8. w1 \in Seq(Character) /\ Len(w1) = n + 5
  <2>1. Len(w0) <= n + 6 - 1 /\ n + 4 + 1 = n + 5
    BY <1>0, <1>7
  <2>2. PutEscaped(w0, WorkerFlag) \in Seq(Character) /\ Len(PutEscaped(w0, WorkerFlag)) = Len(w0) + 1
    BY <1>0, <1>3, <1>7, <2>1
  <2>. QED
    BY <1>7, <2>1, <2>2
<1>. HIDE DEF w1
<1>9. q \in Seq(Character) /\ Len(q) = n + 6
  <2>1. Len(w1) <= n + 6 - 1 /\ n + 5 + 1 = n + 6
    BY <1>0, <1>8
  <2>2. Put(w1, Quote) \in Seq(Character) /\ Len(Put(w1, Quote)) = Len(w1) + 1
    BY <1>0, <1>3, <1>8, <2>1
  <2>. QED
    BY <1>8, <2>1, <2>2
<1>. HIDE DEF q
<1>10. Ample(q)
  BY <1>0, <1>9 DEF Ample
<1>. QED
  BY <1>1, <1>2, <1>5, <1>10 DEF flag, b, p

\* Whatever follows the flag, the worker finds it.
LEMMA FlagIsRead ==
  ASSUME NEW k \in Seq(Seq(Character)), k # <<>>, k[1] = <<WorkerFlag>>
  PROVE  <<WorkerFlag>> \in ToSet(ArgumentsOf(Joined(k)))
<1>. DEFINE L == LineOf(k)
            N == Len(k)
            flag == <<WorkerFlag>>
            G == {i \in 0 .. N : i # 0 => MarkedLine(Put(L[i], Blank))}
<1>0. N \in Nat /\ N # 0 /\ Blank \in Character /\ Len(Self) \in Nat
      /\ \A i \in 1 .. N : k[i] \in Seq(Character)
  BY CharLen, CharsAre DEF Chars
<1>1. /\ L[0] = append_quoted(<<>>, Self)
      /\ \A i \in 0 .. N - 1 : L[i + 1] = append_quoted(Put(L[i], Blank), k[i + 1])
      /\ \A i \in 0 .. N : L[i] \in Seq(Character)
      /\ Joined(k) = L[N]
  BY LineStep, LineExists
<1>. HIDE DEF L, N
<1>2. L[1] = append_quoted(Put(L[0], Blank), flag) /\ L[1] \in Seq(Character)
      /\ L[0] \in Seq(Character) /\ 1 \in 0 .. N
  <2>1. 0 \in 0 .. N - 1 /\ 0 + 1 = 1 /\ 1 \in 0 .. N /\ 0 \in 0 .. N
    BY <1>0
  <2>2. L[0 + 1] = append_quoted(Put(L[0], Blank), k[0 + 1])
    BY <1>1, <2>1
  <2>. QED
    BY <1>1, <2>1, <2>2
<1>3. flag \in Seq(Character) /\ Plain(flag) /\ Ample(L[1])
  BY <1>1, <1>2, FlagFits
<1>4. <<>> \in Seq(Seq(Character))
  OBVIOUS
<1>5. /\ Len(Self) + 2 <= Len(L[0])
      /\ ~Read(L[0]).quoted
      /\ Ended(Read(L[0])) = State(<<>>, <<>>, FALSE, FALSE, 0)
  <2>1. Len(Self) + 2 <= Len(L[0])
    BY <1>0, <1>1, PathReads
  <2>. QED
    BY <1>1, <2>1, PathReads
<1>. HIDE DEF flag
<1>6. /\ ~Read(L[1]).quoted
      /\ Ended(Read(L[1])) = State(Append(<<>>, flag), <<>>, FALSE, FALSE, 0)
      /\ Len(Self) + 2 <= Len(L[1])
  <2>. DEFINE p == L[0]
              q == append_quoted(Put(p, Blank), flag)
  <2>1. /\ p \in Seq(Character) /\ Len(Self) + 2 <= Len(p) /\ ~Read(p).quoted
        /\ Ended(Read(p)) = State(<<>>, <<>>, FALSE, FALSE, 0)
        /\ L[1] = q /\ Ample(q)
    BY <1>2, <1>3, <1>5
  <2>. HIDE DEF p
  <2>2. /\ ~Read(q).quoted
        /\ Ended(Read(q)) = State(Append(<<>>, flag), <<>>, FALSE, FALSE, 0)
        /\ Len(Self) + 2 <= Len(q)
    BY <1>3, <1>4, <2>1, ArgumentReads
  <2>. QED
    BY <2>1, <2>2, Zenon
<1>7. Marked(Ended(Read(L[1])))
  <2>1. Ended(Read(L[1])).args = Append(<<>>, flag)
    BY <1>6 DEF State
  <2>2. 1 \in DOMAIN Append(<<>>, flag) /\ Append(<<>>, flag)[1] = flag
    <3>. DEFINE S == Seq(Character)
    <3>1. flag \in S /\ <<>> \in Seq(S)
      BY <1>3
    <3>. HIDE DEF S
    <3>. QED
      BY <3>1
  <2>. QED
    BY <2>1, <2>2 DEF Marked, flag
<1>8. MarkedLine(Put(L[1], Blank))
  <2>1. Put(L[1], Blank) \in Seq(Character) /\ Len(L[1]) <= Len(Put(L[1], Blank))
    BY <1>0, <1>2, PutIs
  <2>2. Read(Put(L[1], Blank)) = Ended(Read(L[1]))
    BY <1>2, <1>3, <1>6, BlankReads
  <2>3. Len(L[1]) \in Nat /\ Len(Put(L[1], Blank)) \in Nat
    BY <1>2, <2>1, CharLen
  <2>4. Len(Self) + 2 <= Len(Put(L[1], Blank))
    BY <1>0, <1>6, <2>1, <2>3
  <2>. QED
    BY <1>7, <2>1, <2>2, <2>4 DEF MarkedLine
<1>9. 0 \in G
  BY <1>0
<1>10. ASSUME NEW i \in 0 .. N - 1, i \in G PROVE i + 1 \in G
  <2>1. i + 1 \in 0 .. N /\ i + 1 \in 1 .. N
    BY <1>0
  <2>2. CASE i = 0
    BY <1>8, <2>1, <2>2
  <2>3. CASE i # 0
    <3>1. MarkedLine(Put(L[i], Blank))
      BY <1>10, <2>3
    <3>2. MarkedLine(L[i + 1])
      BY <1>0, <1>1, <2>1, <3>1, append_quotedMarked
    <3>3. MarkedLine(Put(L[i + 1], Blank))
      BY <1>0, <3>2, PutMarked
    <3>. QED
      BY <2>1, <3>3
  <2>. QED
    BY <2>2, <2>3
<1>11. \A i \in 0 .. N : i \in G
  <2>. HIDE DEF G
  <2>. QED
    BY <1>0, <1>9, <1>10, InductionUpTo
<1>12. Marked(Ended(Read(L[N])))
  <2>1. CASE N = 1
    BY <1>7, <2>1
  <2>2. CASE N # 1
    <3>. DEFINE i == N - 1
    <3>1. i \in 0 .. N /\ i \in 0 .. N - 1 /\ i # 0 /\ i + 1 = N /\ N \in 1 .. N
      BY <1>0, <2>2
    <3>2. L[i + 1] = append_quoted(Put(L[i], Blank), k[i + 1])
      BY <1>1, <3>1
    <3>. HIDE DEF i
    <3>3. MarkedLine(Put(L[i], Blank))
      BY <1>11, <3>1
    <3>4. MarkedLine(L[N])
      BY <1>0, <3>1, <3>2, <3>3, append_quotedMarked
    <3>. QED
      BY <3>4, ReadIs, EndedMarked DEF MarkedLine
  <2>. QED
    BY <2>1, <2>2
<1>. QED
  BY <1>1, <1>12 DEF Marked, ArgumentsOf, Ended, ToSet

-----------------------------------------------------------------------------
(* The conversion.                                                         *)

LEMMA ConvertedText ==
  ASSUME NEW text \in Seq(Character)
  PROVE  /\ MultiByteToWideChar(text) \in Seq(Character)
         /\ Ascii(text) => MultiByteToWideChar(text) = text
<1>. DEFINE n == Len(text)
            u == [i \in 1 .. n |-> IF text[i] \in Foreign THEN Replacement ELSE text[i]]
<1>1. n \in Nat /\ DOMAIN text = 1 .. n /\ Replacement \in Character
  BY ForeignAssumption DEF Character
<1>2. \A i \in 1 .. n : text[i] \in Character
  OBVIOUS
<1>3. MultiByteToWideChar(text) = u
  BY <1>1 DEF MultiByteToWideChar
<1>4. u \in Seq(Character)
  <2>. HIDE DEF n
  <2>. QED
    BY <1>1, <1>2
<1>5. ASSUME Ascii(text) PROVE u = text
  <2>1. \A i \in 1 .. n : text[i] \notin Foreign
    BY <1>1, <1>5 DEF Ascii
  <2>2. text = [i \in 1 .. n |-> text[i]]
    OBVIOUS
  <2>. QED
    BY <2>1, <2>2, Zenon
<1>. QED
  BY <1>3, <1>4, <1>5

LEMMA ConvertedArgs ==
  ASSUME NEW k \in Seq(Seq(Character))
  PROVE  /\ Converted(k) \in Seq(Seq(Character))
         /\ Len(Converted(k)) = Len(k)
         /\ \A i \in 1 .. Len(k) : Ascii(k[i]) => Converted(k)[i] = k[i]
         /\ (\A i \in DOMAIN k : Ascii(k[i])) => Converted(k) = k
<1>. DEFINE n == Len(k)
            S == Seq(Character)
            c == [i \in 1 .. n |-> MultiByteToWideChar(k[i])]
<1>1. n \in Nat /\ DOMAIN k = 1 .. n /\ \A i \in 1 .. n : k[i] \in S
  OBVIOUS
<1>2. \A i \in 1 .. n : MultiByteToWideChar(k[i]) \in S
  BY <1>1, ConvertedText
<1>3. Converted(k) = c
  BY <1>1 DEF Converted
<1>4. c \in Seq(S) /\ Len(c) = n
  <2>. HIDE DEF n, S
  <2>. QED
    BY <1>1, <1>2
<1>5. \A i \in 1 .. n : Ascii(k[i]) => c[i] = k[i]
  BY <1>1, ConvertedText
<1>6. ASSUME \A i \in DOMAIN k : Ascii(k[i]) PROVE c = k
  <2>1. k = [i \in 1 .. n |-> k[i]]
    OBVIOUS
  <2>2. \A i \in 1 .. n : MultiByteToWideChar(k[i]) = k[i]
    BY <1>1, <1>6, ConvertedText
  <2>. QED
    BY <2>1, <2>2, Zenon
<1>. QED
  BY <1>3, <1>4, <1>5, <1>6

LEMMA FlagConverted == Ascii(<<WorkerFlag>>)
BY ForeignAssumption DEF Ascii

LEMMA ArgumentsTyped ==
  ASSUME NEW args \in Seq(Seq(Character))
  PROVE  /\ CommandLineOf(args) \in Seq(Character)
         /\ ArgumentsOf(CommandLineOf(args)) \in Seq(Seq(Character))
<1>. DEFINE k == Converted(args)
<1>0. k \in Seq(Seq(Character)) /\ CommandLineOf(args) = Joined(k)
  BY ConvertedArgs DEF CommandLineOf
<1>. HIDE DEF k
<1>1. Joined(k) \in Seq(Character)
  BY <1>0, LineStep
<1>2. Read(Joined(k)) \in Reader
  BY <1>1, ReadIs
<1>3. Ended(Read(Joined(k))) \in Reader
  BY <1>2, EndedTyped
<1>. QED
  BY <1>0, <1>1, <1>3, ReaderParts DEF ArgumentsOf, Ended

-----------------------------------------------------------------------------
(* What main sends and run_worker looks for.                               *)

LEMMA SentIs ==
  ASSUME NEW S, NEW s \in Seq(S), s # <<>>
  PROVE  /\ Sent(s) \in Seq(S)
         /\ Sent(s) # <<>>
         /\ Sent(s)[1] = s[1]
         /\ Len(s) <= CHILD_ARGS_MAX => Sent(s) = s
<1>. DEFINE n == Len(s)
            m == Min({n, CHILD_ARGS_MAX})
<1>1. n \in Nat /\ n # 0 /\ CHILD_ARGS_MAX \in Nat /\ CHILD_ARGS_MAX # 0
  BY CapAssumption
<1>2. m = IF n <= CHILD_ARGS_MAX THEN n ELSE CHILD_ARGS_MAX
  <2>1. m = CHOOSE x \in {n, CHILD_ARGS_MAX} : \A y \in {n, CHILD_ARGS_MAX} : x <= y
    BY DEF Min
  <2>. HIDE DEF n, m
  <2>2. \E x \in {n, CHILD_ARGS_MAX} : \A y \in {n, CHILD_ARGS_MAX} : x <= y
    BY <1>1
  <2>3. m \in {n, CHILD_ARGS_MAX} /\ \A y \in {n, CHILD_ARGS_MAX} : m <= y
    BY <2>1, <2>2
  <2>. QED
    BY <1>1, <2>3
<1>. HIDE DEF m
<1>3. m \in 1 .. n /\ (n <= CHILD_ARGS_MAX => m = n)
  <2>. HIDE DEF n
  <2>. QED
    BY <1>1, <1>2
<1>4. Sent(s) = SubSeq(s, 1, m)
  BY DEF Sent, m
<1>5. SubSeq(s, 1, m) \in Seq(S) /\ Len(SubSeq(s, 1, m)) = m /\ SubSeq(s, 1, m)[1] = s[1]
  BY <1>3
<1>6. SubSeq(s, 1, n) = s
  BY PrefixIs
<1>7. SubSeq(s, 1, m) # <<>>
  BY <1>3, <1>5
<1>. QED
  BY <1>3, <1>4, <1>5, <1>6, <1>7

LEMMA ChildArgs ==
  ASSUME NEW args \in Seq(Seq(Character))
  PROVE  /\ child_args(args) \in Seq(Seq(Character))
         /\ child_args(args) # <<>>
         /\ child_args(args)[1] = <<WorkerFlag>>
         /\ Kept(args) \in Seq(Seq(Character))
         /\ Members(Kept(args)) \subseteq Members(args)
         /\ Len(Kept(args)) < CHILD_ARGS_MAX => child_args(args) = <<<<WorkerFlag>>>> \o Kept(args)
<1>. DEFINE S == Seq(Character)
            flag == <<WorkerFlag>>
            kept == Kept(args)
            s == <<flag>> \o kept
<1>1. flag \in S /\ CHILD_ARGS_MAX \in Nat
  BY FlagFits, CapAssumption
<1>2. kept \in Seq(S) /\ Members(kept) \subseteq Members(args)
  BY WithoutIs DEF Kept
<1>. HIDE DEF S, flag, kept
<1>3. s \in Seq(S) /\ s # <<>> /\ s[1] = flag /\ Len(s) = Len(kept) + 1 /\ Len(kept) \in Nat
  BY <1>1, <1>2
<1>. HIDE DEF s
<1>4. child_args(args) = Sent(s)
  BY DEF child_args, s, flag, kept
<1>5. Len(kept) < CHILD_ARGS_MAX => Len(s) <= CHILD_ARGS_MAX
  BY <1>1, <1>3
<1>. QED
  BY <1>2, <1>3, <1>4, <1>5, SentIs DEF S, flag, kept, s

LEMMA LeastOf ==
  ASSUME NEW T, T \subseteq Nat, T # {}
  PROVE  Min(T) \in T /\ \A y \in T : Min(T) <= y
<1>1. \E x \in T : \A y \in T : x <= y
  BY LeastNatural
<1>. QED
  BY <1>1 DEF Min

LEMMA ScriptTyped ==
  ASSUME NEW args \in Seq(Seq(Character))
  PROVE  parse_script(args) \in Seq(Character)
<1>. DEFINE at == {i \in 1 .. Len(args) - 1 : args[i] = <<ScriptFlag>>}
<1>1. CASE at = {}
  BY <1>1, CharsAre DEF parse_script, Chars
<1>2. CASE at # {}
  <2>1. at \subseteq Nat
    OBVIOUS
  <2>. HIDE DEF at
  <2>2. Min(at) \in at
    BY <1>2, <2>1, LeastOf
  <2>3. Min(at) + 1 \in 1 .. Len(args)
    BY <2>2 DEF at
  <2>4. parse_script(args) = args[Min(at) + 1]
    BY <1>2 DEF parse_script, at
  <2>. QED
    BY <2>3, <2>4
<1>. QED
  BY <1>1, <1>2

\* The flag of the worker is neither the script nor its flag.
LEMMA ScriptAfterFlag ==
  ASSUME NEW k \in Seq(Seq(Character))
  PROVE  parse_script(<<<<WorkerFlag>>>> \o k) = parse_script(k)
<1>. DEFINE S == Seq(Character)
            flag == <<WorkerFlag>>
            c == <<ScriptFlag>>
            s == <<flag>> \o k
            n == Len(k)
            at == {i \in 1 .. n - 1 : k[i] = c}
            later == {i \in 1 .. Len(s) - 1 : s[i] = c}
<1>1. flag \in S /\ flag # c
  <2>1. WorkerFlag # ScriptFlag /\ flag[1] = WorkerFlag /\ c[1] = ScriptFlag
    BY CharAssumption
  <2>2. flag # c
    BY <2>1
  <2>. QED
    BY <2>2, FlagFits
<1>2. k \in Seq(S)
  OBVIOUS
<1>. HIDE DEF flag, c, S
<1>3. n \in Nat /\ Len(s) = n + 1 /\ s[1] = flag /\ \A i \in 1 .. n : s[i + 1] = k[i]
  BY <1>1, <1>2
<1>. HIDE DEF s, n
<1>4. \A i \in Nat : i \in at => i + 1 \in later
  BY <1>3
<1>5. \A i \in later : i - 1 \in at /\ i - 1 \in Nat
  <2>. SUFFICES ASSUME NEW i \in later PROVE i - 1 \in at /\ i - 1 \in Nat
    OBVIOUS
  <2>1. i \in 1 .. n /\ s[i] = c
    BY <1>3
  <2>2. i # 1
    BY <1>1, <1>3, <2>1
  <2>3. i - 1 \in 1 .. n - 1 /\ i - 1 \in 1 .. n /\ i - 1 + 1 = i
    BY <1>3, <2>1, <2>2
  <2>4. s[i - 1 + 1] = k[i - 1]
    BY <1>3, <2>3
  <2>5. k[i - 1] = c
    BY <2>1, <2>3, <2>4
  <2>. QED
    BY <2>3, <2>5
<1>6. parse_script(k) = IF at = {} THEN DefaultScript ELSE k[Min(at) + 1]
  BY DEF parse_script, c, n
<1>7. parse_script(s) = IF later = {} THEN DefaultScript ELSE s[Min(later) + 1]
  BY DEF parse_script, c
<1>8. at \subseteq 1 .. n - 1 /\ at \subseteq Nat /\ later \subseteq Nat
  OBVIOUS
<1>. HIDE DEF at, later
<1>9. CASE at = {}
  <2>1. later = {}
    BY <1>5, <1>9
  <2>. QED
    BY <1>6, <1>7, <1>9, <2>1 DEF s, flag
<1>10. CASE at # {}
  <2>. DEFINE a == Min(at)
              b == Min(later)
  <2>1. a \in at /\ (\A y \in at : a <= y) /\ a \in Nat /\ a \in 1 .. n - 1
    BY <1>8, <1>10, LeastOf
  <2>2. a + 1 \in later
    BY <1>4, <2>1
  <2>3. b \in later /\ (\A y \in later : b <= y) /\ b \in Nat
    BY <1>8, <2>2, LeastOf
  <2>. HIDE DEF a, b
  <2>4. b <= a + 1
    BY <2>2, <2>3
  <2>5. b - 1 \in at /\ b - 1 \in Nat
    BY <1>5, <2>3
  <2>6. a <= b - 1
    BY <2>1, <2>5
  <2>7. b = a + 1
    BY <2>1, <2>3, <2>4, <2>6
  <2>8. a + 1 \in 1 .. n
    BY <1>3, <2>1
  <2>9. s[a + 1 + 1] = k[a + 1]
    BY <1>3, <2>8
  <2>10. later # {}
    BY <2>2
  <2>. QED
    BY <1>6, <1>7, <1>10, <2>7, <2>9, <2>10, Zenon DEF a, b, s, flag
<1>. QED
  BY <1>9, <1>10

\* The script that was asked for is the one that the worker takes.
LEMMA ScriptArrives ==
  ASSUME NEW args \in Seq(Seq(Character)), Faithful(args)
  PROVE  parse_script(ArgumentsOf(CommandLineOf(child_args(args)))) = parse_script(Kept(args))
<1>. DEFINE k == child_args(args)
            kept == Kept(args)
<1>1. /\ k \in Seq(Seq(Character)) /\ kept \in Seq(Seq(Character))
      /\ Members(kept) \subseteq Members(args)
  BY ChildArgs
<1>2. /\ k = <<<<WorkerFlag>>>> \o kept /\ Ample(CommandLineOf(k))
      /\ \A i \in DOMAIN args : Plain(args[i]) /\ Ascii(args[i])
  BY ChildArgs DEF Faithful, Ample
<1>. HIDE DEF k, kept
<1>3. \A i \in DOMAIN kept : Plain(kept[i]) /\ Ascii(kept[i])
  BY <1>1, <1>2 DEF Members
<1>4. \A i \in DOMAIN k : Plain(k[i]) /\ Ascii(k[i])
  <2>. DEFINE flag == <<WorkerFlag>>
              s == <<flag>> \o kept
              S == Seq(Character)
  <2>1. flag \in S /\ Plain(flag) /\ Ascii(flag) /\ kept \in Seq(S)
    BY <1>1, FlagFits, FlagConverted
  <2>. HIDE DEF flag, S
  <2>2. \A i \in DOMAIN s : s[i] = flag \/ \E j \in DOMAIN kept : s[i] = kept[j]
    <3>1. DOMAIN s = 1 .. Len(kept) + 1 /\ DOMAIN kept = 1 .. Len(kept) /\ Len(kept) \in Nat
          /\ s[1] = flag /\ \A j \in 1 .. Len(kept) : s[j + 1] = kept[j]
      BY <2>1
    <3>2. \A i \in 1 .. Len(kept) + 1 : i = 1 \/ (i - 1 \in 1 .. Len(kept) /\ i - 1 + 1 = i)
      BY <3>1
    <3>. QED
      BY <3>1, <3>2
  <2>. HIDE DEF s
  <2>3. \A i \in DOMAIN s : Plain(s[i]) /\ Ascii(s[i])
    BY <1>3, <2>1, <2>2
  <2>. QED
    BY <1>2, <2>3 DEF s, flag
<1>5. ArgumentsOf(CommandLineOf(k)) = k
  <2>1. CommandLineOf(k) = Joined(k)
    BY <1>1, <1>4, ConvertedArgs DEF CommandLineOf
  <2>. QED
    BY <1>1, <1>2, <1>4, <2>1, RoundTrip
<1>6. parse_script(k) = parse_script(kept)
  BY <1>1, <1>2, ScriptAfterFlag
<1>. QED
  BY <1>5, <1>6 DEF k, kept

\* The arguments that wm_proc_spawn_self writes are the ones that the C runtime reads, as
\* long as none has a character outside ASCII or a backslash before a quote or at its end
\* and there is room for all (proc_win.c:41-88): blanks, quotes and empty arguments
\* included.
THEOREM ArgumentsArrive ==
  ASSUME NEW args \in Seq(Seq(STRING)),
         \A i \in DOMAIN args : Plain(args[i]) /\ Ascii(args[i]),
         Len(CommandLineOf(args)) + 2 < COMMAND_LINE_CAP
  PROVE  ArgumentsOf(CommandLineOf(args)) = args
<1>1. args \in Seq(Seq(Character)) /\ Ample(CommandLineOf(args))
  BY DEF Character, Ample
<1>2. CommandLineOf(args) = Joined(args)
  BY <1>1, ConvertedArgs DEF CommandLineOf
<1>. QED
  BY <1>1, <1>2, RoundTrip

\* A child reads that it is a worker, whatever arguments the user has given, in whatever
\* characters, whatever they do to the quoting, and however many there is no room for
\* (main.c:114-135, proc_win.c:41-88).
THEOREM FlagArrives ==
  ASSUME NEW args \in Seq(Seq(STRING))
  PROVE  IsWorker(ArgumentsOf(CommandLineOf(child_args(args))))
<1>. DEFINE sent == child_args(args)
            k == Converted(sent)
<1>1. args \in Seq(Seq(Character))
  BY DEF Character
<1>2. sent \in Seq(Seq(Character)) /\ sent # <<>> /\ sent[1] = <<WorkerFlag>>
  BY <1>1, ChildArgs
<1>. HIDE DEF sent
<1>3. k \in Seq(Seq(Character)) /\ k # <<>> /\ k[1] = <<WorkerFlag>>
  <2>1. Len(sent) \in Nat /\ Len(sent) # 0 /\ 1 \in 1 .. Len(sent)
    BY <1>2
  <2>2. k \in Seq(Seq(Character)) /\ Len(k) = Len(sent) /\ k[1] = sent[1]
    BY <1>2, <2>1, ConvertedArgs, FlagConverted
  <2>. HIDE DEF k
  <2>3. k # <<>>
    BY <2>1, <2>2
  <2>. QED
    BY <1>2, <2>2, <2>3
<1>. HIDE DEF k
<1>4. <<WorkerFlag>> \in ToSet(ArgumentsOf(Joined(k)))
  BY <1>3, FlagIsRead
<1>. QED
  BY <1>4 DEF IsWorker, CommandLineOf, k, sent

=====================================================================================
