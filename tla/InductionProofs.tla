------------------------------ MODULE InductionProofs ------------------------------
(***************************************************************************)
(* Induction over the naturals, with sets in place of predicates so that   *)
(* the provers can use it; functions defined by iteration; and what        *)
(* Without leaves of a sequence.                                           *)
(***************************************************************************)
EXTENDS SequenceFilter, WellFoundedInduction, TLAPS

\* A non-empty set of naturals has a least element.
LEMMA LeastNatural ==
  ASSUME NEW T, T \subseteq Nat, T # {}
  PROVE  \E x \in T : \A y \in T : x <= y
<1>. DEFINE R == OpToRel(<, Nat)
<1>1. IsWellFoundedOn(R, Nat)
  BY NatLessThanWellFounded, Zenon
<1>2. \A x \in Nat, y \in Nat : x < y => <<x, y>> \in R
  BY DEF OpToRel
<1>. HIDE DEF R
<1>3. \E x \in T : \A y \in T : ~ (<<y, x>> \in R)
  BY <1>1, WFMin, Zenon
<1>4. PICK x \in T : \A y \in T : ~ (<<y, x>> \in R)
  BY <1>3, Zenon
<1>5. ASSUME NEW y \in T PROVE x <= y
  <2>1. x \in Nat /\ y \in Nat
    OBVIOUS
  <2>2. ~ (y < x)
    BY <1>2, <1>4, <2>1, Zenon
  <2>. QED
    BY <2>1, <2>2
<1>. QED
  BY <1>5

\* What holds of 0 and passes from i to i + 1 holds up to n.
LEMMA InductionUpTo ==
  ASSUME NEW n \in Nat, NEW G, 0 \in G, \A i \in 0 .. n - 1 : i \in G => i + 1 \in G
  PROVE  \A i \in 0 .. n : i \in G
<1>. DEFINE T == {i \in 0 .. n : i \notin G}
<1>1. ASSUME T # {} PROVE FALSE
  <2>1. PICK x \in T : \A y \in T : x <= y
    <3>1. T \subseteq Nat
      OBVIOUS
    <3>. HIDE DEF T
    <3>. QED
      BY <1>1, <3>1, LeastNatural
  <2>2. x \in 0 .. n /\ x \notin G /\ x # 0
    BY <2>1
  <2>3. x - 1 \in 0 .. n - 1 /\ x - 1 \in 0 .. n /\ x - 1 + 1 = x /\ ~(x <= x - 1)
    BY <2>2
  <2>4. x - 1 \in G
    BY <2>1, <2>3
  <2>. QED
    BY <2>2, <2>3, <2>4
<1>. QED
  BY <1>1

\* A step can be taken n times.
Steps(n, S, base, step) == base \in S /\ \A i \in 1 .. n, x \in S : step[i][x] \in S

Iterates(n, S, base, step, f) ==
  /\ f \in [0 .. n -> S]
  /\ f[0] = base
  /\ \A i \in 1 .. n : f[i] = step[i][f[i - 1]]

LEMMA Iteration ==
  ASSUME NEW n \in Nat, NEW S, NEW base, NEW step, Steps(n, S, base, step)
  PROVE  \E f : Iterates(n, S, base, step, f)
<1>0. base \in S /\ \A i \in 1 .. n, x \in S : step[i][x] \in S
  BY DEF Steps
<1>. DEFINE Runs(m, f) == f[0] = base /\ \A i \in 1 .. m : f[i] = step[i][f[i - 1]]
            G == {m \in 0 .. n : \E f \in [0 .. m -> S] : Runs(m, f)}
<1>1. 0 \in G
  <2>. DEFINE f == [i \in 0 .. 0 |-> base]
  <2>1. f \in [0 .. 0 -> S] /\ Runs(0, f)
    BY <1>0
  <2>2. 0 \in 0 .. n
    OBVIOUS
  <2>. HIDE DEF f, Runs
  <2>. QED
    BY <2>1, <2>2
<1>2. ASSUME NEW m \in 0 .. n - 1, m \in G PROVE m + 1 \in G
  <2>1. PICK f \in [0 .. m -> S] : Runs(m, f)
    BY <1>2
  <2>. DEFINE g == [i \in 0 .. m + 1 |-> IF i <= m THEN f[i] ELSE step[m + 1][f[m]]]
  <2>2. f[m] \in S /\ m + 1 \in 1 .. n
    OBVIOUS
  <2>3. step[m + 1][f[m]] \in S
    BY <1>0, <2>2
  <2>4. g \in [0 .. m + 1 -> S]
    BY <2>3
  <2>5. g[0] = base
    BY <2>1
  <2>6. ASSUME NEW i \in 1 .. m + 1 PROVE g[i] = step[i][g[i - 1]]
    <3>1. CASE i <= m
      <4>1. i \in 1 .. m /\ i - 1 \in 0 .. m + 1 /\ i \in 0 .. m + 1 /\ i - 1 <= m
        BY <3>1
      <4>2. g[i] = f[i] /\ g[i - 1] = f[i - 1]
        BY <3>1, <4>1
      <4>. QED
        BY <2>1, <4>1, <4>2
    <3>2. CASE i = m + 1
      <4>1. i - 1 = m /\ ~(i <= m) /\ m \in 0 .. m + 1 /\ m <= m
        BY <3>2
      <4>2. g[i] = step[m + 1][f[m]] /\ g[m] = f[m]
        BY <3>2, <4>1
      <4>. QED
        BY <3>2, <4>1, <4>2
    <3>. QED
      BY <3>1, <3>2
  <2>. HIDE DEF g
  <2>7. Runs(m + 1, g)
    BY <2>5, <2>6
  <2>8. m + 1 \in 0 .. n
    OBVIOUS
  <2>. QED
    BY <2>4, <2>7, <2>8
<1>3. n \in G
  <2>. HIDE DEF G
  <2>1. \A i \in 0 .. n : i \in G
    BY <1>1, <1>2, InductionUpTo
  <2>. QED
    BY <2>1
<1>. QED
  BY <1>3 DEF Iterates

-----------------------------------------------------------------------------
(* Without.                                                                *)

Members(s) == {s[i] : i \in DOMAIN s}

KeptOf(s, X) == CHOOSE K : K = [n \in 0 .. Len(s) |->
                  IF n = 0 THEN <<>>
                  ELSE IF s[n] \in X THEN K[n - 1]
                  ELSE Append(K[n - 1], s[n])]

LEMMA KeptExists ==
  ASSUME NEW S, NEW s \in Seq(S), NEW X
  PROVE  /\ KeptOf(s, X) = [n \in 0 .. Len(s) |->
              IF n = 0 THEN <<>>
              ELSE IF s[n] \in X THEN KeptOf(s, X)[n - 1]
              ELSE Append(KeptOf(s, X)[n - 1], s[n])]
         /\ Without(s, X) = KeptOf(s, X)[Len(s)]
<1>. DEFINE step == [i \in 1 .. Len(s) |-> [t \in Seq(S) |->
                       IF s[i] \in X THEN t ELSE Append(t, s[i])]]
<1>1. \A t \in Seq(S), i \in 1 .. Len(s) : step[i][t] \in Seq(S)
  OBVIOUS
<1>2. \A t \in Seq(S), i \in 1 .. Len(s) :
        step[i][t] = IF s[i] \in X THEN t ELSE Append(t, s[i])
  OBVIOUS
<1>. HIDE DEF step
<1>3. Len(s) \in Nat /\ <<>> \in Seq(S)
  OBVIOUS
<1>4. PICK f : Iterates(Len(s), Seq(S), <<>>, step, f)
  BY <1>1, <1>3, Iteration DEF Steps
<1>5. \A i \in 0 .. Len(s) : i # 0 => i \in 1 .. Len(s) /\ f[i - 1] \in Seq(S)
  <2>1. \A i \in 0 .. Len(s) : i # 0 => i \in 1 .. Len(s) /\ i - 1 \in 0 .. Len(s)
    OBVIOUS
  <2>. QED
    BY <1>4, <2>1 DEF Iterates
<1>6. \A i \in 0 .. Len(s) :
        f[i] = IF i = 0 THEN <<>>
               ELSE IF s[i] \in X THEN f[i - 1] ELSE Append(f[i - 1], s[i])
  BY <1>2, <1>4, <1>5 DEF Iterates
<1>7. f = [n \in 0 .. Len(s) |-> IF n = 0 THEN <<>>
                                 ELSE IF s[n] \in X THEN f[n - 1]
                                 ELSE Append(f[n - 1], s[n])]
  <2>1. f = [n \in 0 .. Len(s) |-> f[n]]
    BY <1>4 DEF Iterates
  <2>. QED
    BY <1>6, <2>1, Zenon
<1>8. KeptOf(s, X) = [n \in 0 .. Len(s) |->
              IF n = 0 THEN <<>>
              ELSE IF s[n] \in X THEN KeptOf(s, X)[n - 1]
              ELSE Append(KeptOf(s, X)[n - 1], s[n])]
  BY <1>7, Zenon DEF KeptOf
<1>9. Without(s, X) = KeptOf(s, X)[Len(s)]
  BY DEF Without, KeptOf
<1>. QED
  BY <1>8, <1>9

\* Without keeps what is not in X, and nothing else.
LEMMA WithoutIs ==
  ASSUME NEW S, NEW s \in Seq(S), NEW X
  PROVE  /\ Without(s, X) \in Seq(S)
         /\ Len(Without(s, X)) <= Len(s)
         /\ Members(Without(s, X)) = Members(s) \ X
<1>. DEFINE K == KeptOf(s, X)
            G == {i \in 0 .. Len(s) :
                    /\ K[i] \in Seq(S)
                    /\ Len(K[i]) <= i
                    /\ Members(K[i]) = {s[j] : j \in 1 .. i} \ X}
<1>1. \A n \in 0 .. Len(s) : K[n] = IF n = 0 THEN <<>>
                                   ELSE IF s[n] \in X THEN K[n - 1]
                                   ELSE Append(K[n - 1], s[n])
  <2>1. K = [n \in 0 .. Len(s) |-> IF n = 0 THEN <<>>
                                   ELSE IF s[n] \in X THEN K[n - 1]
                                   ELSE Append(K[n - 1], s[n])]
    BY KeptExists
  <2>. HIDE DEF K
  <2>. QED
    BY <2>1
<1>. HIDE DEF K
<1>2. 0 \in 0 .. Len(s) /\ K[0] = <<>>
  BY <1>1
<1>3. 0 \in G
  <2>1. <<>> \in Seq(S) /\ Len(<<>>) <= 0 /\ Members(<<>>) = {}
    BY DEF Members
  <2>2. {s[j] : j \in 1 .. 0} = {}
    OBVIOUS
  <2>. QED
    BY <1>2, <2>1, <2>2
<1>4. ASSUME NEW i \in 0 .. Len(s) - 1, i \in G PROVE i + 1 \in G
  <2>1. /\ K[i] \in Seq(S) /\ Len(K[i]) <= i
        /\ Members(K[i]) = {s[j] : j \in 1 .. i} \ X
    BY <1>4
  <2>2. i + 1 \in 0 .. Len(s) /\ i + 1 \in 1 .. Len(s) /\ i + 1 # 0 /\ i + 1 - 1 = i
    OBVIOUS
  <2>3. K[i + 1] = IF s[i + 1] \in X THEN K[i] ELSE Append(K[i], s[i + 1])
    BY <1>1, <2>2
  <2>4. {s[j] : j \in 1 .. i + 1} = {s[j] : j \in 1 .. i} \cup {s[i + 1]}
    <3>1. 1 .. i + 1 = (1 .. i) \cup {i + 1}
      OBVIOUS
    <3>. QED
      BY <3>1
  <2>5. s[i + 1] \in S
    BY <2>2
  <2>6. CASE s[i + 1] \in X
    <3>1. K[i + 1] = K[i]
      BY <2>3, <2>6
    <3>2. Len(K[i + 1]) <= i + 1
      BY <2>1, <3>1
    <3>3. Members(K[i + 1]) = {s[j] : j \in 1 .. i + 1} \ X
      BY <2>1, <2>4, <2>6, <3>1
    <3>. QED
      BY <2>1, <2>2, <3>1, <3>2, <3>3
  <2>7. CASE s[i + 1] \notin X
    <3>. DEFINE k == K[i]
                x == s[i + 1]
    <3>1. K[i + 1] = Append(k, x)
      BY <2>3, <2>7
    <3>2. k \in Seq(S) /\ Len(k) <= i /\ x \in S
      BY <2>1, <2>5
    <3>. HIDE DEF k
    <3>3. /\ Append(k, x) \in Seq(S)
          /\ Len(Append(k, x)) = Len(k) + 1
          /\ DOMAIN Append(k, x) = DOMAIN k \cup {Len(k) + 1}
          /\ \A m \in DOMAIN k : Append(k, x)[m] = k[m]
          /\ Append(k, x)[Len(k) + 1] = x
      BY <3>2
    <3>4. Members(Append(k, x)) = Members(k) \cup {x}
      BY <3>3 DEF Members
    <3>5. Members(K[i + 1]) = {s[j] : j \in 1 .. i + 1} \ X
      BY <2>1, <2>4, <2>7, <3>1, <3>4 DEF k
    <3>6. Len(K[i + 1]) <= i + 1
      BY <3>1, <3>2, <3>3
    <3>. QED
      BY <2>2, <3>1, <3>3, <3>5, <3>6
  <2>. QED
    BY <2>6, <2>7
<1>5. Len(s) \in G
  <2>1. Len(s) \in Nat
    OBVIOUS
  <2>. HIDE DEF G
  <2>2. \A i \in 0 .. Len(s) : i \in G
    BY <1>3, <1>4, <2>1, InductionUpTo
  <2>. QED
    BY <2>1, <2>2
<1>6. Without(s, X) = K[Len(s)]
  BY KeptExists DEF K
<1>7. Members(s) = {s[j] : j \in 1 .. Len(s)}
  BY DEF Members
<1>. QED
  BY <1>5, <1>6, <1>7

=====================================================================================
