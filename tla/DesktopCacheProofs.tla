--------------------------- MODULE DesktopCacheProofs ---------------------------
(***************************************************************************)
(* What holds of the desktop cache for every set of desktops, whatever the *)
(* user of Explorer does between two calls into it and whichever of the    *)
(* calls fail.                                                             *)
(***************************************************************************)
EXTENDS DesktopCache, InductionProofs, FiniteSetTheorems, TLAPS

-----------------------------------------------------------------------------
(* Explorer's own list.                                                     *)

Distinct(s) == \A m, n \in DOMAIN s : s[m] = s[n] => m = n

\* r is s without its n-th element: the later elements move up one place.
IsRemoval(r, s, n) ==
  /\ Len(r) = Len(s) - 1
  /\ \A k \in 1 .. Len(s) - 1 : r[k] = IF k < n THEN s[k] ELSE s[k + 1]

\* r is s with e put at n: the later elements move down one place.
IsInsertion(r, s, n, e) ==
  /\ Len(r) = Len(s) + 1
  /\ \A k \in 1 .. Len(s) + 1 :
       r[k] = IF k < n THEN s[k] ELSE IF k = n THEN e ELSE s[k - 1]

\* RemoveAt takes out the element it is asked to.
LEMMA RemovedAt ==
  ASSUME NEW S, NEW s \in Seq(S), NEW n \in DOMAIN s
  PROVE  RemoveAt(s, n) \in Seq(S) /\ IsRemoval(RemoveAt(s, n), s, n)
<1>. DEFINE front == SubSeq(s, 1, n - 1)
            back  == SubSeq(s, n + 1, Len(s))
<1>1. front \in Seq(S) /\ Len(front) = n - 1 /\ \A k \in 1 .. n - 1 : front[k] = s[k]
  OBVIOUS
<1>2. /\ back \in Seq(S) /\ Len(back) = Len(s) - n
      /\ \A k \in 1 .. Len(s) - n : back[k] = s[k + n]
  OBVIOUS
<1>3. RemoveAt(s, n) = front \o back
  BY DEF RemoveAt
<1>. HIDE DEF front, back
<1>4. IsRemoval(front \o back, s, n)
  BY <1>1, <1>2 DEF IsRemoval
<1>5. front \o back \in Seq(S)
  BY <1>1, <1>2
<1>. QED
  BY <1>3, <1>4, <1>5, Zenon

\* Placing an element behind the front of a list and before the rest of it.
LEMMA Spliced ==
  ASSUME NEW S, NEW s \in Seq(S), NEW n \in 1 .. Len(s) + 1, NEW e \in S,
         NEW head \in Seq(S), Len(head) = n, head[n] = e,
         \A k \in 1 .. n - 1 : head[k] = s[k],
         NEW back \in Seq(S), Len(back) = Len(s) - n + 1,
         \A k \in 1 .. Len(s) - n + 1 : back[k] = s[k + n - 1]
  PROVE  IsInsertion(head \o back, s, n, e)
<1>1. Len(head \o back) = Len(s) + 1
  <2>1. head \in Seq(S) /\ back \in Seq(S)
    OBVIOUS
  <2>2. Len(head \o back) = Len(head) + Len(back)
    BY ONLY <2>1
  <2>. QED
    BY <2>2
<1>2. ASSUME NEW k \in 1 .. Len(s) + 1
      PROVE  (head \o back)[k] = IF k < n THEN s[k] ELSE IF k = n THEN e ELSE s[k - 1]
  <2>1. CASE k <= n
    <3>1. (head \o back)[k] = head[k]
      BY <2>1
    <3>. QED
      BY <2>1, <3>1
  <2>2. CASE k > n
    <3>1. (head \o back)[k] = back[k - n]
      BY <2>2
    <3>2. back[k - n] = s[k - 1]
      BY <2>2
    <3>. QED
      BY <2>2, <3>1, <3>2
  <2>. QED
    BY <2>1, <2>2
<1>. QED
  BY <1>1, <1>2 DEF IsInsertion

\* InsertAt puts the element where it is asked to.
LEMMA InsertedAt ==
  ASSUME NEW S, NEW s \in Seq(S), NEW n \in 1 .. Len(s) + 1, NEW e \in S
  PROVE  InsertAt(s, n, e) \in Seq(S) /\ IsInsertion(InsertAt(s, n, e), s, n, e)
<1>. DEFINE front == SubSeq(s, 1, n - 1)
            head  == front \o <<e>>
            back  == SubSeq(s, n, Len(s))
<1>1. front \in Seq(S) /\ Len(front) = n - 1 /\ \A k \in 1 .. n - 1 : front[k] = s[k]
  OBVIOUS
<1>2. /\ back \in Seq(S) /\ Len(back) = Len(s) - n + 1
      /\ \A k \in 1 .. Len(s) - n + 1 : back[k] = s[k + n - 1]
  OBVIOUS
<1>3. InsertAt(s, n, e) = head \o back
  BY DEF InsertAt
<1>. HIDE DEF front, back
<1>4. /\ head \in Seq(S) /\ Len(head) = n /\ head[n] = e
      /\ \A k \in 1 .. n - 1 : head[k] = s[k]
  BY <1>1
<1>. HIDE DEF head
<1>5. IsInsertion(head \o back, s, n, e)
  BY <1>2, <1>4, Spliced
<1>6. head \o back \in Seq(S)
  BY <1>2, <1>4
<1>. QED
  BY <1>3, <1>5, <1>6, Zenon

\* A list of distinct desktops without one of them.
LEMMA DistinctWithout ==
  ASSUME NEW S, NEW s \in Seq(S), Distinct(s), NEW n \in DOMAIN s
  PROVE  /\ RemoveAt(s, n) \in Seq(S) /\ Len(RemoveAt(s, n)) = Len(s) - 1
         /\ Distinct(RemoveAt(s, n))
         /\ Elements(RemoveAt(s, n)) = Elements(s) \ {s[n]}
<1>. DEFINE r == RemoveAt(s, n)
<1>0. r \in Seq(S) /\ IsRemoval(r, s, n)
  BY RemovedAt, Zenon
<1>. HIDE DEF r
<1>1. /\ r \in Seq(S) /\ Len(r) = Len(s) - 1
      /\ \A k \in 1 .. Len(s) - 1 : r[k] = IF k < n THEN s[k] ELSE s[k + 1]
  BY <1>0, Zenon DEF IsRemoval
<1>2. Distinct(r)
  <2>. DEFINE old(k) == IF k < n THEN k ELSE k + 1
  <2>1. \A k \in DOMAIN r : k \in Nat /\ old(k) \in DOMAIN s /\ r[k] = s[old(k)]
    BY <1>1
  <2>2. \A k, m \in DOMAIN r : old(k) = old(m) => k = m
    BY <2>1
  <2>3. ASSUME NEW i \in DOMAIN r, NEW j \in DOMAIN r, r[i] = r[j]
        PROVE  i = j
    <3>. HIDE DEF old
    <3>1. old(i) \in DOMAIN s /\ old(j) \in DOMAIN s /\ s[old(i)] = s[old(j)]
      BY <2>1, <2>3
    <3>2. old(i) = old(j)
      BY <3>1 DEF Distinct
    <3>. QED
      BY <2>2, <3>2
  <2>. QED
    BY <2>3 DEF Distinct
<1>3. ASSUME NEW x \in Elements(r) PROVE x \in Elements(s) \ {s[n]}
  BY <1>1, <1>3 DEF Distinct, Elements
<1>4. ASSUME NEW x \in Elements(s) \ {s[n]} PROVE x \in Elements(r)
  <2>1. PICK k \in DOMAIN s : s[k] = x
    BY DEF Elements
  <2>2. k # n
    BY <2>1, <1>4
  <2>3. CASE k < n
    <3>1. k \in DOMAIN r /\ r[k] = x
      BY <1>1, <2>1, <2>3
    <3>. QED
      BY <3>1 DEF Elements
  <2>4. CASE k > n
    <3>1. k - 1 \in DOMAIN r /\ r[k - 1] = x
      BY <1>1, <2>1, <2>4
    <3>. QED
      BY <3>1 DEF Elements
  <2>. QED
    BY <2>2, <2>3, <2>4
<1>. QED
  BY <1>1, <1>2, <1>3, <1>4 DEF r

\* A list of distinct desktops with one more.
LEMMA DistinctWith ==
  ASSUME NEW S, NEW s \in Seq(S), Distinct(s), NEW n \in 1 .. Len(s) + 1,
         NEW e \in S \ Elements(s)
  PROVE  /\ InsertAt(s, n, e) \in Seq(S) /\ Len(InsertAt(s, n, e)) = Len(s) + 1
         /\ Distinct(InsertAt(s, n, e))
         /\ Elements(InsertAt(s, n, e)) = Elements(s) \cup {e}
<1>. DEFINE r == InsertAt(s, n, e)
<1>0. r \in Seq(S) /\ IsInsertion(r, s, n, e)
  BY InsertedAt, Zenon
<1>. HIDE DEF r
<1>1. /\ r \in Seq(S) /\ Len(r) = Len(s) + 1
      /\ \A k \in 1 .. Len(s) + 1 : r[k] = IF k < n THEN s[k] ELSE IF k = n THEN e ELSE s[k - 1]
  BY <1>0, Zenon DEF IsInsertion
<1>2. Distinct(r)
  <2>1. \A k \in DOMAIN s : s[k] # e
    BY DEF Elements
  <2>. SUFFICES ASSUME NEW i \in DOMAIN r, NEW j \in DOMAIN r, r[i] = r[j]
                PROVE  i = j
    BY DEF Distinct
  <2>2. \A k \in 1 .. Len(s), m \in 1 .. Len(s) : s[k] = s[m] => k = m
    BY DEF Distinct
  <2>. DEFINE old(k) == IF k < n THEN k ELSE k - 1
  <2>3. \A k \in DOMAIN r \ {n} : old(k) \in DOMAIN s /\ r[k] = s[old(k)]
    BY <1>1
  <2>4. r[n] = e
    BY <1>1
  <2>5. i = n <=> j = n
    BY <2>1, <2>3, <2>4
  <2>6. ASSUME i # n, j # n PROVE i = j
    <3>1. old(i) = old(j)
      BY <2>2, <2>3, <2>6
    <3>. QED
      BY <1>1, <2>6, <3>1
  <2>. QED
    BY <2>5, <2>6
<1>3. ASSUME NEW x \in Elements(r) PROVE x \in Elements(s) \cup {e}
  BY <1>1, <1>3 DEF Elements
<1>4. ASSUME NEW x \in Elements(s) PROVE x \in Elements(r)
  <2>1. PICK k \in DOMAIN s : s[k] = x
    BY DEF Elements
  <2>2. CASE k < n
    <3>1. k \in DOMAIN r /\ r[k] = x
      BY <1>1, <2>1, <2>2
    <3>. QED
      BY <3>1 DEF Elements
  <2>3. CASE k >= n
    <3>1. k + 1 \in DOMAIN r /\ r[k + 1] = x
      BY <1>1, <2>1, <2>3
    <3>. QED
      BY <3>1 DEF Elements
  <2>. QED
    BY <2>2, <2>3
<1>5. e \in Elements(r)
  <2>1. n \in DOMAIN r /\ r[n] = e
    BY <1>1
  <2>. QED
    BY <2>1 DEF Elements
<1>. QED
  BY <1>1, <1>2, <1>3, <1>4, <1>5 DEF r

-----------------------------------------------------------------------------
(* Types.  That refs stays a function to the naturals is a matter of the    *)
(* balance: a reference is released only where an entry holds one.          *)

CacheInv == TypeOK /\ RefsBalanced

\* A desktop that Explorer adds is a new one, and the list stays without repetition.
LEMMA CreatedIsTyped ==
  ASSUME ShellTyped, NEW g \in NewGuids, shell' = Append(shell, g),
         UNCHANGED <<current, closed, connected>>
  PROVE  ShellTyped'
<1>1. shell \in Seq(Guid) /\ DOMAIN shell = 1 .. Len(shell) /\ Distinct(shell)
  BY DEF ShellTyped, Distinct
<1>2. g \in Guid /\ g \notin Elements(shell) /\ g \notin closed
  BY DEF NewGuids
<1>3. shell' \in Seq(Guid) /\ shell' # <<>>
  BY <1>1, <1>2
<1>4. \A m, n \in DOMAIN shell' : shell'[m] = shell'[n] => m = n
  BY <1>1, <1>2 DEF Elements, Distinct
<1>5. Elements(shell') = Elements(shell) \cup {g}
  BY <1>1, <1>2 DEF Elements
<1>. QED
  BY <1>2, <1>3, <1>4, <1>5 DEF ShellTyped

\* The user's changes keep the list of desktops well formed, with one on screen.
LEMMA ExplorerKeepsTypes ==
  ASSUME ShellTyped, Explorer
  PROVE  ShellTyped'
<1>0. Distinct(shell) /\ shell \in Seq(Guid) /\ DOMAIN shell = 1 .. Len(shell)
  BY DEF ShellTyped, Distinct
<1>1. CASE UserCreates
  BY <1>1, CreatedIsTyped DEF UserCreates
<1>2. CASE UserCloses
  <2>1. PICK n \in DOMAIN shell :
          /\ shell' = RemoveAt(shell, n)
          /\ closed' = closed \cup {shell[n]}
          /\ IF current = shell[n] THEN current' \in Elements(shell') ELSE current' = current
    BY <1>2 DEF UserCloses
  <2>2. /\ shell' \in Seq(Guid) /\ Len(shell') = Len(shell) - 1
        /\ Distinct(shell') /\ Elements(shell') = Elements(shell) \ {shell[n]}
    BY <1>0, <2>1, DistinctWithout, Zenon
  <2>3. Len(shell) > 1
    BY <1>2 DEF UserCloses
  <2>4. shell' # <<>>
    BY <1>0, <2>2, <2>3
  <2>5. shell[n] \in Guid
    BY <1>0
  <2>. QED
    BY <1>2, <2>1, <2>2, <2>4, <2>5 DEF UserCloses, ShellTyped, Distinct
<1>3. CASE UserMoves
  <2>1. PICK m \in DOMAIN shell, n \in DOMAIN shell :
          shell' = InsertAt(RemoveAt(shell, m), n, shell[m])
    BY <1>3 DEF UserMoves
  <2>. DEFINE rest  == RemoveAt(shell, m)
              moved == shell[m]
              list  == InsertAt(rest, n, moved)
  <2>2. /\ rest \in Seq(Guid) /\ Len(rest) = Len(shell) - 1
        /\ Distinct(rest) /\ Elements(rest) = Elements(shell) \ {moved}
    BY <1>0, DistinctWithout, Zenon
  <2>3. moved \in Guid /\ moved \in Elements(shell)
    BY <1>0 DEF Elements
  <2>. HIDE DEF rest, moved
  <2>4. n \in 1 .. Len(rest) + 1
    BY <1>0, <2>2
  <2>5. moved \in Guid \ Elements(rest)
    BY <2>2, <2>3, Zenon
  <2>6. /\ list \in Seq(Guid) /\ Len(list) = Len(rest) + 1
        /\ Distinct(list) /\ Elements(list) = Elements(rest) \cup {moved}
    <3>1. rest \in Seq(Guid) /\ Distinct(rest)
      BY <2>2
    <3>. QED
      BY ONLY <3>1, <2>4, <2>5, DistinctWith
  <2>. HIDE DEF list
  <2>7. shell' = list
    BY <2>1, Zenon DEF list, rest, moved
  <2>8. Elements(shell') = Elements(shell)
    BY <2>2, <2>3, <2>6, <2>7, Zenon
  <2>9. shell' # <<>>
    <3>1. Len(shell') > 0
      BY <2>2, <2>6, <2>7
    <3>. QED
      BY <3>1
  <2>. QED
    BY <1>3, <2>6, <2>7, <2>8, <2>9 DEF UserMoves, ShellTyped, Distinct
<1>4. CASE UserSwitches
  BY <1>4 DEF UserSwitches, ShellTyped
<1>5. CASE ExplorerRestarts
  BY <1>5 DEF ExplorerRestarts, ShellTyped
<1>. QED
  BY <1>1, <1>2, <1>3, <1>4, <1>5 DEF Explorer

-----------------------------------------------------------------------------
(* The references.                                                          *)

\* Entries stay, and keep their ids.
IdsKept == \A n \in DOMAIN items : n \in DOMAIN items' /\ items'[n].guid = items[n].guid

\* Finitely many entries hold an interface.
LEMMA HoldersFinite ==
  ASSUME items \in Seq(Item), NEW g
  PROVE  IsFiniteSet(Holders(g)) /\ Cardinality(Holders(g)) \in Nat
<1>1. IsFiniteSet(1 .. Len(items))
  <2>1. Len(items) \in Int /\ 1 \in Int
    OBVIOUS
  <2>. QED
    BY <2>1, FS_Interval
<1>2. Holders(g) \subseteq 1 .. Len(items)
  BY DEF Holders
<1>. QED
  BY <1>1, <1>2, FS_Subset, FS_CardinalityType

\* A new entry takes exactly the one reference that GetAt gave (desktop_win.c:197-215).
LEMMA AddKeepsBalance ==
  ASSUME CacheInv, NEW g \in Guid, AddEntry(g)
  PROVE  items' \in Seq(Item) /\ refs' \in [Guid -> Nat] /\ RefsBalanced' /\ IdsKept
<1>0. items \in Seq(Item) /\ refs \in [Guid -> Nat] /\ RefsBalanced
  BY DEF CacheInv, TypeOK, CacheTyped
<1>1. CASE UNCHANGED targetVars
  BY <1>0, <1>1 DEF targetVars, RefsBalanced, Holders, IdsKept
<1>2. CASE /\ \E id \in IdRead(g) : items' = Append(items, [guid |-> id, iface |-> g])
           /\ refs' = [refs EXCEPT ![g] = @ + 1]
  <2>1. PICK id \in IdRead(g) : items' = Append(items, [guid |-> id, iface |-> g])
    BY <1>2
  <2>2. id \in AnyGuid
    BY DEF IdRead, AnyGuid
  <2>3. items' \in Seq(Item)
    BY <1>0, <2>1, <2>2 DEF Item
  <2>4. /\ DOMAIN items = 1 .. Len(items)
        /\ DOMAIN items' = 1 .. Len(items) + 1
        /\ items'[Len(items) + 1].iface = g
        /\ \A n \in 1 .. Len(items) : items'[n] = items[n]
        /\ Len(items) \in Nat
    BY <1>0, <2>1
  <2>5. Holders(g)' = Holders(g) \cup {Len(items) + 1}
    BY <2>4 DEF Holders
  <2>6. Len(items) + 1 \notin Holders(g)
    BY <2>4 DEF Holders
  <2>7. Cardinality(Holders(g)') = Cardinality(Holders(g)) + 1
    BY <1>0, <2>5, <2>6, HoldersFinite, FS_AddElement
  <2>8. ASSUME NEW h \in Guid, h # g PROVE Holders(h)' = Holders(h)
    BY <2>4, <2>8 DEF Holders
  <2>9. RefsBalanced'
    BY <1>0, <1>2, <2>7, <2>8 DEF RefsBalanced
  <2>10. refs' \in [Guid -> Nat]
    BY <1>0, <1>2
  <2>. QED
    BY <2>3, <2>4, <2>9, <2>10 DEF IdsKept
<1>. QED
  BY <1>1, <1>2 DEF AddEntry

\* An update exchanges one reference for another (desktop_win.c:217-229).
LEMMA UpdateKeepsBalance ==
  ASSUME CacheInv, NEW g \in Guid, NEW n \in DOMAIN items, UpdateEntry(n, g)
  PROVE  items' \in Seq(Item) /\ refs' \in [Guid -> Nat] /\ RefsBalanced' /\ IdsKept
<1>0. items \in Seq(Item) /\ refs \in [Guid -> Nat] /\ RefsBalanced
  BY DEF CacheInv, TypeOK, CacheTyped
<1>1. CASE UNCHANGED targetVars
  BY <1>0, <1>1 DEF targetVars, RefsBalanced, Holders, IdsKept
<1>2. CASE /\ items' = [items EXCEPT ![n].iface = g]
           /\ refs' = [[refs EXCEPT ![g] = @ + 1] EXCEPT ![items[n].iface] = @ - 1]
  <2>1. items[n] \in Item
    BY <1>0
  <2>2. PICK old \in Guid : old = items[n].iface
    BY <2>1 DEF Item
  <2>3. PICK new \in Item : new = [items[n] EXCEPT !.iface = g] /\ new.iface = g
    <3>1. [items[n] EXCEPT !.iface = g] = [guid |-> items[n].guid, iface |-> g]
      BY <2>1 DEF Item
    <3>2. [guid |-> items[n].guid, iface |-> g] \in Item
      BY <2>1 DEF Item
    <3>. QED
      BY <3>1, <3>2
  <2>4. /\ items' \in Seq(Item)
        /\ DOMAIN items' = DOMAIN items
        /\ items'[n].iface = g
        /\ \A m \in DOMAIN items \ {n} : items'[m] = items[m]
        /\ IdsKept
    <3>1. items' = [items EXCEPT ![n] = new]
      BY <1>2, <2>3
    <3>2. DOMAIN items = 1 .. Len(items) /\ Len(items) \in Nat
      BY <1>0
    <3>3. items' = [m \in 1 .. Len(items) |-> IF m = n THEN new ELSE items[m]]
      BY <3>1, <3>2
    <3>4. \A m \in 1 .. Len(items) : items[m] \in Item
      BY <1>0
    <3>5. items' \in [1 .. Len(items) -> Item]
      BY <2>3, <3>3, <3>4
    <3>6. items' \in Seq(Item)
      BY <3>2, <3>5
    <3>7. items'[n].guid = items[n].guid
      BY <2>1, <2>3, <3>2, <3>3 DEF Item
    <3>. QED
      BY <2>3, <3>2, <3>3, <3>6, <3>7 DEF IdsKept
  <2>5. CASE old = g
    <3>1. refs' = refs
      BY <1>0, <1>2, <2>2, <2>5
    <3>2. \A h \in Guid : Holders(h)' = Holders(h)
      BY <2>2, <2>4, <2>5 DEF Holders
    <3>. QED
      BY <1>0, <2>4, <3>1, <3>2 DEF RefsBalanced
  <2>6. CASE old # g
    <3>1. /\ refs'[g] = refs[g] + 1
          /\ refs'[old] = refs[old] - 1
          /\ \A h \in Guid \ {g, old} : refs'[h] = refs[h]
          /\ refs' \in [Guid -> Int]
      BY <1>0, <1>2, <2>2, <2>6
    <3>2. Holders(g)' = Holders(g) \cup {n} /\ n \notin Holders(g)
      BY <2>2, <2>4, <2>6 DEF Holders
    <3>3. Holders(old)' = Holders(old) \ {n} /\ n \in Holders(old)
      BY <2>2, <2>4, <2>6 DEF Holders
    <3>4. \A h \in Guid \ {g, old} : Holders(h)' = Holders(h)
      BY <2>2, <2>4 DEF Holders
    <3>5. Cardinality(Holders(g)') = Cardinality(Holders(g)) + 1
      BY <1>0, <3>2, HoldersFinite, FS_AddElement
    <3>6. Cardinality(Holders(old)') = Cardinality(Holders(old)) - 1
      BY <1>0, <3>3, HoldersFinite, FS_RemoveElement
    <3>7. \A h \in Guid : refs'[h] = Cardinality(Holders(h)')
      BY <1>0, <2>2, <3>1, <3>4, <3>5, <3>6 DEF RefsBalanced
    <3>8. \A h \in Guid : Cardinality(Holders(h)') \in Nat
      <4>. TAKE h \in Guid
      <4>1. IsFiniteSet(Holders(h)) /\ IsFiniteSet(Holders(g)) /\ IsFiniteSet(Holders(old))
        BY <1>0, HoldersFinite
      <4>2. IsFiniteSet(Holders(h)')
        BY <3>2, <3>3, <3>4, <4>1, FS_AddElement, FS_RemoveElement
      <4>. QED
        BY <4>2, FS_CardinalityType
    <3>. QED
      BY <2>4, <3>1, <3>7, <3>8 DEF RefsBalanced
  <2>. QED
    BY <2>5, <2>6
<1>. QED
  BY <1>1, <1>2 DEF UpdateEntry

-----------------------------------------------------------------------------
(* Finding an entry.                                                        *)

\* find_desktop returns an entry with the id it is given, or 0 if there is none.
LEMMA FindsEntry ==
  ASSUME items \in Seq(Item), NEW g
  PROVE  \/ find_desktop(g) = 0 /\ EntriesOf(g) = {}
         \/ find_desktop(g) \in DOMAIN items /\ items[find_desktop(g)].guid = g
<1>1. CASE EntriesOf(g) = {}
  BY <1>1 DEF find_desktop
<1>2. CASE EntriesOf(g) # {}
  <2>1. EntriesOf(g) \subseteq Nat
    BY DEF EntriesOf
  <2>2. \E x \in EntriesOf(g) : \A y \in EntriesOf(g) : x <= y
    BY <1>2, <2>1, LeastNatural
  <2>3. find_desktop(g) \in EntriesOf(g)
    BY <1>2, <2>2 DEF find_desktop
  <2>. QED
    BY <2>3 DEF EntriesOf
<1>. QED
  BY <1>1, <1>2

\* find_desktop stays within the vector.
LEMMA FindRange ==
  ASSUME items \in Seq(Item), NEW g
  PROVE  find_desktop(g) \in 0 .. Len(items)
BY FindsEntry

-----------------------------------------------------------------------------
(* The steps.                                                               *)

\* What the calls under way hold grows with the cache and never goes stale.
LEMMA CallsOutlastGrowth ==
  ASSUME CacheInv, IdsKept, items' \in Seq(Item),
         UNCHANGED <<call, calls, handed, answer>>,
         pc' \in {"each", "refreshed"}, ok' \in BOOLEAN
  PROVE  CallTyped'
<1>1. CallTyped /\ items \in Seq(Item)
  BY DEF CacheInv, TypeOK, CacheTyped
<1>2. DOMAIN items \subseteq DOMAIN items'
  BY DEF IdsKept
<1>3. Len(items) <= Len(items') /\ Len(items) \in Nat /\ Len(items') \in Nat
  <2>1. /\ DOMAIN items = 1 .. Len(items) /\ DOMAIN items' = 1 .. Len(items')
        /\ Len(items) \in Nat /\ Len(items') \in Nat
    BY <1>1
  <2>2. Len(items) = 0 \/ Len(items) \in DOMAIN items'
    BY <1>2, <2>1
  <2>. QED
    BY <2>1, <2>2
<1>4. 0 .. Len(items) \subseteq 0 .. Len(items')
  BY <1>3
<1>5. call' \in [of : Function, entry : 0 .. Len(items'), desktop : AnyGuid]
  BY <1>1, <1>4 DEF CallTyped
<1>. QED
  BY <1>1, <1>2, <1>5 DEF CallTyped

\* Whatever fails, one round of refresh keeps the cache consistent (desktop_win.c:281-315).
LEMMA ElementKeepsInv ==
  ASSUME CacheInv, RefreshElement
  PROVE  CacheInv' /\ IdsKept
<1>1. /\ items \in Seq(Item) /\ refs \in [Guid -> Nat] /\ RefsBalanced /\ ok \in BOOLEAN
      /\ array \in Seq(Guid) /\ index \in 1 .. Len(array) + 1 /\ index <= Len(array)
  BY DEF CacheInv, TypeOK, CacheTyped, CallTyped, RefreshElement
<1>2. array[index] \in Guid
  BY <1>1
<1>3. \/ SkipElement
      \/ \E n \in DOMAIN items : UpdateEntry(n, array[index])
      \/ AddEntry(array[index])
  BY <1>1, FindsEntry DEF RefreshElement
<1>4. items' \in Seq(Item) /\ refs' \in [Guid -> Nat] /\ RefsBalanced' /\ IdsKept
  <2>1. CASE SkipElement
    BY <1>1, <2>1 DEF SkipElement, targetVars, RefsBalanced, Holders, IdsKept
  <2>2. CASE \E n \in DOMAIN items : UpdateEntry(n, array[index])
    BY <1>2, <2>2, UpdateKeepsBalance
  <2>3. CASE AddEntry(array[index])
    BY <1>2, <2>3, AddKeepsBalance
  <2>. QED
    BY <1>3, <2>1, <2>2, <2>3
<1>5. /\ index' \in {index, index + 1}
      /\ pc' \in {"each", "refreshed"}
      /\ ok' \in BOOLEAN
  <2>1. pc = "each"
    BY DEF RefreshElement
  <2>. QED
    BY <1>1, <1>3, <2>1 DEF SkipElement, UpdateEntry, AddEntry, Refreshed
<1>6. UNCHANGED <<shellVars, array, call, calls, handed, answer>>
  BY DEF RefreshElement
<1>7. CacheTyped'
  <2>1. index' \in 1 .. Len(array') + 1
    BY <1>1, <1>5, <1>6
  <2>. QED
    BY <1>1, <1>4, <1>6, <2>1 DEF CacheTyped
<1>8. CallTyped'
  BY <1>4, <1>5, <1>6, CallsOutlastGrowth
<1>9. ShellTyped'
  BY <1>6 DEF CacheInv, TypeOK, ShellTyped, shellVars
<1>. QED
  BY <1>4, <1>7, <1>8, <1>9 DEF CacheInv, TypeOK

\* Every other step leaves the entries alone.
Quiet == UNCHANGED <<items, refs>>

\* A step that leaves the cache alone has only the types of the rest to keep.
LEMMA QuietKeepsInv ==
  ASSUME CacheInv, Quiet, ShellTyped', CallTyped',
         array' \in Seq(Guid), index' \in 1 .. Len(array') + 1
  PROVE  CacheInv' /\ IdsKept
BY DEF CacheInv, TypeOK, CacheTyped, Quiet, RefsBalanced, Holders, IdsKept

\* A Lua call starts with a well formed record of itself.
LEMMA StartIsTyped ==
  ASSUME CacheInv, NEW of \in Function, NEW entry \in 0 .. Len(items),
         NEW desktop \in AnyGuid, NEW at \in {"script", "read", "refresh"},
         Start(of, entry, desktop, at), UNCHANGED <<items, ok, handed>>
  PROVE  CallTyped'
<1>1. CallTyped /\ items \in Seq(Item)
  BY DEF CacheInv, TypeOK, CacheTyped
<1>2. calls' \in 0 .. MaxCalls
  BY <1>1, CallAssumption DEF CallTyped, Start
<1>3. NoAnswer \in Answer
  BY DEF NoAnswer, Answer, Function
<1>4. call' \in [of : Function, entry : 0 .. Len(items'), desktop : AnyGuid]
  BY DEF Start
<1>. QED
  BY <1>1, <1>2, <1>3, <1>4 DEF CallTyped, Start

\* A Lua call leaves a well formed answer behind.
LEMMA ReturnIsTyped ==
  ASSUME CacheInv, NEW result \in Seq(AnyGuid), NEW about \in Seq(AnyGuid),
         Return(result, about), UNCHANGED <<items, ok, calls>>, handed' \subseteq DOMAIN items
  PROVE  CallTyped'
<1>1. CallTyped /\ items \in Seq(Item)
  BY DEF CacheInv, TypeOK, CacheTyped
<1>2. answer' \in Answer
  BY <1>1 DEF CallTyped, Return, Answer
<1>3. call' \in [of : Function, entry : 0 .. Len(items'), desktop : AnyGuid]
  <2>1. 0 \in 0 .. Len(items')
    BY <1>1
  <2>. QED
    BY <2>1 DEF Return, NoCall, Function, AnyGuid
<1>. QED
  BY <1>1, <1>2, <1>3 DEF CallTyped, Return

\* The ids of the entries are GUIDs.
LEMMA ItemsAreTyped ==
  ASSUME items \in Seq(Item)
  PROVE  \A n \in DOMAIN items : items[n].guid \in AnyGuid /\ items[n].iface \in Guid
<1>1. \A n \in DOMAIN items : items[n] \in Item
  OBVIOUS
<1>. QED
  BY <1>1 DEF Item

\* Every step keeps CacheInv and every entry: one step per action.
LEMMA NextKeepsInv ==
  ASSUME CacheInv, [Next]_vars
  PROVE  CacheInv' /\ IdsKept
<1>1. /\ ShellTyped /\ CacheTyped /\ CallTyped
      /\ items \in Seq(Item) /\ array \in Seq(Guid) /\ index \in 1 .. Len(array) + 1
  BY DEF CacheInv, TypeOK, CacheTyped
<1>2. 0 \in 0 .. Len(items) /\ ZeroGuid \in AnyGuid /\ Guid \subseteq AnyGuid
  BY <1>1 DEF AnyGuid
<1>3. \A g : find_desktop(g) \in 0 .. Len(items)
  BY <1>1, FindRange
<1>4. ASSUME UNCHANGED shellVars PROVE ShellTyped'
  BY <1>1, <1>4 DEF ShellTyped, shellVars
<1>5. CASE Explorer
  <2>1. ShellTyped'
    BY <1>1, <1>5, ExplorerKeepsTypes
  <2>2. CallTyped'
    BY <1>1, <1>5 DEF Explorer, CallTyped, targetVars
  <2>. QED
    BY <1>1, <1>5, <2>1, <2>2, QuietKeepsInv DEF Explorer, Quiet, targetVars
<1>6. CASE GetDesktops
  <2>1. CallTyped'
    BY <1>1, <1>6 DEF GetDesktops, Refreshed, CallTyped, targetVars
  <2>2. array' \in Seq(Guid) /\ index' \in 1 .. Len(array') + 1
    <3>1. shell \in Seq(Guid) /\ 1 \in 1 .. Len(shell) + 1
      BY <1>1 DEF ShellTyped
    <3>2. UNCHANGED <<array, index>> \/ (array' = shell /\ index' = 1)
      BY <1>6 DEF GetDesktops
    <3>. QED
      BY <1>1, <3>1, <3>2
  <2>3. UNCHANGED shellVars /\ Quiet
    BY <1>6 DEF GetDesktops, Quiet, targetVars
  <2>. QED
    BY <1>4, <2>1, <2>2, <2>3, QuietKeepsInv
<1>22. CASE GetCount
  <2>1. CallTyped'
    BY <1>1, <1>22 DEF GetCount, CallTyped, targetVars
  <2>2. array' \in Seq(Guid) /\ index' \in 1 .. Len(array') + 1
    <3>1. index' = index \/ index' = Len(array) + 1
      BY <1>22 DEF GetCount
    <3>2. array' = array
      BY <1>22 DEF GetCount
    <3>. QED
      BY <1>1, <3>1, <3>2
  <2>3. UNCHANGED shellVars /\ Quiet
    BY <1>22 DEF GetCount, Quiet, targetVars
  <2>. QED
    BY <1>4, <2>1, <2>2, <2>3, QuietKeepsInv
<1>7. CASE RefreshElement
  BY <1>7, ElementKeepsInv
<1>8. CASE RefreshEnds
  <2>1. CallTyped'
    BY <1>1, <1>8 DEF RefreshEnds, Refreshed, CallTyped, targetVars
  <2>. QED
    BY <1>1, <1>4, <1>8, <2>1, QuietKeepsInv DEF RefreshEnds, Quiet, targetVars
<1>9. CASE CallList
  <2>1. CallTyped'
    BY <1>2, <1>9, StartIsTyped DEF CallList, Function, targetVars
  <2>. QED
    BY <1>1, <1>4, <1>9, <2>1, QuietKeepsInv DEF CallList, Quiet, targetVars
<1>10. CASE ListAnswers
  <2>1. AllIds \in Seq(AnyGuid)
    <3>1. \A n \in DOMAIN items : items[n].guid \in AnyGuid
      BY <1>1, ItemsAreTyped
    <3>2. DOMAIN items = 1 .. Len(items) /\ Len(items) \in Nat
      BY <1>1
    <3>. QED
      BY <3>1, <3>2 DEF AllIds
  <2>2. (IF ok THEN AllIds ELSE <<>>) \in Seq(AnyGuid) /\ array \in Seq(AnyGuid)
    BY <1>1, <1>2, <2>1
  <2>3. handed' \subseteq DOMAIN items
    BY <1>1, <1>10 DEF ListAnswers, CallTyped
  <2>4. CallTyped'
    BY <1>10, <2>2, <2>3, ReturnIsTyped DEF ListAnswers, targetVars
  <2>. QED
    BY <1>1, <1>4, <1>10, <2>4, QuietKeepsInv DEF ListAnswers, Quiet, targetVars
<1>11. CASE CallCurrent
  <2>1. CallTyped'
    BY <1>2, <1>11, StartIsTyped DEF CallCurrent, Function, targetVars
  <2>. QED
    BY <1>1, <1>4, <1>11, <2>1, QuietKeepsInv DEF CallCurrent, Quiet, targetVars
<1>12. CASE CurrentRefreshed
  <2>1. CallTyped'
    BY <1>1, <1>12 DEF CurrentRefreshed, CallTyped, Function, targetVars
  <2>. QED
    BY <1>1, <1>4, <1>12, <2>1, QuietKeepsInv DEF CurrentRefreshed, Quiet, targetVars
<1>13. CASE ReadCurrent
  <2>1. call' \in [of : Function, entry : 0 .. Len(items), desktop : AnyGuid]
    <3>1. [call EXCEPT !.of = "push"] \in [of : Function, entry : 0 .. Len(items), desktop : AnyGuid]
      BY <1>1 DEF CallTyped, Function
    <3>2. ASSUME NEW id \in IdRead(current)
          PROVE  [of |-> "push", entry |-> find_desktop(id), desktop |-> id]
                   \in [of : Function, entry : 0 .. Len(items), desktop : AnyGuid]
      <4>1. id \in AnyGuid
        BY <1>1 DEF IdRead, AnyGuid, ShellTyped, Elements
      <4>. QED
        BY <1>3, <4>1 DEF Function
    <3>. QED
      BY <1>13, <3>1, <3>2 DEF ReadCurrent
  <2>2. CallTyped'
    BY <1>1, <1>13, <2>1 DEF ReadCurrent, CallTyped, targetVars
  <2>. QED
    BY <1>1, <1>4, <1>13, <2>2, QuietKeepsInv DEF ReadCurrent, Quiet, targetVars
<1>14. CASE PushAnswers
  <2>. DEFINE found == ok /\ call.entry # 0
              result == IF found THEN <<items[call.entry].guid>> ELSE <<>>
  <2>1. found => call.entry \in DOMAIN items
    BY <1>1 DEF CallTyped
  <2>2. result \in Seq(AnyGuid) /\ <<call.desktop>> \in Seq(AnyGuid)
    BY <1>1, <1>2, <2>1, ItemsAreTyped DEF CallTyped
  <2>3. handed' \subseteq DOMAIN items
    BY <1>1, <1>14, <2>1 DEF PushAnswers, CallTyped
  <2>4. Return(result, <<call.desktop>>)
    BY <1>14 DEF PushAnswers
  <2>. HIDE DEF result
  <2>5. CallTyped'
    BY <1>14, <2>2, <2>3, <2>4, ReturnIsTyped DEF PushAnswers, targetVars
  <2>. QED
    BY <1>1, <1>4, <1>14, <2>5, QuietKeepsInv DEF PushAnswers, Quiet, targetVars
<1>15. CASE CallCreate
  <2>1. CASE Start("none", 0, ZeroGuid, "script") /\ UNCHANGED shell
    <3>1. CallTyped'
      BY <1>2, <1>15, <2>1, StartIsTyped DEF CallCreate, Function, targetVars
    <3>2. ShellTyped'
      BY <1>4, <1>15, <2>1 DEF CallCreate, shellVars
    <3>. QED
      BY <1>1, <1>15, <3>1, <3>2, QuietKeepsInv DEF CallCreate, Quiet, targetVars
  <2>2. ASSUME NEW g \in NewGuids, shell' = Append(shell, g),
               NEW id \in IdRead(g), Start("create", 0, id, "refresh")
        PROVE  CacheInv' /\ IdsKept
    <3>1. id \in AnyGuid
      BY DEF IdRead, AnyGuid, NewGuids
    <3>2. CallTyped'
      BY <1>2, <1>15, <2>2, <3>1, StartIsTyped DEF CallCreate, Function, targetVars
    <3>3. ShellTyped'
      BY <1>1, <1>15, <2>2, CreatedIsTyped DEF CallCreate
    <3>. QED
      BY <1>1, <1>15, <3>2, <3>3, QuietKeepsInv DEF CallCreate, Quiet, targetVars
  <2>. QED
    BY <1>15, <2>1, <2>2 DEF CallCreate
<1>16. CASE CreateFinds
  <2>1. <<>> \in Seq(AnyGuid) /\ <<call.desktop>> \in Seq(AnyGuid)
    BY <1>1 DEF CallTyped
  <2>2. CASE Return(<<>>, <<call.desktop>>)
    <3>1. CallTyped'
      BY <1>1, <1>16, <2>1, <2>2, ReturnIsTyped DEF CreateFinds, CallTyped, targetVars
    <3>. QED
      BY <1>1, <1>4, <1>16, <3>1, QuietKeepsInv DEF CreateFinds, Quiet, targetVars
  <2>3. CASE /\ call' = [call EXCEPT !.of = "push", !.entry = find_desktop(call.desktop)]
             /\ pc' = "refresh"
             /\ answer' = answer
    <3>1. CallTyped'
      BY <1>1, <1>3, <1>16, <2>3 DEF CreateFinds, CallTyped, Function, targetVars
    <3>. QED
      BY <1>1, <1>4, <1>16, <3>1, QuietKeepsInv DEF CreateFinds, Quiet, targetVars
  <2>. QED
    BY <1>16, <2>2, <2>3 DEF CreateFinds
<1>17. CASE CallSwitch
  <2>1. PICK n \in handed : Start("switch", n, items[n].guid, "refresh")
    BY <1>17 DEF CallSwitch
  <2>2. n \in 0 .. Len(items) /\ items[n].guid \in AnyGuid
    <3>1. n \in DOMAIN items
      BY <1>1 DEF CallTyped
    <3>. QED
      BY <1>1, <3>1, ItemsAreTyped
  <2>3. CallTyped'
    BY <1>17, <2>1, <2>2, StartIsTyped DEF CallSwitch, Function, targetVars
  <2>. QED
    BY <1>1, <1>4, <1>17, <2>3, QuietKeepsInv DEF CallSwitch, Quiet, targetVars
<1>18. CASE SwitchDesktop
  <2>1. current' \in Elements(shell)
    BY <1>1, <1>18 DEF SwitchDesktop, ShellTyped
  <2>2. ShellTyped'
    BY <1>1, <1>18, <2>1 DEF SwitchDesktop, ShellTyped
  <2>3. current' \in AnyGuid
    BY <1>1, <2>1 DEF ShellTyped, Elements, AnyGuid
  <2>4. PICK result \in Seq(AnyGuid) : Return(result, <<call.desktop>>)
    <3>1. <<current'>> \in Seq(AnyGuid) /\ <<>> \in Seq(AnyGuid)
      BY <2>3
    <3>2. Return(<<current'>>, <<call.desktop>>) \/ Return(<<>>, <<call.desktop>>)
      BY <1>18 DEF SwitchDesktop
    <3>. QED
      BY <3>1, <3>2
  <2>5. <<call.desktop>> \in Seq(AnyGuid) /\ handed' \subseteq DOMAIN items
    BY <1>1, <1>18 DEF CallTyped, SwitchDesktop
  <2>6. CallTyped'
    BY <1>18, <2>4, <2>5, ReturnIsTyped DEF SwitchDesktop, targetVars
  <2>. QED
    BY <1>1, <1>18, <2>2, <2>6, QuietKeepsInv DEF SwitchDesktop, Quiet, targetVars
<1>19. CASE UNCHANGED vars
  <2>1. CallTyped'
    BY <1>1, <1>19 DEF vars, CallTyped
  <2>. QED
    BY <1>1, <1>4, <1>19, <2>1, QuietKeepsInv DEF vars, shellVars, Quiet
<1>. QED
  BY <1>5, <1>6, <1>7, <1>8, <1>9, <1>10, <1>11, <1>12, <1>13, <1>14, <1>15, <1>16, <1>17,
     <1>18, <1>19, <1>22 DEF Next, refresh, Lua

\* An empty cache satisfies CacheInv.
LEMMA InitHasInv ==
  ASSUME Init
  PROVE  CacheInv
<1>1. ShellTyped
  <2>1. PICK g \in Guid : shell = <<g>>
    BY DEF Init
  <2>. QED
    BY <2>1 DEF Init, ShellTyped, Elements
<1>2. items = <<>> /\ <<>> \in Seq(Item) /\ DOMAIN items = {}
  BY DEF Init
<1>3. CacheTyped
  BY <1>2 DEF Init, CacheTyped
<1>4. CallTyped
  BY <1>2, CallAssumption DEF Init, CallTyped, NoCall, NoAnswer, Answer, Function, AnyGuid
<1>5. \A g : Holders(g) = {}
  BY <1>2 DEF Holders
<1>6. RefsBalanced
  BY <1>5, FS_EmptySet DEF Init, RefsBalanced
<1>. QED
  BY <1>1, <1>3, <1>4, <1>6 DEF CacheInv, TypeOK

\* CacheInv is inductive.
LEMMA CacheInvHolds == Spec => []CacheInv
<1>1. Init => CacheInv
  BY InitHasInv
<1>2. CacheInv /\ [Next]_vars => CacheInv'
  BY NextKeepsInv
<1>. QED
  BY <1>1, <1>2, PTL DEF Spec

\* The type invariant: whichever calls fail, the places and entries that the target
\* and the Lua functions keep stay within the vector, and no count of references
\* falls below zero (desktop_win.c:197-318).
THEOREM TypeCorrect == Spec => []TypeOK
<1>1. CacheInv => TypeOK
  BY DEF CacheInv
<1>. QED
  BY <1>1, CacheInvHolds, PTL

\* No interface leaks and none is released while an entry holds it, on any path
\* through refresh (desktop_win.c:284-314).
THEOREM ReferencesBalance == Spec => []RefsBalanced
<1>1. CacheInv => RefsBalanced
  BY DEF CacheInv
<1>. QED
  BY <1>1, CacheInvHolds, PTL

-----------------------------------------------------------------------------
(* The answers, where the ids are read.                                     *)

CallMatches ==
  /\ pc = "read" => call.of = "current"
  /\ call.of = "current" => call.entry = 0
  /\ call.of = "push" /\ call.entry # 0 => items[call.entry].guid = call.desktop
  /\ call.of = "switch" =>
       call.entry \in DOMAIN items /\ items[call.entry].guid = call.desktop

AnswerInv == UniqueEntries /\ OwnInterface /\ CallMatches /\ AnswersMatch

\* With ids that can be read, one round of refresh updates the desktop's own entry or
\* adds the first one for it (desktop_win.c:289-309).
LEMMA ElementKeepsIds ==
  ASSUME "id" \notin Faults, CacheInv, UniqueEntries, OwnInterface, RefreshElement
  PROVE  UniqueEntries' /\ OwnInterface'
<1>1. items \in Seq(Item) /\ DOMAIN items = 1 .. Len(items) /\ Len(items) \in Nat
  BY DEF CacheInv, TypeOK, CacheTyped
<1>2. PICK h : h = array[index]
  OBVIOUS
<1>3. \/ UNCHANGED items
      \/ \E n \in DOMAIN items : items[n].guid = h /\ items' = [items EXCEPT ![n].iface = h]
      \/ EntriesOf(h) = {} /\ items' = Append(items, [guid |-> h, iface |-> h])
  <2>1. IdReadByRefresh(h) = {h} /\ IdRead(h) = {h}
    BY DEF IdReadByRefresh, IdRead
  <2>2. CASE SkipElement
    BY <2>2 DEF SkipElement, targetVars
  <2>3. CASE find_desktop(h) # 0 /\ UpdateEntry(find_desktop(h), h)
    BY <1>1, <2>3, FindsEntry DEF UpdateEntry, targetVars
  <2>4. CASE find_desktop(h) = 0 /\ AddEntry(h)
    <3>1. EntriesOf(h) = {}
      BY <1>1, <2>4, FindsEntry
    <3>2. \/ UNCHANGED items
          \/ \E id \in {h} : items' = Append(items, [guid |-> id, iface |-> h])
      BY <2>1, <2>4 DEF AddEntry, targetVars
    <3>. QED
      BY <3>1, <3>2
  <2>5. \/ SkipElement
        \/ \E id \in {h} :
             IF find_desktop(id) # 0 THEN UpdateEntry(find_desktop(id), h) ELSE AddEntry(h)
    BY <1>2, <2>1 DEF RefreshElement
  <2>. QED
    BY <2>2, <2>3, <2>4, <2>5
<1>4. CASE UNCHANGED items
  BY <1>4 DEF UniqueEntries, OwnInterface
<1>5. ASSUME NEW n \in DOMAIN items, items[n].guid = h, items' = [items EXCEPT ![n].iface = h]
      PROVE  UniqueEntries' /\ OwnInterface'
  <2>1. items[n] \in Item /\ items[n].iface = h
    BY <1>1, <1>5 DEF OwnInterface
  <2>2. [items[n] EXCEPT !.iface = h] = items[n]
    BY <2>1 DEF Item
  <2>3. items' = items
    BY <1>1, <1>5, <2>2
  <2>. QED
    BY <2>3 DEF UniqueEntries, OwnInterface
<1>6. ASSUME EntriesOf(h) = {}, items' = Append(items, [guid |-> h, iface |-> h])
      PROVE  UniqueEntries' /\ OwnInterface'
  <2>1. /\ DOMAIN items' = 1 .. Len(items) + 1
        /\ items'[Len(items) + 1] = [guid |-> h, iface |-> h]
        /\ \A n \in 1 .. Len(items) : items'[n] = items[n]
    BY <1>1, <1>6
  <2>2. \A n \in 1 .. Len(items) : items[n].guid # h
    BY <1>1, <1>6 DEF EntriesOf
  <2>3. UniqueEntries'
    BY <1>1, <2>1, <2>2 DEF UniqueEntries
  <2>4. OwnInterface'
    BY <1>1, <2>1 DEF OwnInterface
  <2>. QED
    BY <2>3, <2>4
<1>. QED
  BY <1>3, <1>4, <1>5, <1>6

\* Every step keeps AnswerInv when ids can be read: one step per action.
LEMMA NextKeepsAnswers ==
  ASSUME "id" \notin Faults, CacheInv, AnswerInv, [Next]_vars
  PROVE  AnswerInv'
<1>. USE DEF AnswerInv
<1>1. CallTyped /\ items \in Seq(Item) /\ IdsKept
  BY NextKeepsInv DEF CacheInv, TypeOK, CacheTyped
<1>2. ASSUME UNCHANGED items PROVE UniqueEntries' /\ OwnInterface'
  BY <1>2 DEF UniqueEntries, OwnInterface
<1>3. ASSUME UNCHANGED answer PROVE AnswersMatch'
  BY <1>3 DEF AnswersMatch
<1>4. ASSUME UNCHANGED call, pc' # "read" \/ pc' = pc PROVE CallMatches'
  <2>1. call.entry # 0 => call.entry \in DOMAIN items
    BY <1>1 DEF CallTyped
  <2>. QED
    BY <1>1, <1>4, <2>1 DEF CallMatches, IdsKept
<1>5. CASE Explorer
  BY <1>2, <1>3, <1>4, <1>5 DEF Explorer, targetVars
<1>6. CASE GetDesktops
  BY <1>2, <1>3, <1>4, <1>6 DEF GetDesktops, Refreshed, targetVars
<1>22. CASE GetCount
  BY <1>2, <1>3, <1>4, <1>22 DEF GetCount, targetVars
<1>7. CASE RefreshElement
  <2>1. UniqueEntries' /\ OwnInterface'
    BY <1>7, ElementKeepsIds
  <2>2. pc' # "read"
    BY <1>7 DEF RefreshElement, SkipElement, UpdateEntry, AddEntry, Refreshed
  <2>. QED
    BY <1>3, <1>4, <1>7, <2>1, <2>2 DEF RefreshElement
<1>8. CASE RefreshEnds
  BY <1>2, <1>3, <1>4, <1>8 DEF RefreshEnds, Refreshed, targetVars
<1>9. ASSUME NEW of, NEW entry, NEW desktop, NEW at, Start(of, entry, desktop, at),
             UNCHANGED items,
             at = "read" => of = "current",
             of = "current" => entry = 0,
             of # "push",
             of = "switch" => entry \in DOMAIN items /\ items[entry].guid = desktop
      PROVE  AnswerInv'
  <2>1. CallMatches'
    BY <1>9 DEF Start, CallMatches
  <2>2. AnswersMatch'
    BY <1>9 DEF Start, AnswersMatch, NoAnswer
  <2>. QED
    BY <1>2, <1>9, <2>1, <2>2
<1>10. ASSUME NEW result, NEW about, Return(result, about), UNCHANGED items,
              call.of \in {"push", "switch"} /\ result # <<>> => result = about
       PROVE  AnswerInv'
  <2>1. CallMatches'
    BY <1>10 DEF Return, NoCall, CallMatches
  <2>2. AnswersMatch'
    BY <1>10 DEF Return, AnswersMatch
  <2>. QED
    BY <1>2, <1>10, <2>1, <2>2
<1>11. CASE CallList
  BY <1>9, <1>11 DEF CallList, targetVars
<1>12. CASE ListAnswers
  BY <1>10, <1>12 DEF ListAnswers, targetVars
<1>13. CASE CallCurrent
  BY <1>9, <1>13 DEF CallCurrent, targetVars
<1>14. CASE CurrentRefreshed
  <2>1. CallMatches'
    BY <1>1, <1>14 DEF CurrentRefreshed, CallMatches, CallTyped, targetVars
  <2>. QED
    BY <1>2, <1>3, <1>14, <2>1 DEF CurrentRefreshed, targetVars
<1>15. CASE ReadCurrent
  <2>1. call.of = "current" /\ call.entry = 0
    BY <1>15 DEF ReadCurrent, CallMatches
  <2>2. CASE call' = [call EXCEPT !.of = "push"]
    <3>1. CallMatches'
      BY <1>1, <1>15, <2>1, <2>2 DEF ReadCurrent, CallMatches, CallTyped
    <3>. QED
      BY <1>2, <1>3, <1>15, <3>1 DEF ReadCurrent, targetVars
  <2>3. ASSUME NEW id,
               call' = [of |-> "push", entry |-> find_desktop(id), desktop |-> id]
        PROVE  AnswerInv'
    <3>1. find_desktop(id) # 0 => items[find_desktop(id)].guid = id
      BY <1>1, FindsEntry
    <3>2. UNCHANGED items /\ UNCHANGED answer /\ pc' = "refresh"
      BY <1>15 DEF ReadCurrent, targetVars
    <3>3. CallMatches'
      BY <2>3, <3>1, <3>2 DEF CallMatches
    <3>. QED
      BY <1>2, <1>3, <3>2, <3>3
  <2>. QED
    BY <1>15, <2>2, <2>3 DEF ReadCurrent
<1>16. CASE PushAnswers
  <2>. DEFINE found == ok /\ call.entry # 0
              result == IF found THEN <<items[call.entry].guid>> ELSE <<>>
  <2>1. Return(result, <<call.desktop>>) /\ UNCHANGED items /\ call.of = "push"
    BY <1>16 DEF PushAnswers, targetVars
  <2>2. result # <<>> => result = <<call.desktop>>
    BY <2>1 DEF CallMatches
  <2>. HIDE DEF result
  <2>. QED
    BY <1>10, <2>1, <2>2
<1>17. CASE CallCreate
  <2>1. \/ Start("none", 0, ZeroGuid, "script")
        \/ \E id : Start("create", 0, id, "refresh")
    BY <1>17 DEF CallCreate
  <2>. QED
    BY <1>9, <1>17, <2>1 DEF CallCreate, targetVars
<1>18. CASE CreateFinds
  <2>1. CASE Return(<<>>, <<call.desktop>>)
    BY <1>10, <1>18, <2>1 DEF CreateFinds, targetVars
  <2>2. CASE /\ call' = [call EXCEPT !.of = "push", !.entry = find_desktop(call.desktop)]
             /\ pc' = "refresh"
             /\ answer' = answer
    <3>1. UNCHANGED items
      BY <1>18 DEF CreateFinds, targetVars
    <3>2. find_desktop(call.desktop) # 0 =>
            items[find_desktop(call.desktop)].guid = call.desktop
      BY <1>1, FindsEntry
    <3>3. /\ call'.of = "push" /\ call'.desktop = call.desktop
          /\ call'.entry = find_desktop(call.desktop)
      BY <1>1, <2>2 DEF CallTyped
    <3>4. CallMatches'
      BY <2>2, <3>1, <3>2, <3>3 DEF CallMatches
    <3>. QED
      BY <1>2, <1>3, <2>2, <3>1, <3>4
  <2>. QED
    BY <1>18, <2>1, <2>2 DEF CreateFinds
<1>19. CASE CallSwitch
  <2>1. PICK n \in handed : Start("switch", n, items[n].guid, "refresh")
    BY <1>19 DEF CallSwitch
  <2>2. n \in DOMAIN items
    BY <1>1 DEF CallTyped
  <2>. QED
    BY <1>9, <1>19, <2>1, <2>2 DEF CallSwitch, targetVars
<1>20. CASE SwitchDesktop
  <2>1. call.of = "switch" /\ UNCHANGED items
    BY <1>20 DEF SwitchDesktop, targetVars
  <2>2. items[call.entry].iface = call.desktop
    BY <2>1 DEF CallMatches, OwnInterface
  <2>3. \/ current' = call.desktop /\ Return(<<current'>>, <<call.desktop>>)
        \/ Return(<<>>, <<call.desktop>>)
    BY <1>20, <2>2 DEF SwitchDesktop
  <2>. QED
    BY <1>10, <2>1, <2>3
<1>21. CASE UNCHANGED vars
  BY <1>2, <1>3, <1>4, <1>21 DEF vars
<1>. QED
  BY <1>5, <1>6, <1>7, <1>8, <1>11, <1>12, <1>13, <1>14, <1>15, <1>16, <1>17, <1>18, <1>19,
     <1>20, <1>21, <1>22 DEF Next, refresh, Lua

\* AnswerInv holds when ids can be read.
LEMMA AnswerInvHolds ==
  ASSUME "id" \notin Faults
  PROVE  Spec => []AnswerInv
<1>1. Init => AnswerInv
  BY DEF Init, AnswerInv, UniqueEntries, OwnInterface, CallMatches, AnswersMatch, NoCall, NoAnswer
<1>2. CacheInv /\ AnswerInv /\ [Next]_vars => AnswerInv'
  BY NextKeepsAnswers
<1>. QED
  BY <1>1, <1>2, CacheInvHolds, PTL DEF Spec

\* As long as GetID answers, a desktop has one entry: the same desktop always yields
\* the same table (lua/uniwm.lua:22).
THEOREM DesktopsHaveOneEntry ==
  ASSUME "id" \notin Faults
  PROVE  Spec => []UniqueEntries
<1>1. AnswerInv => UniqueEntries
  BY DEF AnswerInv
<1>. QED
  BY <1>1, AnswerInvHolds, PTL

\* As long as GetID answers, what current() and create() return and where switch()
\* goes is the desktop they are about, whatever the user does meanwhile.
THEOREM AnswersAreRight ==
  ASSUME "id" \notin Faults
  PROVE  Spec => []AnswersMatch
<1>1. AnswerInv => AnswersMatch
  BY DEF AnswerInv
<1>. QED
  BY <1>1, AnswerInvHolds, PTL

\* As long as GetID answers, each entry reaches the desktop whose id it has.
THEOREM TablesReachTheirDesktop ==
  ASSUME "id" \notin Faults
  PROVE  Spec => []OwnInterface
<1>1. AnswerInv => OwnInterface
  BY DEF AnswerInv
<1>. QED
  BY <1>1, AnswerInvHolds, PTL

\* As long as GetID answers, an entry never goes and goes on reaching the same desktop, so
\* that the pointer in a script's table (uniwm-lua.c:160-175) stays good: it keeps its id
\* whatever refresh does, and refresh gives it no interface but that of its id.
THEOREM EntriesOutlastRefresh ==
  ASSUME "id" \notin Faults
  PROVE  Spec => EntriesStay
<1>1. OwnInterface /\ OwnInterface' /\ IdsKept => EntriesKept
  BY DEF OwnInterface, IdsKept, EntriesKept
<1>2. CacheInv /\ AnswerInv /\ [Next]_vars => [EntriesKept]_vars
  <2>1. CacheInv /\ AnswerInv /\ [Next]_vars => IdsKept /\ OwnInterface /\ OwnInterface'
    BY NextKeepsInv, NextKeepsAnswers DEF AnswerInv
  <2>. QED
    BY <1>1, <2>1
<1>. QED
  BY <1>2, CacheInvHolds, AnswerInvHolds, PTL DEF Spec, EntriesStay

-----------------------------------------------------------------------------
(* The list.  What refresh has passed has an entry, and entries stay.       *)

HaveEntries(k) == \A j \in 1 .. k : \E n \in DOMAIN items : items[n].guid = array[j]

ListInv ==
  /\ pc # "script" => answer.of # "list"
  /\ pc = "count" => index = 1
  /\ connected /\ pc = "each" => HaveEntries(index - 1)
  /\ connected /\ ok /\ pc = "refreshed" => HaveEntries(Len(array))
  /\ ListIsComplete

\* With ids and elements that can be read, one round of refresh leaves the desktop
\* with an entry, or ends it without success.
LEMMA ElementHasEntry ==
  ASSUME "id" \notin Faults, "element" \notin Faults, CacheInv, ListInv, connected, RefreshElement
  PROVE  \/ pc' = "refreshed" /\ ok' = FALSE
         \/ pc' = "each" /\ index' = index + 1 /\ HaveEntries(index - 1)'
<1>1. items \in Seq(Item) /\ index \in Nat /\ array' = array /\ IdsKept /\ HaveEntries(index - 1)
  BY ElementKeepsInv DEF CacheInv, TypeOK, CacheTyped, RefreshElement, ListInv
<1>2. PICK g : g = array[index]
  OBVIOUS
<1>3. \/ find_desktop(g) # 0 /\ UpdateEntry(find_desktop(g), g)
      \/ AddEntry(g)
  BY <1>2 DEF RefreshElement, SkipElement, IdReadByRefresh
<1>4. ASSUME ~(pc' = "refreshed" /\ ok' = FALSE)
      PROVE  \E n \in DOMAIN items' : items'[n].guid = g
  <2>1. CASE find_desktop(g) # 0 /\ UpdateEntry(find_desktop(g), g)
    <3>1. find_desktop(g) \in DOMAIN items /\ items[find_desktop(g)].guid = g
      BY <1>1, <2>1, FindsEntry
    <3> QED
      BY <1>1, <3>1 DEF IdsKept
  <2>2. CASE AddEntry(g)
    <3>1. items' = Append(items, [guid |-> g, iface |-> g])
      BY <1>4, <2>2 DEF AddEntry, Refreshed, IdRead
    <3>2. Len(items) + 1 \in DOMAIN items' /\ items'[Len(items) + 1] = [guid |-> g, iface |-> g]
      BY <1>1, <3>1
    <3> QED
      BY <3>2
  <2> QED
    BY <1>3, <2>1, <2>2
<1>5. ASSUME ~(pc' = "refreshed" /\ ok' = FALSE)
      PROVE  pc' = "each" /\ index' = index + 1
  BY <1>3, <1>5 DEF RefreshElement, UpdateEntry, AddEntry, Refreshed
<1>6. ASSUME ~(pc' = "refreshed" /\ ok' = FALSE), NEW j \in 1 .. index
      PROVE  \E n \in DOMAIN items' : items'[n].guid = array'[j]
  <2>1. CASE j = index
    BY <1>1, <1>2, <1>4, <1>6, <2>1
  <2>2. CASE j \in 1 .. index - 1
    BY <1>1, <2>2 DEF HaveEntries, IdsKept
  <2> QED
    BY <1>1, <2>1, <2>2
<1>7. ASSUME ~(pc' = "refreshed" /\ ok' = FALSE), index' = index + 1
      PROVE  HaveEntries(index - 1)'
  <2>1. index' - 1 = index
    BY <1>1, <1>7
  <2> QED
    BY <1>6, <1>7, <2>1 DEF HaveEntries
<1> QED
  BY <1>5, <1>7

\* Every step keeps ListInv when ids, elements and their number can be read.
LEMMA NextKeepsList ==
  ASSUME "id" \notin Faults, "element" \notin Faults, "count" \notin Faults,
         CacheInv, ListInv, [Next]_vars
  PROVE  ListInv'
<1>1. connected \in BOOLEAN /\ index \in 1 .. Len(array) + 1 /\ Len(array) \in Nat
  BY DEF CacheInv, TypeOK, ShellTyped, CacheTyped
<1>2. connected' => connected
  <2>1. connected' = FALSE \/ connected' = connected
    BY DEF Next, Explorer, UserCreates, UserCloses, UserMoves, UserSwitches, ExplorerRestarts,
           refresh, GetDesktops, GetCount, RefreshElement, RefreshEnds, Lua, CallList, ListAnswers,
           CallCurrent, CurrentRefreshed, ReadCurrent, PushAnswers, CallCreate, CreateFinds,
           CallSwitch, SwitchDesktop, vars, shellVars
  <2> QED
    BY <2>1
<1>3. CASE Explorer
  BY <1>2, <1>3 DEF Explorer, targetVars, ListInv, HaveEntries, ListIsComplete
<1>4. CASE GetDesktops
  <2>1. pc # "script" /\ answer' = answer
    BY <1>4 DEF GetDesktops
  <2>2. \/ pc' = "refreshed" /\ ok' = FALSE
        \/ pc' = "count" /\ index' = 1
    BY <1>4 DEF GetDesktops, Refreshed
  <2> QED
    BY <2>1, <2>2 DEF ListInv, HaveEntries, ListIsComplete
<1>13. CASE GetCount
  <2>1. pc = "count" /\ pc' = "each" /\ answer' = answer /\ connected' = connected
    BY <1>13 DEF GetCount, shellVars
  <2>2. connected => index' = 1
    BY <1>13 DEF GetCount, ShellFails, MayFail, ListInv
  <2>3. connected => HaveEntries(index - 1)'
    BY <2>2 DEF HaveEntries
  <2> QED
    BY <2>1, <2>3 DEF ListInv, ListIsComplete
<1>5. CASE RefreshElement
  <2>1. pc = "each" /\ answer' = answer /\ connected' = connected
    BY <1>5 DEF RefreshElement, shellVars
  <2>2. pc' \in {"each", "refreshed"}
    BY <1>5, <2>1 DEF RefreshElement, SkipElement, UpdateEntry, AddEntry, Refreshed
  <2>3. connected => \/ pc' = "refreshed" /\ ok' = FALSE
                     \/ pc' = "each" /\ HaveEntries(index - 1)'
    BY <1>5, ElementHasEntry
  <2> QED
    BY <2>1, <2>2, <2>3 DEF ListInv, ListIsComplete
<1>6. CASE RefreshEnds
  <2>1. /\ pc = "each" /\ pc' = "refreshed" /\ index > Len(array)
        /\ UNCHANGED <<connected, answer, items, array>>
    BY <1>6 DEF RefreshEnds, Refreshed, shellVars, targetVars
  <2>2. index - 1 = Len(array)
    BY <1>1, <2>1
  <2> QED
    BY <2>1, <2>2 DEF ListInv, HaveEntries, ListIsComplete
<1>7. CASE ListAnswers
  <2>1. pc = "refreshed" /\ pc' = "script" /\ UNCHANGED <<connected, ok, items, array>>
    BY <1>7 DEF ListAnswers, Return, shellVars, targetVars
  <2>2. answer'.result = (IF ok THEN AllIds ELSE <<>>) /\ answer'.about = array
    BY <1>7 DEF ListAnswers, Return
  <2>3. ok /\ connected => Elements(array) \subseteq Elements(AllIds)
    <3> SUFFICES ASSUME ok, connected, NEW j \in DOMAIN array
                 PROVE  \E n \in DOMAIN items : AllIds[n] = array[j]
      BY DEF Elements, AllIds
    <3>1. DOMAIN array = 1 .. Len(array)
      BY DEF CacheInv, TypeOK, CacheTyped
    <3> QED
      BY <2>1, <3>1 DEF ListInv, HaveEntries, AllIds
  <2> QED
    BY <2>1, <2>2, <2>3 DEF ListInv, ListIsComplete
<1>8. ASSUME answer'.of # "list", pc' \notin {"count", "each", "refreshed"} PROVE ListInv'
  BY <1>8 DEF ListInv, ListIsComplete
<1>9. CASE CallList \/ CallCurrent \/ CallCreate \/ CallSwitch
  <2>1. answer' = NoAnswer
    BY <1>9 DEF CallList, CallCurrent, CallCreate, CallSwitch, Start
  <2>2. pc' \in {"script", "read", "refresh"}
    BY <1>9 DEF CallList, CallCurrent, CallCreate, CallSwitch, Start
  <2> QED
    BY <1>8, <2>1, <2>2 DEF NoAnswer
<1>10. CASE CurrentRefreshed \/ ReadCurrent
  <2>1. pc # "script" /\ answer' = answer /\ pc' \in {"read", "refresh"}
    BY <1>10 DEF CurrentRefreshed, ReadCurrent
  <2> QED
    BY <1>8, <2>1 DEF ListInv
<1>11. CASE PushAnswers \/ CreateFinds \/ SwitchDesktop
  <2>1. pc # "script" /\ call.of # "list"
    BY <1>11 DEF PushAnswers, CreateFinds, SwitchDesktop
  <2>2. pc' \in {"script", "refresh"} /\ (answer' = answer \/ answer'.of = call.of)
    BY <1>11 DEF PushAnswers, CreateFinds, SwitchDesktop, Return
  <2> QED
    BY <1>8, <2>1, <2>2 DEF ListInv
<1>12. CASE UNCHANGED vars
  BY <1>12 DEF vars, shellVars, targetVars, ListInv, HaveEntries, ListIsComplete
<1> QED
  BY <1>3, <1>4, <1>5, <1>6, <1>7, <1>9, <1>10, <1>11, <1>12, <1>13 DEF Next, refresh, Lua

\* As long as GetID, GetCount and GetAt answer, list() leaves out no desktop that Explorer
\* lists, unless refresh has failed or Explorer is gone (desktop_win.c:272-318).
THEOREM ListLeavesOutNone ==
  ASSUME "id" \notin Faults, "element" \notin Faults, "count" \notin Faults
  PROVE  Spec => []ListIsComplete
<1>1. Init => ListInv
  BY DEF Init, ListInv, ListIsComplete, NoAnswer
<1>2. CacheInv /\ ListInv /\ [Next]_vars => ListInv'
  BY NextKeepsList
<1>3. ListInv => ListIsComplete
  BY DEF ListInv
<1> QED
  BY <1>1, <1>2, <1>3, CacheInvHolds, PTL DEF Spec

==================================================================================
