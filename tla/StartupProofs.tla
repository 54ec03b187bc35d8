----------------------------- MODULE StartupProofs -----------------------------
(***************************************************************************)
(* The characters made from what the managers loaded, for every database   *)
(* and every request: what their items consist of, where each is held, and *)
(* what the client is told.                                                *)
(***************************************************************************)
EXTENDS NewCharacter, FiniteSetTheorems, CommonLemmas

-----------------------------------------------------------------------------
(* Helpers of the model. *)

LEMMA MaxOf ==
    ASSUME NEW k \in Nat, NEW S, S \subseteq 0..k, S # {}
    PROVE  Max(S) \in S /\ \A n \in S : n <= Max(S)
<1>1. \E m \in S : \A n \in S : m >= n
  <2>1. PICK m \in S : \A n \in S : n <= m
    BY GreatestOf
  <2>2. \A n \in S : m >= n
    BY <2>1
  <2> QED
    BY <2>2
<1>2. Max(S) \in S /\ \A n \in S : Max(S) >= n
  BY <1>1 DEF Max
<1>3. \A n \in S : n \in 0..k
  OBVIOUS
<1>4. Max(S) \in 0..k
  BY <1>2
<1> QED
  BY <1>2, <1>3, <1>4

LEMMA MinOf ==
    ASSUME NEW S, S \subseteq Nat, S # {}
    PROVE  Min(S) \in S /\ \A n \in S : Min(S) <= n
<1>1. \E m \in S : \A n \in S : m <= n
  BY LeastOf
<1> QED
  BY <1>1 DEF Min

LEMMA OverValues ==
    ASSUME NEW f, NEW g
    PROVE  /\ DOMAIN Over(f, g) = DOMAIN f \cup DOMAIN g
           /\ \A k \in DOMAIN f : Over(f, g)[k] = f[k]
           /\ \A k \in DOMAIN g : k \notin DOMAIN f => Over(f, g)[k] = g[k]
  BY DEF Over

LEMMA IndexedValues ==
    ASSUME NEW map, NEW keys, NEW default
    PROVE  /\ DOMAIN Indexed(map, keys, default) = DOMAIN map \cup keys
           /\ \A k \in DOMAIN map : Indexed(map, keys, default)[k] = map[k]
           /\ \A k \in keys : k \notin DOMAIN map => Indexed(map, keys, default)[k] = default
<1> DEFINE fresh == [k \in keys |-> default]
<1>1. DOMAIN fresh = keys /\ \A k \in keys : fresh[k] = default
  OBVIOUS
<1>2. Indexed(map, keys, default) = Over(map, fresh)
  BY DEF Indexed
<1> HIDE DEF fresh
<1>3. /\ DOMAIN Over(map, fresh) = DOMAIN map \cup DOMAIN fresh
      /\ \A k \in DOMAIN map : Over(map, fresh)[k] = map[k]
      /\ \A k \in DOMAIN fresh : k \notin DOMAIN map => Over(map, fresh)[k] = fresh[k]
  BY OverValues
<1> QED
  BY <1>1, <1>2, <1>3

-----------------------------------------------------------------------------
(* The two loops of CharacterManager::Create. *)

Writable(item) == WrittenFrom(item) \subseteq item.components

LEMMA NewItemIsWritable ==
    ASSUME NEW id, NEW grade
    PROVE  Writable(NewItem(id, grade)) /\ NewItem(id, grade).id = id
  BY DEF Writable, WrittenFrom, NewItem, Equipables, ItemComponents, EquipComponents

\* The recursive function is the one its equations describe.
LEMMA DressingUnrolls ==
    ASSUME NEW outfit, Len(outfit) \in Nat
    PROVE  /\ Dressing(outfit)[0] = [items |-> items, equipped |-> Bare]
           /\ \A n \in 1..Len(outfit) :
                 Dressing(outfit)[n] = CreateDefaultItemSlot(Dressing(outfit)[n - 1], outfit[n])
<1> DEFINE base == [items |-> items, equipped |-> Bare]
           Step(x, n) == CreateDefaultItemSlot(x, outfit[n])
           Folds(g, k) == g = [n \in 0..k |-> IF n = 0 THEN base ELSE Step(g[n - 1], n)]
           S == {k \in Nat : \E g : Folds(g, k)}
<1>0. Dressing(outfit) = CHOOSE g : Folds(g, Len(outfit))
  BY DEF Dressing
<1> HIDE DEF base, Step
<1>1. 0 \in S
  <2> DEFINE g == [n \in 0..0 |-> base]
  <2>1. Folds(g, 0)
    OBVIOUS
  <2> QED
    BY <2>1
<1>2. ASSUME NEW k \in Nat, k \in S
      PROVE  k + 1 \in S
  <2>1. PICK g : Folds(g, k)
    BY <1>2
  <2> DEFINE h == [n \in 0..(k + 1) |-> IF n = k + 1 THEN Step(g[k], k + 1) ELSE g[n]]
  <2>2. ASSUME NEW n \in 0..(k + 1)
        PROVE  h[n] = IF n = 0 THEN base ELSE Step(h[n - 1], n)
    <3>1. CASE n = 0
      BY <2>1, <3>1
    <3>2. CASE n \in 1..k
      <4>1. n - 1 \in 0..k /\ n \in 0..k /\ n # k + 1 /\ n - 1 # k + 1 /\ n # 0
        BY <3>2
      <4>2. h[n] = g[n] /\ h[n - 1] = g[n - 1]
        BY <4>1
      <4> QED
        BY <2>1, <4>1, <4>2
    <3>3. CASE n = k + 1
      <4>1. n - 1 = k /\ k \in 0..(k + 1) /\ k # k + 1 /\ n # 0
        BY <3>3
      <4> QED
        BY <3>3, <4>1
    <3> QED
      BY <3>1, <3>2, <3>3
  <2>3. Folds(h, k + 1)
    BY <2>2
  <2> HIDE DEF Folds, h
  <2>4. \E f : Folds(f, k + 1)
    BY <2>3
  <2> QED
    BY <2>4
<1>3. \E g : Folds(g, Len(outfit))
  <2>1. Nat \subseteq S
    BY <1>1, <1>2, SetInduction
  <2>2. \A k \in S : \E g : Folds(g, k)
    OBVIOUS
  <2> HIDE DEF S, Folds
  <2> QED
    BY <2>1, <2>2
<1>4. Folds(Dressing(outfit), Len(outfit))
  BY <1>0, <1>3
<1>5. /\ Dressing(outfit)[0] = base
      /\ \A n \in 1..Len(outfit) : Dressing(outfit)[n] = Step(Dressing(outfit)[n - 1], n)
  BY <1>4
<1> QED
  BY <1>5 DEF base, Step

BareBag(size) == [i \in 0..size - 1 |-> NoItem]

LEMMA StockingUnrolls ==
    ASSUME NEW made, NEW size, NEW supplies, Len(supplies) \in Nat
    PROVE  /\ Stocking(made, size, supplies)[0] = [items |-> made, bag |-> BareBag(size)]
           /\ \A n \in 1..Len(supplies) :
                 Stocking(made, size, supplies)[n]
                    = AquireDefaultItem(Stocking(made, size, supplies)[n - 1], supplies[n])
<1> DEFINE base == [items |-> made, bag |-> BareBag(size)]
           Step(x, n) == AquireDefaultItem(x, supplies[n])
           Folds(g, k) == g = [n \in 0..k |-> IF n = 0 THEN base ELSE Step(g[n - 1], n)]
           S == {k \in Nat : \E g : Folds(g, k)}
<1>0. Stocking(made, size, supplies) = CHOOSE g : Folds(g, Len(supplies))
  BY DEF Stocking, BareBag
<1> HIDE DEF base, Step
<1>1. 0 \in S
  <2> DEFINE g == [n \in 0..0 |-> base]
  <2>1. Folds(g, 0)
    OBVIOUS
  <2> QED
    BY <2>1
<1>2. ASSUME NEW k \in Nat, k \in S
      PROVE  k + 1 \in S
  <2>1. PICK g : Folds(g, k)
    BY <1>2
  <2> DEFINE h == [n \in 0..(k + 1) |-> IF n = k + 1 THEN Step(g[k], k + 1) ELSE g[n]]
  <2>2. ASSUME NEW n \in 0..(k + 1)
        PROVE  h[n] = IF n = 0 THEN base ELSE Step(h[n - 1], n)
    <3>1. CASE n = 0
      BY <2>1, <3>1
    <3>2. CASE n \in 1..k
      <4>1. n - 1 \in 0..k /\ n \in 0..k /\ n # k + 1 /\ n - 1 # k + 1 /\ n # 0
        BY <3>2
      <4>2. h[n] = g[n] /\ h[n - 1] = g[n - 1]
        BY <4>1
      <4> QED
        BY <2>1, <4>1, <4>2
    <3>3. CASE n = k + 1
      <4>1. n - 1 = k /\ k \in 0..(k + 1) /\ k # k + 1 /\ n # 0
        BY <3>3
      <4> QED
        BY <3>3, <4>1
    <3> QED
      BY <3>1, <3>2, <3>3
  <2>3. Folds(h, k + 1)
    BY <2>2
  <2> HIDE DEF Folds, h
  <2>4. \E f : Folds(f, k + 1)
    BY <2>3
  <2> QED
    BY <2>4
<1>3. \E g : Folds(g, Len(supplies))
  <2>1. Nat \subseteq S
    BY <1>1, <1>2, SetInduction
  <2>2. \A k \in S : \E g : Folds(g, k)
    OBVIOUS
  <2> HIDE DEF S, Folds
  <2> QED
    BY <2>1, <2>2
<1>4. Folds(Stocking(made, size, supplies), Len(supplies))
  BY <1>0, <1>3
<1>5. /\ Stocking(made, size, supplies)[0] = base
      /\ \A n \in 1..Len(supplies) :
            Stocking(made, size, supplies)[n] = Step(Stocking(made, size, supplies)[n - 1], n)
  BY <1>4
<1> QED
  BY <1>5 DEF base, Step

\* Items have been appended, and none of the new ones lacks what is read of it.
Grown(old, list) ==
    /\ IsSequence(list)
    /\ Len(old) <= Len(list)
    /\ \A e \in 1..Len(old) : list[e] = old[e]
    /\ \A e \in Len(old) + 1 .. Len(list) : Writable(list[e])

\* The slots refer to items behind the k-th up to the l-th, no two to the same;
\* and every one of these items is in a slot.
Apart(k, l, slots) ==
    /\ \A s \in DOMAIN slots : slots[s] = NoItem \/ slots[s] \in k + 1 .. l
    /\ \A s, t \in DOMAIN slots : slots[s] # NoItem /\ slots[s] = slots[t] => s = t
InSlot(e, slots) == \E s \in DOMAIN slots : slots[s] = e
Stored(k, l, slots) == \A e \in k + 1 .. l : InSlot(e, slots)

LEMMA AppendGrows ==
    ASSUME NEW old, NEW list, NEW x, IsSequence(old), Grown(old, list), Writable(x)
    PROVE  /\ Grown(old, Append(list, x))
           /\ Len(Append(list, x)) = Len(list) + 1
           /\ Append(list, x)[Len(list) + 1] = x
           /\ \A e \in 1..Len(list) : Append(list, x)[e] = list[e]
<1> DEFINE longer == Append(list, x)
<1>1. Len(old) \in Nat /\ Len(list) \in Nat /\ IsSequence(list)
  BY SequenceDomain DEF Grown
<1>2. /\ IsSequence(longer)
      /\ Len(longer) = Len(list) + 1
      /\ longer[Len(list) + 1] = x
      /\ \A e \in 1..Len(list) : longer[e] = list[e]
  BY <1>1, AppendedSequence
<1> HIDE DEF longer
<1>3. \A e \in 1..Len(old) : longer[e] = old[e]
  BY <1>1, <1>2 DEF Grown
<1>4. ASSUME NEW e \in Len(old) + 1 .. Len(longer)
      PROVE  Writable(longer[e])
  <2>1. e = Len(list) + 1 \/ e \in Len(old) + 1 .. Len(list)
    BY <1>1, <1>2
  <2>2. CASE e = Len(list) + 1
    BY <1>2, <2>2
  <2>3. CASE e \in Len(old) + 1 .. Len(list)
    <3>1. longer[e] = list[e] /\ Writable(list[e])
      BY <1>1, <1>2, <2>3 DEF Grown
    <3> QED
      BY <3>1
  <2> QED
    BY <2>1, <2>2, <2>3
<1>5. Grown(old, longer)
  BY <1>1, <1>2, <1>3, <1>4 DEF Grown
<1> QED
  BY <1>2, <1>5 DEF longer

LEMMA PutApart ==
    ASSUME NEW k \in Nat, NEW l \in Nat, k <= l, NEW slots, Apart(k, l, slots),
           NEW s \in DOMAIN slots, slots[s] = NoItem
    PROVE  LET put == [slots EXCEPT ![s] = l + 1]
           IN  /\ DOMAIN put = DOMAIN slots
               /\ Apart(k, l + 1, put)
               /\ \A e \in k + 1 .. l : InSlot(e, slots) => InSlot(e, put)
               /\ InSlot(l + 1, put)
<1> DEFINE put == [slots EXCEPT ![s] = l + 1]
<1>1. /\ DOMAIN put = DOMAIN slots
      /\ put[s] = l + 1
      /\ \A t \in DOMAIN slots : t # s => put[t] = slots[t]
  OBVIOUS
<1> HIDE DEF put
<1>2. \A t \in DOMAIN slots : t # s => slots[t] # l + 1
  BY DEF Apart, NoItem
<1>3. Apart(k, l + 1, put)
  BY <1>1, <1>2 DEF Apart
<1>4. \A e \in k + 1 .. l : InSlot(e, slots) => InSlot(e, put)
  BY <1>1 DEF InSlot, NoItem
<1>5. InSlot(l + 1, put)
  BY <1>1 DEF InSlot
<1> QED
  BY <1>1, <1>3, <1>4, <1>5 DEF put

\* More items without a slot for them disturb no slot.
LEMMA LongerApart ==
    ASSUME NEW k \in Nat, NEW l \in Nat, NEW slots, Apart(k, l, slots)
    PROVE  Apart(k, l + 1, slots)
  BY DEF Apart

-----------------------------------------------------------------------------
(* What a new character wears. *)

LEMMA PieceSlot ==
    ASSUME NEW n \in 1..16
    PROVE  /\ EquipOrder[n] \in EquipFields
           /\ SlotOf[EquipOrder[n]] = IF n <= 9 THEN n - 1 ELSE IF n <= 15 THEN n + 3 ELSE 27
  BY DEF EquipOrder, EquipFields, SlotOf

LEMMA EveryFieldEquipped == \A f \in EquipFields : \E n \in 1..16 : EquipOrder[n] = f
  BY DEF EquipOrder, EquipFields

LEMMA OutfitOf ==
    ASSUME NEW pack, NEW body
    PROVE  /\ Len(Outfit(pack, body)) = 23
           /\ \A n \in 1..16 :
                 /\ Outfit(pack, body)[n].id = pack[EquipOrder[n]].id
                 /\ Outfit(pack, body)[n].slot = SlotOf[EquipOrder[n]]
           /\ \A n \in 17..23 : /\ Outfit(pack, body)[n].id = body[n - 17]
                                /\ Outfit(pack, body)[n].slot = n + 2
<1> DEFINE gear == [n \in 1..16 |-> LET piece == pack[EquipOrder[n]] IN
                     [id |-> piece.id, grade |-> piece.grade, slot |-> SlotOf[EquipOrder[n]]]]
           face == [n \in 1..7 |-> [id |-> body[n - 1], grade |-> 0, slot |-> BodySlot(n - 1)]]
<1>1. Outfit(pack, body) = gear \o face
  BY DEF Outfit
<1>2. /\ DOMAIN gear = 1..16
      /\ \A n \in 1..16 : /\ gear[n].id = pack[EquipOrder[n]].id
                          /\ gear[n].slot = SlotOf[EquipOrder[n]]
      /\ gear = [n \in 1..16 |-> gear[n]]
  OBVIOUS
<1>3. /\ DOMAIN face = 1..7
      /\ \A n \in 1..7 : face[n].id = body[n - 1] /\ face[n].slot = n + 18
      /\ face = [n \in 1..7 |-> face[n]]
  BY DEF BodySlot
<1> HIDE DEF gear, face
<1>4. IsSequence(gear) /\ Len(gear) = 16 /\ IsSequence(face) /\ Len(face) = 7
  BY <1>2, <1>3, IntervalSequence
<1> DEFINE both == gear \o face
<1>5. /\ Len(both) = Len(gear) + Len(face)
      /\ \A n \in 1..Len(gear) : both[n] = gear[n]
      /\ \A n \in Len(gear) + 1 .. Len(gear) + Len(face) : both[n] = face[n - Len(gear)]
  BY <1>4, ConcatenatedSequence
<1> HIDE DEF both
<1>6. /\ Len(both) = 23
      /\ \A n \in 1..16 : both[n] = gear[n]
      /\ \A n \in 17..23 : both[n] = face[n - 16]
  BY <1>4, <1>5
<1>7. \A n \in 17..23 : n - 16 \in 1..7 /\ (n - 16) - 1 = n - 17 /\ (n - 16) + 18 = n + 2
  OBVIOUS
<1> QED
  BY <1>1, <1>2, <1>3, <1>6, <1>7 DEF both

\* No piece displaces another.
LEMMA OutfitSlots ==
    ASSUME NEW pack, NEW body
    PROVE  /\ \A n \in 1..23 : Outfit(pack, body)[n].slot \in 0..27
           /\ \A m, n \in 1..23 :
                 Outfit(pack, body)[m].slot = Outfit(pack, body)[n].slot => m = n
<1> DEFINE slot(n) == Outfit(pack, body)[n].slot
<1>1. \A n \in 1..23 : slot(n) = IF n <= 9 THEN n - 1 ELSE IF n <= 15 THEN n + 3
                                 ELSE IF n = 16 THEN 27 ELSE n + 2
  <2>1. \A n \in 1..16 :
           slot(n) = IF n <= 9 THEN n - 1 ELSE IF n <= 15 THEN n + 3 ELSE 27
    BY OutfitOf, PieceSlot
  <2>2. \A n \in 17..23 : slot(n) = n + 2
    BY OutfitOf
  <2> QED
    BY <2>1, <2>2
<1> HIDE DEF slot
<1>2. /\ \A n \in 1..23 : slot(n) \in 0..27
      /\ \A m, n \in 1..23 : slot(m) = slot(n) => m = n
  BY <1>1
<1> QED
  BY <1>2 DEF slot
\* After n pieces: the slot of each holds an item of its id, or none if its id has
\* no template; other slots are empty.
Fitted(made, piece) ==
    LET e == made.equipped[piece.slot]
    IN  IF piece.id > 0 /\ IsItem(piece.id)
        THEN e # NoItem /\ made.items[e].id = piece.id
        ELSE e = NoItem
Worn(outfit, n, made) ==
    /\ Grown(items, made.items)
    /\ DOMAIN made.equipped = 0..27
    /\ Apart(Len(items), Len(made.items), made.equipped)
    /\ Stored(Len(items), Len(made.items), made.equipped)
    /\ \A s \in 0..27 :
          (\A m \in 1..n : outfit[m].slot # s) => made.equipped[s] = NoItem
    /\ \A m \in 1..n : Fitted(made, outfit[m])

LEMMA FitPiece ==
    ASSUME IsSequence(items), NEW outfit, NEW made,
           \A n \in 1..23 : outfit[n].slot \in 0..27,
           \A m, n \in 1..23 : outfit[m].slot = outfit[n].slot => m = n,
           NEW n \in 1..23, Worn(outfit, n - 1, made)
    PROVE  Worn(outfit, n, CreateDefaultItemSlot(made, outfit[n]))
<1> DEFINE piece == outfit[n]
           slot == piece.slot
           then == CreateDefaultItemSlot(made, piece)
           k == Len(items)
           l == Len(made.items)
           before == made.equipped
           after == then.equipped
<1>1. /\ Grown(items, made.items)
      /\ DOMAIN before = 0..27
      /\ Apart(k, l, before)
      /\ Stored(k, l, before)
      /\ \A s \in 0..27 : (\A m \in 1..n - 1 : outfit[m].slot # s) => before[s] = NoItem
      /\ \A m \in 1..n - 1 : Fitted(made, outfit[m])
  BY DEF Worn
<1>2. k \in Nat /\ l \in Nat /\ k <= l
  BY <1>1, SequenceDomain DEF Grown
<1>3. \A m \in 1..n - 1 : m \in 1..23 /\ m \in 1..n /\ m # n
  OBVIOUS
<1>4. n \in 1..n /\ \A m \in 1..n : m = n \/ m \in 1..n - 1
  OBVIOUS
<1>5. slot \in 0..27 /\ \A m \in 1..n - 1 : outfit[m].slot # slot /\ outfit[m].slot \in 0..27
  BY <1>3
<1> HIDE DEF piece, slot, then, k, l, before, after
<1>6. before[slot] = NoItem
  BY <1>1, <1>5
<1>7. ASSUME NEW s \in 0..27, \A m \in 1..n : outfit[m].slot # s
      PROVE  s # slot /\ before[s] = NoItem
  <2>1. \A m \in 1..n - 1 : outfit[m].slot # s
    BY <1>3, <1>7
  <2>2. s # slot
    BY <1>4, <1>7 DEF slot, piece
  <2> QED
    BY <1>1, <2>1, <2>2
<1>8. CASE ~(piece.id > 0 /\ IsItem(piece.id))
  <2>1. then = made
    BY <1>8 DEF CreateDefaultItemSlot, then
  <2>2. Fitted(made, piece)
    BY <1>6, <1>8 DEF Fitted, before, slot
  <2>3. \A m \in 1..n : Fitted(made, outfit[m])
    BY <1>1, <1>4, <2>2 DEF piece
  <2>4. \A s \in 0..27 : (\A m \in 1..n : outfit[m].slot # s) => before[s] = NoItem
    BY <1>7
  <2>5. Worn(outfit, n, made)
    BY <1>1, <2>3, <2>4 DEF Worn, before, k, l
  <2> QED
    BY <2>1, <2>5 DEF then, piece
<1>9. CASE piece.id > 0 /\ IsItem(piece.id)
  <2> DEFINE item == NewItem(piece.id, piece.grade)
  <2>1. then.items = Append(made.items, item) /\ after = [before EXCEPT ![slot] = l + 1]
    BY <1>9 DEF CreateDefaultItemSlot, then, after, before, slot, l
  <2>2. Writable(item) /\ item.id = piece.id
    BY NewItemIsWritable
  <2> HIDE DEF item
  <2>3. /\ Grown(items, Append(made.items, item))
        /\ Len(Append(made.items, item)) = l + 1
        /\ Append(made.items, item)[l + 1] = item
        /\ \A e \in 1..l : Append(made.items, item)[e] = made.items[e]
    <3> DEFINE list == made.items
    <3>1. Grown(items, list)
      BY <1>1
    <3>2. Writable(item)
      BY <2>2
    <3> HIDE DEF list
    <3>3. /\ Grown(items, Append(list, item))
          /\ Len(Append(list, item)) = Len(list) + 1
          /\ Append(list, item)[Len(list) + 1] = item
          /\ \A e \in 1..Len(list) : Append(list, item)[e] = list[e]
      BY <3>1, <3>2, AppendGrows
    <3> QED
      BY <3>3, Zenon DEF list, l
  <2>4. /\ Grown(items, then.items)
        /\ Len(then.items) = l + 1
        /\ then.items[l + 1] = item
        /\ \A e \in 1..l : then.items[e] = made.items[e]
    BY <2>1, <2>3
  <2> DEFINE put == [before EXCEPT ![slot] = l + 1]
  <2>5. /\ DOMAIN put = DOMAIN before
        /\ Apart(k, l + 1, put)
        /\ \A e \in k + 1 .. l : InSlot(e, before) => InSlot(e, put)
        /\ InSlot(l + 1, put)
    BY <1>1, <1>2, <1>5, <1>6, PutApart
  <2>6. put[slot] = l + 1 /\ \A s \in 0..27 : s # slot => put[s] = before[s]
    BY <1>1, <1>5
  <2>7. after = put
    BY <2>1
  <2> HIDE DEF put
  <2>8. Stored(k, l + 1, put)
    <3>1. \A e \in k + 1 .. l + 1 : e = l + 1 \/ e \in k + 1 .. l
      BY <1>2
    <3> QED
      BY <1>1, <2>5, <3>1 DEF Stored
  <2>9. \A s \in 0..27 : (\A m \in 1..n : outfit[m].slot # s) => put[s] = NoItem
    BY <1>7, <2>6
  <2>10. Fitted(then, piece)
    <3>1. l + 1 # NoItem
      BY <1>2 DEF NoItem
    <3>2. then.equipped[piece.slot] = l + 1
      BY <2>6, <2>7 DEF after, slot
    <3> QED
      BY <1>9, <2>2, <2>4, <3>1, <3>2 DEF Fitted
  <2>11. ASSUME NEW m \in 1..n - 1
         PROVE  Fitted(then, outfit[m])
    <3> DEFINE other == outfit[m].slot
    <3>1. other \in 0..27 /\ other # slot
      BY <1>5
    <3>2. then.equipped[other] = made.equipped[other]
      BY <2>6, <2>7, <3>1 DEF after, before
    <3>3. Fitted(made, outfit[m])
      BY <1>1
    <3>4. before[other] = NoItem \/ before[other] \in k + 1 .. l
      BY <1>1, <3>1 DEF Apart
    <3>5. before[other] = NoItem \/ before[other] \in 1..l
      BY <1>2, <3>4
    <3>6. made.equipped[other] = NoItem
            \/ then.items[made.equipped[other]] = made.items[made.equipped[other]]
      BY <2>4, <3>5 DEF before
    <3> QED
      BY <3>2, <3>3, <3>6 DEF Fitted
  <2>12. \A m \in 1..n : Fitted(then, outfit[m])
    BY <1>4, <2>10, <2>11 DEF piece
  <2>13. Worn(outfit, n, then)
    BY <1>1, <2>4, <2>5, <2>7, <2>8, <2>9, <2>12 DEF Worn, after, k
  <2> QED
    BY <2>13 DEF then, piece
<1> QED
  BY <1>8, <1>9

LEMMA DressedUp ==
    ASSUME IsSequence(items), NEW pack, NEW body
    PROVE  Worn(Outfit(pack, body), 23, Dressed(pack, body))
<1> DEFINE outfit == Outfit(pack, body)
           made(n) == Dressing(outfit)[n]
           S == {n \in Nat : n <= 23 => Worn(outfit, n, made(n))}
<1>1. /\ Len(outfit) = 23
      /\ \A n \in 1..23 : outfit[n].slot \in 0..27
      /\ \A m, n \in 1..23 : outfit[m].slot = outfit[n].slot => m = n
  BY OutfitOf, OutfitSlots
<1> HIDE DEF outfit
<1>2. /\ made(0) = [items |-> items, equipped |-> Bare]
      /\ \A n \in 1..23 : made(n) = CreateDefaultItemSlot(made(n - 1), outfit[n])
  <2>1. Len(outfit) \in Nat
    BY <1>1
  <2>2. /\ Dressing(outfit)[0] = [items |-> items, equipped |-> Bare]
        /\ \A n \in 1..Len(outfit) :
              Dressing(outfit)[n] = CreateDefaultItemSlot(Dressing(outfit)[n - 1], outfit[n])
    BY <2>1, DressingUnrolls
  <2> QED
    BY <1>1, <2>2
<1> HIDE DEF made
<1>3. Worn(outfit, 0, made(0))
  <2>1. made(0).items = items /\ made(0).equipped = Bare /\ Len(items) \in Nat
    BY <1>2, SequenceDomain
  <2>2. Grown(items, items)
    BY <2>1 DEF Grown
  <2>3. DOMAIN Bare = 0..27 /\ \A s \in 0..27 : Bare[s] = NoItem
    BY DEF Bare
  <2>4. Apart(Len(items), Len(items), Bare) /\ Stored(Len(items), Len(items), Bare)
    BY <2>1, <2>3 DEF Apart, Stored
  <2> QED
    BY <2>1, <2>2, <2>3, <2>4 DEF Worn
<1>4. ASSUME NEW n \in Nat, n \in S
      PROVE  n + 1 \in S
  <2>1. SUFFICES ASSUME n + 1 <= 23 PROVE Worn(outfit, n + 1, made(n + 1))
    OBVIOUS
  <2>2. n + 1 \in 1..23 /\ (n + 1) - 1 = n /\ n <= 23
    BY <2>1
  <2>3. Worn(outfit, (n + 1) - 1, made(n))
    BY <1>4, <2>2
  <2>4. made(n + 1) = CreateDefaultItemSlot(made(n), outfit[n + 1])
    BY <1>2, <2>2
  <2> QED
    BY <1>1, <2>2, <2>3, <2>4, FitPiece
<1>5. 23 \in S
  <2>1. 0 \in S
    BY <1>3
  <2> QED
    BY <1>4, <2>1, SetInduction
<1> QED
  BY <1>5 DEF Dressed, made, outfit
-----------------------------------------------------------------------------
(* What it carries. *)

\* What was made after the first items is in the bag, unless that is full.
Carried(first, size, made) ==
    /\ Grown(first, made.items)
    /\ DOMAIN made.bag = 0..size - 1
    /\ Apart(Len(first), Len(made.items), made.bag)
    /\ FreeSlots(made.bag) = {} \/ Stored(Len(first), Len(made.items), made.bag)

LEMMA CarryItem ==
    ASSUME NEW first, IsSequence(first), NEW size \in Nat, NEW made, NEW supply,
           Carried(first, size, made)
    PROVE  Carried(first, size, AquireDefaultItem(made, supply))
<1> DEFINE then == AquireDefaultItem(made, supply)
           k == Len(first)
           list == made.items
           l == Len(list)
           before == made.bag
<1>1. /\ Grown(first, list)
      /\ DOMAIN before = 0..size - 1
      /\ Apart(k, l, before)
      /\ FreeSlots(before) = {} \/ Stored(k, l, before)
  BY DEF Carried
<1>2. k \in Nat /\ l \in Nat /\ k <= l
  BY <1>1, SequenceDomain DEF Grown
<1> HIDE DEF then, k, l, list, before
<1>3. CASE ~(supply.amount > 0 /\ IsItem(supply.item))
  <2>1. then = made
    BY <1>3 DEF AquireDefaultItem, then
  <2> QED
    BY <2>1 DEF then
<1>4. CASE supply.amount > 0 /\ IsItem(supply.item)
  <2> DEFINE item == NewItem(supply.item, supply.grade)
             longer == Append(list, item)
  <2>1. /\ then.items = longer
        /\ then.bag = IF FreeSlots(before) = {} THEN before
                      ELSE [before EXCEPT ![Min(FreeSlots(before))] = l + 1]
    BY <1>4 DEF AquireDefaultItem, then, before, l, list
  <2>2. Grown(first, longer) /\ Len(longer) = l + 1
    <3>1. Grown(first, list)
      BY <1>1
    <3>2. Writable(item)
      BY NewItemIsWritable
    <3> HIDE DEF item
    <3>3. Grown(first, longer) /\ Len(longer) = Len(list) + 1
      BY <3>1, <3>2, AppendGrows
    <3> QED
      BY <3>3, Zenon DEF l
  <2> HIDE DEF item, longer
  <2>3. CASE FreeSlots(before) = {}
    <3>1. then.bag = before
      BY <2>1, <2>3
    <3>2. Apart(k, l + 1, before)
      BY <1>1, <1>2, LongerApart
    <3> QED
      BY <1>1, <2>1, <2>2, <2>3, <3>1, <3>2 DEF Carried, k, then
  <2>4. CASE FreeSlots(before) # {}
    <3> DEFINE s == Min(FreeSlots(before))
               put == [before EXCEPT ![s] = l + 1]
    <3>1. s \in DOMAIN before /\ before[s] = NoItem
      <4>1. FreeSlots(before) \subseteq Nat
        BY <1>1 DEF FreeSlots
      <4>2. s \in FreeSlots(before)
        BY <2>4, <4>1, MinOf
      <4> QED
        BY <4>2 DEF FreeSlots
    <3>2. then.bag = put
      BY <2>1, <2>4
    <3> HIDE DEF s
    <3>3. /\ DOMAIN put = DOMAIN before
          /\ Apart(k, l + 1, put)
          /\ \A e \in k + 1 .. l : InSlot(e, before) => InSlot(e, put)
          /\ InSlot(l + 1, put)
      BY <1>1, <1>2, <3>1, PutApart
    <3> HIDE DEF put
    <3>4. Stored(k, l + 1, put)
      <4>1. \A e \in k + 1 .. l + 1 : e = l + 1 \/ e \in k + 1 .. l
        BY <1>2
      <4> QED
        BY <1>1, <2>4, <3>3, <4>1 DEF Stored
    <3> QED
      BY <1>1, <2>1, <2>2, <3>2, <3>3, <3>4 DEF Carried, k, then
  <2> QED
    BY <2>3, <2>4
<1> QED
  BY <1>3, <1>4 DEF then

LEMMA StockedUp ==
    ASSUME NEW first, IsSequence(first), NEW size \in Nat, NEW ability,
           Len(Supplies(ability)) \in Nat
    PROVE  Carried(first, size, Stocked(first, size, ability))
<1> DEFINE supplies == Supplies(ability)
           made(n) == Stocking(first, size, supplies)[n]
           S == {n \in Nat : n <= Len(supplies) => Carried(first, size, made(n))}
<1> HIDE DEF supplies
<1>1. Len(supplies) \in Nat
  BY DEF supplies
<1>2. /\ made(0) = [items |-> first, bag |-> BareBag(size)]
      /\ \A n \in 1..Len(supplies) : made(n) = AquireDefaultItem(made(n - 1), supplies[n])
  <2>1. /\ Stocking(first, size, supplies)[0]
             = [items |-> first, bag |-> BareBag(size)]
        /\ \A n \in 1..Len(supplies) :
              Stocking(first, size, supplies)[n]
                 = AquireDefaultItem(Stocking(first, size, supplies)[n - 1], supplies[n])
    BY <1>1, StockingUnrolls
  <2> QED
    BY <2>1
<1> HIDE DEF made
<1>3. Carried(first, size, made(0))
  <2> DEFINE bag == BareBag(size)
  <2>1. made(0).items = first /\ made(0).bag = bag /\ Len(first) \in Nat
    BY <1>2, SequenceDomain
  <2>2. Grown(first, first)
    BY <2>1 DEF Grown
  <2>3. DOMAIN bag = 0..size - 1 /\ \A s \in DOMAIN bag : bag[s] = NoItem
    BY DEF BareBag
  <2> HIDE DEF bag
  <2>4. Apart(Len(first), Len(first), bag) /\ Stored(Len(first), Len(first), bag)
    BY <2>1, <2>3 DEF Apart, Stored
  <2> QED
    BY <2>1, <2>2, <2>3, <2>4 DEF Carried
<1>4. ASSUME NEW n \in Nat, n \in S
      PROVE  n + 1 \in S
  <2>1. SUFFICES ASSUME n + 1 <= Len(supplies) PROVE Carried(first, size, made(n + 1))
    OBVIOUS
  <2>2. n + 1 \in 1..Len(supplies) /\ (n + 1) - 1 = n /\ n <= Len(supplies)
    BY <1>1, <2>1
  <2>3. Carried(first, size, made(n))
    BY <1>4, <2>2
  <2>4. made(n + 1) = AquireDefaultItem(made(n), supplies[n + 1])
    BY <1>2, <2>2
  <2> QED
    BY <2>3, <2>4, CarryItem
<1>5. Len(supplies) \in S
  <2>1. 0 \in S
    BY <1>3
  <2> QED
    BY <1>1, <1>4, <2>1, SetInduction
<1> QED
  BY <1>1, <1>5 DEF Stocked, made, supplies
-----------------------------------------------------------------------------
(* The order of main(): the managers first, then the handlers. *)

\* No handler runs before the managers are loaded.
InOrder ==
    /\ phase \in 0..9
    /\ db \in Databases
    /\ phase # 9 => items = <<>> /\ heroes = <<>> /\ told = Nothing

LEMMA PhaseOfManager ==
    /\ Doing("Config") => phase = 1
    /\ Doing("SqLite") => phase = 2
    /\ Doing("Localization") => phase = 3
    /\ Doing("Faction") => phase = 4
    /\ Doing("Item") => phase = 5
    /\ Doing("Skill") => phase = 6
    /\ Doing("Character") => phase = 7
    /\ Doing("Zone") => phase = 8
  BY DEF Doing, LoadOrder

LEMMA RunningIsLast == Running <=> phase = 9
  BY DEF Running, LoadOrder

\* A manager's maps are written in its own phase, and the phases only go forward.
LEMMA LoadSteps ==
    ASSUME Load
    PROVE  /\ phase \in 1..8 /\ phase' \in {0, phase + 1} /\ db' = db
           /\ items' = items /\ heroes' = heroes /\ told' = told
           /\ phase # 4 => UNCHANGED factionVars
           /\ phase # 6 => UNCHANGED skillVars
           /\ phase # 7 => UNCHANGED characterVars
           /\ phase = 4 => LoadFactionsFromDatabase
           /\ phase = 6 => LoadSkills
           /\ phase = 7 => LoadCharacters
<1>0. LoadersNext /\ UNCHANGED <<items, heroes, told>>
  BY DEF Load
<1>1. CASE ReadConfig
  <2>1. phase = 1
    BY <1>1, PhaseOfManager DEF ReadConfig
  <2> QED
    BY <1>0, <1>1, <2>1 DEF ReadConfig, Done, managerVars
<1>2. CASE StoreDatabasePath
  <2>1. phase = 2
    BY <1>2, PhaseOfManager DEF StoreDatabasePath
  <2> QED
    BY <1>0, <1>2, <2>1 DEF StoreDatabasePath, Done, managerVars
<1>3. CASE LoadTranslations
  <2>1. phase = 3
    BY <1>3, PhaseOfManager DEF LoadTranslations
  <2> QED
    BY <1>0, <1>3, <2>1 DEF LoadTranslations, Done
<1>4. CASE LoadFactionsFromDatabase
  <2>1. phase = 4
    BY <1>4, PhaseOfManager DEF LoadFactionsFromDatabase
  <2>2. Done /\ UNCHANGED <<db, skillVars, characterVars>>
    BY <1>4 DEF LoadFactionsFromDatabase
  <2> QED
    BY <1>0, <1>4, <2>1, <2>2 DEF Done
<1>5. CASE LoadItemDatabase
  <2>1. phase = 5
    BY <1>5, PhaseOfManager DEF LoadItemDatabase
  <2>2. Done /\ UNCHANGED <<db, factionVars, skillVars, characterVars>>
    BY <1>5 DEF LoadItemDatabase
  <2> QED
    BY <1>0, <2>1, <2>2 DEF Done
<1>6. CASE LoadSkills
  <2>1. phase = 6
    BY <1>6, PhaseOfManager DEF LoadSkills
  <2>2. Done /\ UNCHANGED <<db, factionVars, characterVars>>
    BY <1>6 DEF LoadSkills
  <2> QED
    BY <1>0, <1>6, <2>1, <2>2 DEF Done
<1>7. CASE LoadCharacters
  <2>1. phase = 7
    BY <1>7, PhaseOfManager DEF LoadCharacters
  <2>2. Done /\ UNCHANGED <<db, factionVars, skillVars>>
    BY <1>7 DEF LoadCharacters
  <2> QED
    BY <1>0, <1>7, <2>1, <2>2 DEF Done
<1>8. CASE LoadZones
  <2>1. phase = 8
    BY <1>8, PhaseOfManager DEF LoadZones
  <2>2. Done /\ UNCHANGED <<db, factionVars, skillVars, characterVars>>
    BY <1>8 DEF LoadZones
  <2> QED
    BY <1>0, <2>1, <2>2 DEF Done
<1> QED
  BY <1>0, <1>1, <1>2, <1>3, <1>4, <1>5, <1>6, <1>7, <1>8 DEF LoadersNext

\* What the handlers leave to the managers.
LEMMA HandlersKeep ==
    ASSUME CreateCharacter \/ SelectCharacter
    PROVE  /\ phase = 9 /\ phase' = 9 /\ db' = db
           /\ UNCHANGED factionVars /\ UNCHANGED skillVars
           /\ m_ItemTemplates' = m_ItemTemplates
  BY RunningIsLast DEF CreateCharacter, SelectCharacter, loaderVars, managerVars, itemVars

LEMMA InOrderAlways == Spec => []InOrder
<1>1. Init => InOrder
  BY DEF Init, LoadersInit, InOrder
<1>2. InOrder /\ [Next]_newCharacterVars => InOrder'
  <2> SUFFICES ASSUME InOrder, [Next]_newCharacterVars PROVE InOrder'
    OBVIOUS
  <2>1. CASE Load
    BY <2>1, LoadSteps DEF InOrder
  <2>2. CASE CreateCharacter \/ SelectCharacter
    BY <2>2, HandlersKeep DEF InOrder
  <2>3. CASE UNCHANGED newCharacterVars
    BY <2>3 DEF InOrder, newCharacterVars, loaderVars
  <2> QED
    BY <2>1, <2>2, <2>3 DEF Next
<1> QED
  BY <1>1, <1>2, PTL DEF Spec
-----------------------------------------------------------------------------
(* What the managers loaded: the factions. *)

LEMMA FiniteImage ==
    ASSUME NEW S, IsFiniteSet(S), NEW f, DOMAIN f = S, f = [x \in S |-> f[x]]
    PROVE  /\ IsFiniteSet({f[x] : x \in S})
           /\ Cardinality({f[x] : x \in S}) <= Cardinality(S)
<1> DEFINE T == {f[x] : x \in S}
<1>1. f \in [S -> T] /\ \A t \in T : \E x \in S : f[x] = t
  OBVIOUS
<1>2. f \in Surjection(S, T)
  BY <1>1 DEF Surjection
<1> QED
  BY <1>2, FS_Surjection

LEMMA FiniteSequence ==
    ASSUME NEW s, IsSequence(s)
    PROVE  IsFiniteSet(DOMAIN s) /\ IsFiniteSet(Range(s))
<1>1. Len(s) \in Nat /\ DOMAIN s = 1..Len(s) /\ s = [i \in DOMAIN s |-> s[i]]
  BY DEF IsSequence
<1>2. IsFiniteSet(DOMAIN s)
  BY <1>1, FS_Interval
<1>3. IsFiniteSet({s[i] : i \in DOMAIN s})
  BY <1>1, <1>2, FiniteImage
<1> QED
  BY <1>2, <1>3 DEF Range

LEMMA FiniteIds ==
    ASSUME NEW rows, IsSequence(rows)
    PROVE  IsFiniteSet(Column(rows, Id))
<1> DEFINE f == [i \in DOMAIN rows |-> rows[i].id]
<1>1. IsFiniteSet({f[i] : i \in DOMAIN rows})
  <2>1. DOMAIN f = DOMAIN rows /\ f = [i \in DOMAIN rows |-> f[i]]
    OBVIOUS
  <2>2. IsFiniteSet(DOMAIN rows)
    BY FiniteSequence
  <2> HIDE DEF f
  <2> QED
    BY <2>1, <2>2, FiniteImage
<1>2. {f[i] : i \in DOMAIN rows} = Column(rows, Id)
  BY DEF Column, Id
<1> QED
  BY <1>1, <1>2

\* Finitely many factions; once there are relations, every faction of the table is
\* there under its own id, whatever operator[] added.
FactionsLoaded ==
    /\ IsFiniteSet(DOMAIN s_SystemFactions)
    /\ DOMAIN s_SystemFactions \subseteq Nat
    /\ IsSequence(s_Relations)
    /\ s_Relations # <<>> =>
          \A f \in Column(db.factions, Id) :
             f \in DOMAIN s_SystemFactions /\ s_SystemFactions[f].id = f

LEMMA FactionsLoadedByManager ==
    ASSUME LoadFactionsFromDatabase, db \in Databases
    PROVE  FactionsLoaded'
<1> DEFINE own == [f \in Column(db.factions, Id) |->
                      SystemFaction(FirstWith(db.factions, Id, f))]
           firsts == [r \in Range(db.relations) |-> r.id]
           seconds == [r \in Range(db.relations) |-> r.id2]
           named == {firsts[r] : r \in Range(db.relations)}
                    \cup {seconds[r] : r \in Range(db.relations)}
<1>0. /\ IsSequence(db.factions) /\ IsSequence(db.relations)
      /\ \A i \in DOMAIN db.factions : db.factions[i].id \in Nat
      /\ \A i \in DOMAIN db.relations :
            db.relations[i].id \in Nat /\ db.relations[i].id2 \in Nat
  BY DatabasesHaveTables DEF IsSequence
<1>1. /\ s_SystemFactions' = Indexed(own, named, NamelessFaction)
      /\ s_Relations' = db.relations
  BY DEF LoadFactionsFromDatabase
<1>2. /\ DOMAIN own = Column(db.factions, Id)
      /\ \A f \in DOMAIN own : own[f].id = f
  <2> SUFFICES ASSUME NEW f \in Column(db.factions, Id)
               PROVE  SystemFaction(FirstWith(db.factions, Id, f)).id = f
    OBVIOUS
  <2> DEFINE with == {i \in DOMAIN db.factions : Id(db.factions[i]) = f}
  <2>1. with # {} /\ with \subseteq Nat
    BY <1>0, SequenceDomain DEF Column
  <2>2. Min(with) \in with
    BY <2>1, MinOf
  <2>3. FirstWith(db.factions, Id, f).id = f
    BY <2>2 DEF FirstWith, Id
  <2> QED
    BY <2>3 DEF SystemFaction
<1>3. IsFiniteSet(DOMAIN own) /\ DOMAIN own \subseteq Nat
  <2>1. Column(db.factions, Id) \subseteq Nat
    BY <1>0 DEF Column, Id
  <2> QED
    BY <1>0, <1>2, <2>1, FiniteIds
<1>4. IsFiniteSet(named) /\ named \subseteq Nat
  <2>1. IsFiniteSet(Range(db.relations))
    BY <1>0, FiniteSequence
  <2>2. /\ DOMAIN firsts = Range(db.relations) /\ DOMAIN seconds = Range(db.relations)
        /\ firsts = [r \in Range(db.relations) |-> firsts[r]]
        /\ seconds = [r \in Range(db.relations) |-> seconds[r]]
        /\ \A r \in Range(db.relations) : firsts[r] \in Nat /\ seconds[r] \in Nat
    BY <1>0 DEF Range
  <2> HIDE DEF firsts, seconds
  <2>3. /\ IsFiniteSet({firsts[r] : r \in Range(db.relations)})
        /\ IsFiniteSet({seconds[r] : r \in Range(db.relations)})
    BY <2>1, <2>2, FiniteImage
  <2> QED
    BY <2>2, <2>3, FS_Union
<1> HIDE DEF own, named
<1>6. /\ DOMAIN s_SystemFactions' = DOMAIN own \cup named
      /\ \A f \in DOMAIN own : (s_SystemFactions')[f].id = f
  <2>1. /\ DOMAIN Indexed(own, named, NamelessFaction) = DOMAIN own \cup named
        /\ \A k \in DOMAIN own : Indexed(own, named, NamelessFaction)[k] = own[k]
        /\ \A k \in named : k \notin DOMAIN own =>
              Indexed(own, named, NamelessFaction)[k] = NamelessFaction
    BY IndexedValues
  <2> QED
    BY <1>1, <1>2, <2>1
<1>7. IsFiniteSet(DOMAIN own \cup named)
  BY <1>3, <1>4, FS_Union
<1>8. db' = db
  BY DEF LoadFactionsFromDatabase
<1> QED
  BY <1>0, <1>1, <1>2, <1>3, <1>4, <1>6, <1>7, <1>8 DEF FactionsLoaded

LEMMA FactionsAlwaysLoaded == Spec => []FactionsLoaded
<1>1. Init => FactionsLoaded
  <2>1. DOMAIN Empty = {} /\ IsSequence(<<>>)
    BY DEF Empty, IsSequence
  <2> QED
    BY <2>1, FS_EmptySet DEF Init, LoadersInit, FactionsLoaded
<1>2. InOrder /\ FactionsLoaded /\ [Next]_newCharacterVars => FactionsLoaded'
  <2> SUFFICES ASSUME InOrder, FactionsLoaded, [Next]_newCharacterVars PROVE FactionsLoaded'
    OBVIOUS
  <2>1. CASE UNCHANGED <<db, factionVars>>
    BY <2>1 DEF FactionsLoaded, factionVars
  <2>2. CASE LoadFactionsFromDatabase
    BY <2>2, FactionsLoadedByManager DEF InOrder
  <2>3. UNCHANGED <<db, factionVars>> \/ LoadFactionsFromDatabase
    <3>1. CASE Load
      BY <3>1, LoadSteps
    <3>2. CASE CreateCharacter \/ SelectCharacter
      BY <3>2, HandlersKeep
    <3>3. CASE UNCHANGED newCharacterVars
      BY <3>3 DEF newCharacterVars, loaderVars, managerVars
    <3> QED
      BY <3>1, <3>2, <3>3 DEF Next
  <2> QED
    BY <2>1, <2>2, <2>3
<1> QED
  BY <1>1, <1>2, InOrderAlways, PTL DEF Spec
-----------------------------------------------------------------------------
(* The start skills. *)

SkillsLoaded == \A a \in DOMAIN m_StartAbilitySkills :
                   /\ Len(m_StartAbilitySkills[a]) \in Nat
                   /\ DOMAIN m_StartAbilitySkills[a] = 1..Len(m_StartAbilitySkills[a])

LEMMA SkillsLoadedByManager ==
    ASSUME LoadSkills, db \in Databases
    PROVE  SkillsLoaded'
<1> DEFINE templates == Indexed(Inserted(db.skills), Column(db.defaultSkills, Id), NoSkill)
<1>1. m_StartAbilitySkills' \in StartAbilitySkills(templates)
  BY DEF LoadSkills
<1>2. IsFiniteSet(DOMAIN templates)
  <2>1. IsSequence(db.skills) /\ IsSequence(db.defaultSkills)
    <3>1. db.skills \in Seq(Range(db.skills))
          /\ db.defaultSkills \in Seq([id : Nat, slot : Nat, add : BOOLEAN])
      BY DatabasesHaveTables
    <3> QED
      BY <3>1, SubrangeSequence
  <2>2. IsFiniteSet(Column(db.skills, Id)) /\ IsFiniteSet(Column(db.defaultSkills, Id))
    BY <2>1, FiniteIds
  <2>3. DOMAIN Inserted(db.skills) = Column(db.skills, Id)
    BY DEF Inserted, InsertedBy
  <2>4. DOMAIN templates = DOMAIN Inserted(db.skills) \cup Column(db.defaultSkills, Id)
    BY IndexedValues
  <2> QED
    BY <2>2, <2>3, <2>4, FS_Union
<1> HIDE DEF templates
<1>3. ASSUME NEW a \in DOMAIN m_StartAbilitySkills'
      PROVE  /\ Len((m_StartAbilitySkills')[a]) \in Nat
             /\ DOMAIN (m_StartAbilitySkills')[a] = 1..Len((m_StartAbilitySkills')[a])
  <2>1. (m_StartAbilitySkills')[a] \in SetToSeqs(StartSkillsOf(templates, a))
    BY <1>1, <1>3 DEF StartAbilitySkills
  <2>2. StartSkillsOf(templates, a) \subseteq DOMAIN templates
    BY DEF StartSkillsOf, StartSkillIds
  <2>3. Cardinality(StartSkillsOf(templates, a)) \in Nat
    BY <1>2, <2>2, FS_Subset, FS_CardinalityType
  <2> QED
    BY <2>1, <2>3 DEF SetToSeqs
<1> QED
  BY <1>3 DEF SkillsLoaded

LEMMA SkillsAlwaysLoaded == Spec => []SkillsLoaded
<1>1. Init => SkillsLoaded
  BY DEF Init, LoadersInit, SkillsLoaded, Empty
<1>2. InOrder /\ SkillsLoaded /\ [Next]_newCharacterVars => SkillsLoaded'
  <2> SUFFICES ASSUME InOrder, SkillsLoaded, [Next]_newCharacterVars PROVE SkillsLoaded'
    OBVIOUS
  <2>1. CASE UNCHANGED skillVars
    BY <2>1 DEF SkillsLoaded, skillVars
  <2>2. CASE LoadSkills
    BY <2>2, SkillsLoadedByManager DEF InOrder
  <2>3. UNCHANGED skillVars \/ LoadSkills
    <3>1. CASE Load
      BY <3>1, LoadSteps
    <3>2. CASE CreateCharacter \/ SelectCharacter
      BY <3>2, HandlersKeep
    <3>3. CASE UNCHANGED newCharacterVars
      BY <3>3 DEF newCharacterVars, loaderVars, managerVars
    <3> QED
      BY <3>1, <3>2, <3>3 DEF Next
  <2> QED
    BY <2>1, <2>2, <2>3
<1> QED
  BY <1>1, <1>2, InOrderAlways, PTL DEF Spec

-----------------------------------------------------------------------------
(* The gear of the abilities. *)

\* Creating a character only adds what operator[] adds for a key without a value.
LEMMA GearKept ==
    ASSUME NEW a, UNCHANGED m_AbilityItems \/ CreateCharacter
    PROVE  GearOf(a)' = GearOf(a)
<1>1. CASE UNCHANGED m_AbilityItems
  BY <1>1 DEF GearOf
<1>2. CASE CreateCharacter
  <2>1. PICK asked \in Requests :
           m_AbilityItems' = Indexed(m_AbilityItems, {asked.ability}, NoGear)
    BY <1>2 DEF CreateCharacter, Create
  <2> DEFINE more == Indexed(m_AbilityItems, {asked.ability}, NoGear)
  <2>2. /\ DOMAIN more = DOMAIN m_AbilityItems \cup {asked.ability}
        /\ \A k \in DOMAIN m_AbilityItems : more[k] = m_AbilityItems[k]
        /\ \A k \in {asked.ability} : k \notin DOMAIN m_AbilityItems => more[k] = NoGear
    BY IndexedValues
  <2>3. m_AbilityItems' = more
    BY <2>1
  <2> HIDE DEF more
  <2> QED
    BY <2>2, <2>3 DEF GearOf
<1> QED
  BY <1>1, <1>2

\* At most one row of supplies is kept for an ability, and the packs of those that
\* have none are the tables'.
GearFits(a) ==
    /\ IsSequence(GearOf(a).supplies)
    /\ Len(GearOf(a).supplies) \in {0, 1}
    /\ a \notin Column(db.supplies, AbilityKey) =>
          GearOf(a) = IF a \in Column(db.packs, AbilityKey) THEN PackGear[a] ELSE NoGear
GearLoaded == phase \in 8..9 => \A a : GearFits(a)

LEMMA GearLoadedByManager ==
    ASSUME LoadCharacters
    PROVE  \A a : GearFits(a)'
<1>1. PICK junk \in JunkPacks : m_AbilityItems' = Over(SupplyGear(junk), PackGear)
  BY DEF LoadCharacters
<1>2. db' = db
  BY DEF LoadCharacters
<1> DEFINE supplied == SupplyGear(junk)
           gear == Over(supplied, PackGear)
<1>3. /\ DOMAIN gear = DOMAIN supplied \cup DOMAIN PackGear
      /\ \A k \in DOMAIN supplied : gear[k] = supplied[k]
      /\ \A k \in DOMAIN PackGear : k \notin DOMAIN supplied => gear[k] = PackGear[k]
  BY OverValues
<1>4. DOMAIN supplied = Column(db.supplies, AbilityKey)
  BY DEF SupplyGear
<1>5. DOMAIN PackGear = Column(db.packs, AbilityKey)
  BY DEF PackGear
<1>6. \A row : IsSequence(<<row>>) /\ Len(<<row>>) = 1
  BY DEF IsSequence, Range
<1>7. IsSequence(<<>>) /\ Len(<<>>) = 0
  BY DEF IsSequence
<1>8. \A k \in DOMAIN supplied : /\ IsSequence(supplied[k].supplies)
                                 /\ Len(supplied[k].supplies) = 1
  BY <1>6 DEF SupplyGear
<1>9. \A k \in DOMAIN PackGear : PackGear[k].supplies = <<>>
  BY DEF PackGear, NoGear
<1>10. NoGear.supplies = <<>>
  BY DEF NoGear
<1>11. m_AbilityItems' = gear
  BY <1>1
<1> HIDE DEF gear, supplied
<1>12. PackGear' = PackGear
  BY <1>2 DEF PackGear, EquipPack
<1> SUFFICES ASSUME NEW a PROVE GearFits(a)'
  OBVIOUS
<1> DEFINE own == IF a \in DOMAIN gear THEN gear[a] ELSE NoGear
<1>13. GearOf(a)' = own
  BY <1>11 DEF GearOf
<1>14. IsSequence(own.supplies) /\ Len(own.supplies) \in {0, 1}
  BY <1>3, <1>7, <1>8, <1>9, <1>10
<1>15. a \notin Column(db.supplies, AbilityKey) =>
          own = IF a \in Column(db.packs, AbilityKey) THEN PackGear[a] ELSE NoGear
  BY <1>3, <1>4, <1>5
<1> HIDE DEF own
<1> QED
  BY <1>2, <1>12, <1>13, <1>14, <1>15 DEF GearFits

LEMMA GearAlwaysLoaded == Spec => []GearLoaded
<1>1. Init => GearLoaded
  BY DEF Init, LoadersInit, GearLoaded
<1>2. InOrder /\ GearLoaded /\ [Next]_newCharacterVars => GearLoaded'
  <2> SUFFICES ASSUME InOrder, GearLoaded, [Next]_newCharacterVars, phase' \in 8..9
               PROVE  \A a : GearFits(a)'
    BY DEF GearLoaded
  <2>1. CASE LoadCharacters
    BY <2>1, GearLoadedByManager
  <2>2. CASE ~LoadCharacters
    <3>1. /\ phase \in 8..9 /\ db' = db
          /\ UNCHANGED m_AbilityItems \/ CreateCharacter
      <4>1. CASE Load
        BY <2>2, <4>1, LoadSteps DEF InOrder, characterVars
      <4>2. CASE CreateCharacter \/ SelectCharacter
        BY <4>2, HandlersKeep DEF SelectCharacter, loaderVars, managerVars, characterVars
      <4>3. CASE UNCHANGED newCharacterVars
        BY <4>3 DEF newCharacterVars, loaderVars, managerVars, characterVars
      <4> QED
        BY <4>1, <4>2, <4>3 DEF Next
    <3>2. PackGear' = PackGear
      BY <3>1 DEF PackGear, EquipPack
    <3>3. \A a : GearFits(a)
      BY <3>1 DEF GearLoaded
    <3>4. \A a : GearOf(a)' = GearOf(a)
      BY <3>1, GearKept
    <3> QED
      BY <3>1, <3>2, <3>3, <3>4 DEF GearFits
  <2> QED
    BY <2>1, <2>2
<1> QED
  BY <1>1, <1>2, InOrderAlways, PTL DEF Spec
-----------------------------------------------------------------------------
(* The templates of races and genders. *)

TemplateAt(map, k) == IF k \in DOMAIN map THEN map[k] ELSE NoTemplate

WellSized(t) == /\ t.body \in [0..6 -> Nat]
                /\ t.bag \in 0..255
                /\ t.bank \in Nat

Configured(junk) == ConfigureTemplates(RaceTemplates(junk))

LEMMA ElementOf ==
    ASSUME NEW S, NEW s \in Seq(S)
    PROVE  /\ Len(s) \in Nat /\ DOMAIN s = 1..Len(s)
           /\ \A i \in DOMAIN s : s[i] \in S
  OBVIOUS

LEMMA BodyOfParts ==
    ASSUME db \in Databases, NEW model
    PROVE  BodyOf(model) \in [0..6 -> Nat]
<1> DEFINE Parts(i) == {n \in DOMAIN db.bodyParts : db.bodyParts[n].model = model
                                                     /\ db.bodyParts[n].slotTypeId = i + 23}
<1>1. /\ Len(db.bodyParts) \in Nat
      /\ DOMAIN db.bodyParts = 1..Len(db.bodyParts)
      /\ \A n \in DOMAIN db.bodyParts : db.bodyParts[n].id \in Nat
  <2> DEFINE Row == [id : Nat, model : Nat, slotTypeId : BodySlotTypes]
  <2>1. db.bodyParts \in Seq(Row)
    BY DatabasesHaveTables
  <2>2. \A row \in Row : row.id \in Nat
    OBVIOUS
  <2> HIDE DEF Row
  <2> QED
    BY <2>1, <2>2, ElementOf
<1>2. ASSUME NEW i \in 0..6
      PROVE  (IF Parts(i) = {} THEN 0 ELSE db.bodyParts[Max(Parts(i))].id) \in Nat
  <2>1. CASE Parts(i) = {}
    BY <2>1
  <2>2. CASE Parts(i) # {}
    <3>1. Parts(i) \subseteq 0..Len(db.bodyParts)
      BY <1>1
    <3>2. Max(Parts(i)) \in Parts(i)
      <4> HIDE DEF Parts
      <4> QED
        BY <1>1, <2>2, <3>1, MaxOf
    <3> QED
      BY <1>1, <2>2, <3>2
  <2> QED
    BY <2>1, <2>2
<1>3. BodyOf(model) = [i \in 0..6 |-> IF Parts(i) = {} THEN 0
                                      ELSE db.bodyParts[Max(Parts(i))].id]
  BY DEF BodyOf
<1> HIDE DEF Parts
<1> QED
  BY <1>2, <1>3

LEMMA NoTemplateSized == WellSized(NoTemplate)
  BY DEF WellSized, NoTemplate

LEMMA RaceTemplateSized ==
    ASSUME db \in Databases, NEW junk \in JunkBytes, NEW k \in DOMAIN RaceTemplates(junk)
    PROVE  WellSized(RaceTemplates(junk)[k])
<1> DEFINE row == FirstWith(db.characters, TemplateKey, k)
<1>1. RaceTemplates(junk)[k] = [model |-> row.model, body |-> BodyOf(row.model),
                                bag |-> junk, bank |-> junk]
  BY DEF RaceTemplates
<1>2. junk \in 0..255
  BY DatabasesHaveTables
<1> HIDE DEF row
<1>3. BodyOf(row.model) \in [0..6 -> Nat]
  BY BodyOfParts
<1> QED
  BY <1>1, <1>2, <1>3 DEF WellSized

\* The template of a key that the json names.
LEMMA ConfiguredByJson ==
    ASSUME db \in Databases, NEW junk \in JunkBytes, NEW k,
           NEW i \in DOMAIN db.config, k \in ConfigKeys(db.config[i])
    PROVE  \E j \in DOMAIN db.config :
              /\ k \in ConfigKeys(db.config[j])
              /\ k \in DOMAIN Configured(junk)
              /\ Configured(junk)[k] =
                    [TemplateAt(RaceTemplates(junk), k) EXCEPT
                        !.bag = Byte(db.config[j].bag), !.bank = db.config[j].bank]
<1> DEFINE templates == RaceTemplates(junk)
           Naming == {j \in DOMAIN db.config : k \in ConfigKeys(db.config[j])}
           keys == UNION {ConfigKeys(c) : c \in Range(db.config)}
           last == Max(Naming)
<1>1. Len(db.config) \in Nat /\ DOMAIN db.config = 1..Len(db.config)
  <2>1. db.config \in Seq([id : Nat, bag : Nat, bank : Nat])
    BY DatabasesHaveTables
  <2> QED
    BY <2>1
<1>2. last \in Naming
  <2>1. Naming \subseteq 0..Len(db.config) /\ Naming # {}
    BY <1>1
  <2> HIDE DEF Naming
  <2> QED
    BY <1>1, <2>1, MaxOf
<1>3. k \in keys
  BY DEF Range
<1>4. /\ k \in DOMAIN Configured(junk)
      /\ Configured(junk)[k] =
            [Indexed(templates, {k}, NoTemplate)[k] EXCEPT
                !.bag = Byte(db.config[last].bag), !.bank = db.config[last].bank]
  BY <1>3 DEF Configured, ConfigureTemplates
<1> HIDE DEF templates
<1>5. Indexed(templates, {k}, NoTemplate)[k] = TemplateAt(templates, k)
  <2> DEFINE more == Indexed(templates, {k}, NoTemplate)
  <2>1. /\ DOMAIN more = DOMAIN templates \cup {k}
        /\ \A x \in DOMAIN templates : more[x] = templates[x]
        /\ \A x \in {k} : x \notin DOMAIN templates => more[x] = NoTemplate
    BY IndexedValues
  <2> HIDE DEF more
  <2> QED
    BY <2>1 DEF TemplateAt, more
<1> HIDE DEF last
<1>6. last \in DOMAIN db.config /\ k \in ConfigKeys(db.config[last])
  BY <1>2
<1> QED
  BY <1>4, <1>5, <1>6 DEF templates

\* The template of a key that it does not name.
LEMMA ConfiguredByTable ==
    ASSUME NEW junk, NEW k,
           \A i \in DOMAIN db.config : k \notin ConfigKeys(db.config[i])
    PROVE  TemplateAt(Configured(junk), k) = TemplateAt(RaceTemplates(junk), k)
<1> DEFINE templates == RaceTemplates(junk)
           keys == UNION {ConfigKeys(c) : c \in Range(db.config)}
<1>1. k \notin keys
  BY DEF Range
<1>2. /\ DOMAIN Configured(junk) = DOMAIN templates \cup keys
      /\ k \in DOMAIN templates => Configured(junk)[k] = templates[k]
  BY <1>1 DEF Configured, ConfigureTemplates
<1> HIDE DEF templates, keys
<1> QED
  BY <1>1, <1>2 DEF TemplateAt, templates

LEMMA ConfiguredSized ==
    ASSUME db \in Databases, NEW junk \in JunkBytes, NEW k
    PROVE  WellSized(TemplateAt(Configured(junk), k))
<1>1. WellSized(TemplateAt(RaceTemplates(junk), k))
  BY RaceTemplateSized, NoTemplateSized DEF TemplateAt
<1>2. CASE \A i \in DOMAIN db.config : k \notin ConfigKeys(db.config[i])
  BY <1>1, <1>2, ConfiguredByTable
<1>3. CASE \E i \in DOMAIN db.config : k \in ConfigKeys(db.config[i])
  <2>1. PICK j \in DOMAIN db.config :
           /\ k \in ConfigKeys(db.config[j])
           /\ k \in DOMAIN Configured(junk)
           /\ Configured(junk)[k] =
                 [TemplateAt(RaceTemplates(junk), k) EXCEPT
                     !.bag = Byte(db.config[j].bag), !.bank = db.config[j].bank]
    BY <1>3, ConfiguredByJson
  <2>2. Byte(db.config[j].bag) \in 0..255 /\ db.config[j].bank \in Nat
    <3> DEFINE Row == [id : Nat, bag : Nat, bank : Nat]
    <3>1. db.config \in Seq(Row)
      BY DatabasesHaveTables
    <3>2. \A row \in Row : row.bag \in Nat /\ row.bank \in Nat
      OBVIOUS
    <3> HIDE DEF Row
    <3>3. db.config[j].bag \in Nat /\ db.config[j].bank \in Nat
      BY <3>1, <3>2, ElementOf
    <3> QED
      BY <3>3 DEF Byte
  <2> DEFINE t == TemplateAt(RaceTemplates(junk), k)
  <2> HIDE DEF t
  <2>3. WellSized([t EXCEPT !.bag = Byte(db.config[j].bag), !.bank = db.config[j].bank])
    BY <1>1, <2>2 DEF WellSized, t
  <2> QED
    BY <2>1, <2>3 DEF TemplateAt, t
<1> QED
  BY <1>2, <1>3

\* Once loaded, the templates are those of some value of the uninitialised sizes.
TemplatesLoaded ==
    phase \in 8..9 =>
        \E junk \in JunkBytes : \A k : TemplateAt(m_Templates, k) = TemplateAt(Configured(junk), k)

LEMMA TemplatesKept ==
    ASSUME NEW k, UNCHANGED m_Templates \/ CreateCharacter
    PROVE  TemplateAt(m_Templates, k)' = TemplateAt(m_Templates, k)
<1>1. CASE UNCHANGED m_Templates
  BY <1>1 DEF TemplateAt
<1>2. CASE CreateCharacter
  <2>1. PICK asked \in Requests :
           m_Templates' = Indexed(m_Templates, {TemplateId(asked.race, asked.gender)}, NoTemplate)
    BY <1>2 DEF CreateCharacter, Create
  <2> DEFINE key == TemplateId(asked.race, asked.gender)
             more == Indexed(m_Templates, {key}, NoTemplate)
  <2> HIDE DEF key
  <2>2. /\ DOMAIN more = DOMAIN m_Templates \cup {key}
        /\ \A x \in DOMAIN m_Templates : more[x] = m_Templates[x]
        /\ \A x \in {key} : x \notin DOMAIN m_Templates => more[x] = NoTemplate
    BY IndexedValues
  <2>3. m_Templates' = more
    BY <2>1 DEF key
  <2> HIDE DEF more
  <2> QED
    BY <2>2, <2>3 DEF TemplateAt
<1> QED
  BY <1>1, <1>2

LEMMA TemplatesAlwaysLoaded == Spec => []TemplatesLoaded
<1>1. Init => TemplatesLoaded
  BY DEF Init, LoadersInit, TemplatesLoaded
<1>2. InOrder /\ TemplatesLoaded /\ [Next]_newCharacterVars => TemplatesLoaded'
  <2> SUFFICES ASSUME InOrder, TemplatesLoaded, [Next]_newCharacterVars, phase' \in 8..9
               PROVE  \E junk \in JunkBytes :
                         \A k : TemplateAt(m_Templates, k)' = TemplateAt(Configured(junk)', k)
    BY DEF TemplatesLoaded, TemplateAt
  <2>0. ASSUME db' = db
        PROVE  \A junk : Configured(junk)' = Configured(junk)
    BY <2>0 DEF Configured, ConfigureTemplates, RaceTemplates, BodyOf
  <2>1. CASE LoadCharacters
    <3>1. PICK junk \in JunkBytes : m_Templates' = Configured(junk)
      BY <2>1 DEF LoadCharacters, Configured
    <3>2. Configured(junk)' = Configured(junk)
      BY <2>0, <2>1 DEF LoadCharacters
    <3>3. \A k : TemplateAt(m_Templates, k)' = TemplateAt(Configured(junk)', k)
      BY <3>1, <3>2 DEF TemplateAt
    <3> QED
      BY <3>3
  <2>2. CASE ~LoadCharacters
    <3>1. /\ phase \in 8..9 /\ db' = db
          /\ UNCHANGED m_Templates \/ CreateCharacter
      <4>1. CASE Load
        BY <2>2, <4>1, LoadSteps DEF InOrder, characterVars
      <4>2. CASE CreateCharacter \/ SelectCharacter
        BY <4>2, HandlersKeep DEF SelectCharacter, loaderVars, managerVars, characterVars
      <4>3. CASE UNCHANGED newCharacterVars
        BY <4>3 DEF newCharacterVars, loaderVars, managerVars, characterVars
      <4> QED
        BY <4>1, <4>2, <4>3 DEF Next
    <3>2. PICK junk \in JunkBytes :
             \A k : TemplateAt(m_Templates, k) = TemplateAt(Configured(junk), k)
      BY <3>1 DEF TemplatesLoaded
    <3>3. \A k : TemplateAt(m_Templates, k)' = TemplateAt(m_Templates, k)
      BY <3>1, TemplatesKept
    <3>4. Configured(junk)' = Configured(junk)
      BY <2>0, <3>1
    <3> QED
      BY <3>2, <3>3, <3>4
  <2> QED
    BY <2>1, <2>2
<1> QED
  BY <1>1, <1>2, InOrderAlways, PTL DEF Spec

LEMMA TemplateSized ==
    ASSUME InOrder, TemplatesLoaded, phase = 9, NEW race, NEW gender
    PROVE  WellSized(TemplateFor(race, gender))
<1>1. PICK junk \in JunkBytes : \A k : TemplateAt(m_Templates, k) = TemplateAt(Configured(junk), k)
  BY DEF TemplatesLoaded
<1>2. TemplateFor(race, gender) = TemplateAt(m_Templates, TemplateId(race, gender))
  BY DEF TemplateFor, TemplateAt
<1> QED
  BY <1>1, <1>2, ConfiguredSized DEF InOrder
-----------------------------------------------------------------------------
(* The characters created. *)

Template(asked) == TemplateFor(asked.race, asked.gender)
Clothed(asked) == Dressed(GearOf(asked.ability).pack, ChosenBody(asked.body, Template(asked)))
Packed(asked) == Stocked(Clothed(asked).items, Template(asked).bag, asked.ability)

LEMMA CreateMakes ==
    ASSUME CreateCharacter
    PROVE  \E asked \in Requests : \E hero :
              /\ heroes' = Append(heroes, hero)
              /\ items' = Packed(asked).items
              /\ hero.asked = asked
              /\ hero.model = Template(asked).model
              /\ hero.equipped = Clothed(asked).equipped
              /\ hero.bag = Packed(asked).bag
              /\ hero.bank = Template(asked).bank
              /\ \E choice : hero.bar = ActionBar(asked.ability, choice)
<1>1. PICK asked \in Requests : Create(asked)
  BY DEF CreateCharacter
<1>2. PICK choice : heroes' = Append(heroes,
                  [asked |-> asked, model |-> Template(asked).model,
                   equipped |-> Clothed(asked).equipped, bag |-> Packed(asked).bag,
                   bank |-> Template(asked).bank, bar |-> ActionBar(asked.ability, choice),
                   skills |-> Range(StartSkills(asked.ability)),
                   actabilities |-> DOMAIN characterTables.actabilities])
  BY <1>1 DEF Create, Template, Clothed, Packed
<1>3. items' = Packed(asked).items
  BY <1>1 DEF Create, Template, Clothed, Packed
<1> QED
  BY <1>2, <1>3

LEMMA SuppliesOf ==
    ASSUME NEW ability, GearFits(ability), GearFits(0)
    PROVE  IsSequence(Supplies(ability)) /\ Len(Supplies(ability)) \in 0..2
<1> DEFINE own == GearOf(ability).supplies
           common == GearOf(0).supplies
<1>1. /\ IsSequence(own) /\ Len(own) \in {0, 1}
      /\ IsSequence(common) /\ Len(common) \in {0, 1}
  BY DEF GearFits
<1> HIDE DEF own, common
<1> DEFINE both == own \o common
<1>2. IsSequence(both) /\ Len(both) = Len(own) + Len(common)
  BY <1>1, ConcatenatedSequence
<1>3. Supplies(ability) = both
  BY DEF Supplies, own, common
<1> HIDE DEF both
<1>4. Len(both) \in 0..2
  <2>1. \A m, n \in {0, 1} : m + n \in 0..2
    OBVIOUS
  <2>2. Len(own) \in {0, 1} /\ Len(common) \in {0, 1}
    BY <1>1
  <2> QED
    BY <1>2, <2>1, <2>2
<1> QED
  BY <1>2, <1>3, <1>4

\* What Create makes of the items, for any outfit and supplies.
LEMMA CreateGives ==
    ASSUME InOrder, TemplatesLoaded, GearLoaded, phase = 9, IsSequence(items), NEW asked
    PROVE  /\ Worn(Outfit(GearOf(asked.ability).pack,
                          ChosenBody(asked.body, Template(asked))), 23, Clothed(asked))
           /\ Carried(Clothed(asked).items, Template(asked).bag, Packed(asked))
           /\ WellSized(Template(asked))
<1>1. Worn(Outfit(GearOf(asked.ability).pack, ChosenBody(asked.body, Template(asked))),
           23, Clothed(asked))
  BY DressedUp DEF Clothed
<1>2. IsSequence(Clothed(asked).items)
  BY <1>1 DEF Worn, Grown
<1>3. WellSized(Template(asked))
  BY TemplateSized DEF Template
<1>4. Template(asked).bag \in Nat
  BY <1>3 DEF WellSized
<1>5. Len(Supplies(asked.ability)) \in Nat
  <2>1. GearFits(asked.ability) /\ GearFits(0)
    BY DEF GearLoaded
  <2> QED
    BY <2>1, SuppliesOf
<1>6. Carried(Clothed(asked).items, Template(asked).bag, Packed(asked))
  BY <1>2, <1>4, <1>5, StockedUp DEF Packed
<1> QED
  BY <1>1, <1>3, <1>6

\* The slots of a character refer to items that are there.
Refers(slots, n) == \A s \in DOMAIN slots : slots[s] \in 0..n
HeroFits(hero, n) ==
    /\ \E size \in 0..255 : DOMAIN hero.bag = 0..size - 1
    /\ hero.bank \in Nat
    /\ DOMAIN hero.equipped = 0..27
    /\ Refers(hero.bag, n) /\ Refers(hero.equipped, n)
CharactersFit ==
    /\ IsSequence(items) /\ IsSequence(heroes)
    /\ \A e \in 1..Len(items) : Writable(items[e])
    /\ \A n \in 1..Len(heroes) : HeroFits(heroes[n], Len(items))

\* Slots with a range of items refer to nothing behind its end.
LEMMA ApartRefers ==
    ASSUME NEW slots, NEW k \in Nat, NEW l \in Nat, NEW n \in Nat,
           l <= n, Apart(k, l, slots)
    PROVE  Refers(slots, n)
<1>1. ASSUME NEW s \in DOMAIN slots
      PROVE  slots[s] \in 0..n
  <2>1. slots[s] = 0 \/ slots[s] \in k + 1 .. l
    BY DEF Apart, NoItem
  <2> QED
    BY <2>1
<1> QED
  BY <1>1 DEF Refers

\* The items of a creation: those that were there, then what is worn, then what is
\* carried.
LEMMA CreateAdds ==
    ASSUME InOrder, TemplatesLoaded, GearLoaded, CharactersFit, CreateCharacter
    PROVE  \E asked \in Requests : \E hero :
              /\ heroes' = Append(heroes, hero)
              /\ hero.asked = asked
              /\ hero.model = Template(asked).model
              /\ \E choice : hero.bar = ActionBar(asked.ability, choice)
              /\ DOMAIN hero.bag = 0..Template(asked).bag - 1
              /\ Grown(items, items')
              /\ HeroFits(hero, Len(items'))
              /\ \E l \in Nat :
                    /\ Len(items) <= l /\ l <= Len(items')
                    /\ Apart(Len(items), l, hero.equipped)
                    /\ Stored(Len(items), l, hero.equipped)
                    /\ Apart(l, Len(items'), hero.bag)
                    /\ FreeSlots(hero.bag) = {} \/ Stored(l, Len(items'), hero.bag)
                    /\ \E made :
                          /\ Worn(Outfit(GearOf(asked.ability).pack,
                                  ChosenBody(asked.body, Template(asked))), 23, made)
                          /\ made.equipped = hero.equipped
                          /\ Len(made.items) = l
                          /\ \A e \in 1..l : items'[e] = made.items[e]
<1>1. PICK asked, hero :
              /\ asked \in Requests
              /\ heroes' = Append(heroes, hero)
              /\ items' = Packed(asked).items
              /\ hero.asked = asked
              /\ hero.model = Template(asked).model
              /\ hero.equipped = Clothed(asked).equipped
              /\ hero.bag = Packed(asked).bag
              /\ hero.bank = Template(asked).bank
              /\ \E choice : hero.bar = ActionBar(asked.ability, choice)
  BY CreateMakes
<1> DEFINE outfit == Outfit(GearOf(asked.ability).pack, ChosenBody(asked.body, Template(asked)))
           made == Clothed(asked)
           packed == Packed(asked)
           size == Template(asked).bag
           k == Len(items)
           l == Len(made.items)
           m == Len(packed.items)
<1>2. Worn(outfit, 23, made) /\ Carried(made.items, size, packed) /\ WellSized(Template(asked))
  <2>1. phase = 9
    BY HandlersKeep
  <2> QED
    BY <2>1, CreateGives DEF CharactersFit
<1> HIDE DEF outfit, made, packed
<1>3. /\ Grown(items, made.items)
      /\ DOMAIN made.equipped = 0..27
      /\ Apart(k, l, made.equipped)
      /\ Stored(k, l, made.equipped)
  BY <1>2 DEF Worn
<1>4. /\ Grown(made.items, packed.items)
      /\ DOMAIN packed.bag = 0..size - 1
      /\ Apart(l, m, packed.bag)
      /\ FreeSlots(packed.bag) = {} \/ Stored(l, m, packed.bag)
  BY <1>2 DEF Carried
<1>5. /\ k \in Nat /\ l \in Nat /\ m \in Nat /\ k <= l /\ l <= m
      /\ IsSequence(packed.items)
      /\ \A e \in 1..k : made.items[e] = items[e]
      /\ \A e \in k + 1 .. l : Writable(made.items[e])
      /\ \A e \in 1..l : packed.items[e] = made.items[e]
      /\ \A e \in l + 1 .. m : Writable(packed.items[e])
  BY <1>3, <1>4, SequenceDomain DEF Grown, CharactersFit
<1> HIDE DEF k, l, m
<1>6. Grown(items, packed.items)
  <2>1. \A e \in 1..k : packed.items[e] = items[e]
    BY <1>5
  <2>2. ASSUME NEW e \in k + 1 .. m
        PROVE  Writable(packed.items[e])
    <3>1. CASE e \in k + 1 .. l
      <4>1. packed.items[e] = made.items[e]
        BY <1>5, <3>1
      <4> QED
        BY <1>5, <3>1, <4>1
    <3>2. CASE e \in l + 1 .. m
      BY <1>5, <3>2
    <3> QED
      BY <1>5, <3>1, <3>2
  <2> DEFINE all == packed.items
  <2>3. IsSequence(all) /\ k = Len(items) /\ m = Len(all) /\ k <= m
    BY <1>5 DEF k, m
  <2> HIDE DEF all
  <2>4. Grown(items, all)
    BY <2>1, <2>2, <2>3 DEF Grown, all
  <2> QED
    BY <2>4 DEF all
<1>7. HeroFits(hero, m)
  <2>1. size \in 0..255 /\ Template(asked).bank \in Nat
    BY <1>2 DEF WellSized
  <2>2. Refers(made.equipped, m)
    BY <1>3, <1>5, ApartRefers
  <2>3. Refers(packed.bag, m)
    BY <1>4, <1>5, ApartRefers
  <2> HIDE DEF size
  <2> QED
    BY <1>1, <1>3, <1>4, <2>1, <2>2, <2>3 DEF HeroFits, made, packed
<1>8. items' = packed.items /\ hero.bag = packed.bag /\ hero.equipped = made.equipped
  BY <1>1 DEF packed, made
<1>9. Len(items') = m
  BY <1>8 DEF m
<1>10. \E x :
          /\ Worn(outfit, 23, x)
          /\ x.equipped = hero.equipped
          /\ Len(x.items) = l
          /\ \A e \in 1..l : items'[e] = x.items[e]
  <2>1. Len(made.items) = l
    BY DEF l
  <2> QED
    BY <1>2, <1>5, <1>8, <2>1
<1> QED
  BY <1>1, <1>3, <1>4, <1>5, <1>6, <1>7, <1>8, <1>9, <1>10 DEF outfit, k
\* Whoever is not creating a character leaves characters and items alone.
LEMMA OthersLeaveCharacters ==
    ASSUME [Next]_newCharacterVars, ~CreateCharacter
    PROVE  items' = items /\ heroes' = heroes
<1>1. CASE Load
  BY <1>1, LoadSteps
<1>2. CASE SelectCharacter
  BY <1>2 DEF SelectCharacter
<1>3. CASE UNCHANGED newCharacterVars
  BY <1>3 DEF newCharacterVars
<1> QED
  BY <1>1, <1>2, <1>3 DEF Next

LEMMA RefersMore ==
    ASSUME NEW slots, NEW k \in Nat, NEW l \in Nat, k <= l, Refers(slots, k)
    PROVE  Refers(slots, l)
  BY DEF Refers

LEMMA CharactersAlwaysFit == Spec => []CharactersFit
<1>1. Init => CharactersFit
  <2>1. IsSequence(<<>>) /\ Len(<<>>) = 0
    BY DEF IsSequence
  <2> QED
    BY <2>1 DEF Init, CharactersFit
<1>2. /\ InOrder /\ TemplatesLoaded /\ GearLoaded /\ CharactersFit
      /\ [Next]_newCharacterVars
      => CharactersFit'
  <2> SUFFICES ASSUME InOrder, TemplatesLoaded, GearLoaded, CharactersFit,
                      [Next]_newCharacterVars
               PROVE  CharactersFit'
    OBVIOUS
  <2>1. CASE ~CreateCharacter
    <3>1. items' = items /\ heroes' = heroes
      BY <2>1, OthersLeaveCharacters
    <3> QED
      BY <3>1 DEF CharactersFit
  <2>2. CASE CreateCharacter
    <3>1. PICK hero : /\ heroes' = Append(heroes, hero)
                      /\ Grown(items, items')
                      /\ HeroFits(hero, Len(items'))
      BY <2>2, CreateAdds
    <3>2. IsSequence(items) /\ IsSequence(heroes) /\ Len(heroes) \in Nat
      BY SequenceDomain DEF CharactersFit
    <3> DEFINE more == Append(heroes, hero)
    <3>3. /\ IsSequence(more) /\ Len(more) = Len(heroes) + 1
          /\ \A n \in 1..Len(heroes) : more[n] = heroes[n]
          /\ more[Len(heroes) + 1] = hero
      BY <3>2, AppendedSequence
    <3> HIDE DEF more
    <3> DEFINE k == Len(items)
               l == Len(items')
    <3>4. k \in Nat /\ l \in Nat /\ k <= l /\ IsSequence(items')
      BY <3>1, <3>2, SequenceDomain DEF Grown
    <3> HIDE DEF k, l
    <3>5. ASSUME NEW e \in 1..l
          PROVE  Writable(items'[e])
      <4>1. CASE e \in 1..k
        <5>1. items'[e] = items[e]
          BY <3>1, <4>1 DEF Grown, k
        <5> QED
          BY <4>1, <5>1 DEF CharactersFit, k
      <4>2. CASE e \in k + 1 .. l
        BY <3>1, <4>2 DEF Grown, k, l
      <4> QED
        BY <3>4, <4>1, <4>2
    <3>6. ASSUME NEW n \in 1..Len(more)
          PROVE  HeroFits(more[n], l)
      <4>1. CASE n \in 1..Len(heroes)
        <5>1. HeroFits(heroes[n], k) /\ more[n] = heroes[n]
          BY <3>3, <4>1 DEF CharactersFit, k
        <5> QED
          BY <3>4, <5>1, RefersMore DEF HeroFits
      <4>2. CASE n = Len(heroes) + 1
        BY <3>1, <3>3, <4>2 DEF l
      <4> QED
        BY <3>2, <3>3, <4>1, <4>2
    <3>7. heroes' = more
      BY <3>1 DEF more
    <3> QED
      BY <3>3, <3>4, <3>5, <3>6, <3>7 DEF CharactersFit, l
  <2> QED
    BY <2>1, <2>2
<1> QED
  BY <1>1, <1>2, InOrderAlways, TemplatesAlwaysLoaded, GearAlwaysLoaded, PTL DEF Spec

\* Whatever the tables and the uninitialised templates hold: ItemSlot::Write finds
\* every component it gets, because CreateItem gave it for the same class.
THEOREM EveryItemMadeWritable == Spec => []EveryItemWritable
<1>1. CharactersFit => EveryItemWritable
  <2> SUFFICES ASSUME CharactersFit, NEW e \in DOMAIN items
               PROVE  WrittenFrom(items[e]) \subseteq items[e].components
    BY DEF EveryItemWritable
  <2>1. e \in 1..Len(items)
    BY SequenceDomain DEF CharactersFit
  <2> QED
    BY <2>1 DEF CharactersFit, Writable
<1> QED
  BY <1>1, CharactersAlwaysFit, PTL

-----------------------------------------------------------------------------
(* What the client is shown of the inventory. *)

LEMMA TensOf ==
    ASSUME NEW size \in Nat, size <= 259, Sendable(size)
    PROVE  /\ size \div 10 \in 1..25 /\ (size \div 10) * 10 = size
           /\ \A i \in 0..(size \div 10) - 1 : StartIndex(i) = i * 10
  BY DEF Sendable, StartIndex, Byte

LEMMA FragmentsShow ==
    ASSUME NEW size \in Nat, size <= 259, Sendable(size)
    PROVE  Shown(Fragments(size), size)
<1> DEFINE n == size \div 10
           starts == Fragments(size)
<1>1. /\ n \in 1..25 /\ n * 10 = size
      /\ \A i \in 0..n - 1 : StartIndex(i) = i * 10
  BY TensOf
<1>2. DOMAIN starts = 0..n - 1 /\ \A i \in 0..n - 1 : starts[i] = i * 10
  BY <1>1 DEF Fragments
<1> HIDE DEF n, starts
<1>3. Cardinality(DOMAIN starts) = n
  BY <1>1, <1>2, FS_Interval
<1>4. UNION {s .. s + 9 : s \in Range(starts)} = 0..size - 1
  <2>1. ASSUME NEW s \in Range(starts), NEW x \in s .. s + 9
        PROVE  x \in 0..size - 1
    <3>1. PICK i \in 0..n - 1 : s = i * 10
      BY <1>2 DEF Range
    <3> QED
      BY <1>1, <3>1
  <2>2. ASSUME NEW x \in 0..size - 1
        PROVE  \E s \in Range(starts) : x \in s .. s + 9
    <3> DEFINE i == x \div 10
    <3>1. i \in 0..n - 1 /\ x \in i * 10 .. i * 10 + 9
      BY <1>1
    <3>2. starts[i] = i * 10 /\ starts[i] \in Range(starts)
      BY <1>2, <3>1 DEF Range
    <3> QED
      BY <3>1, <3>2
  <2> QED
    BY <2>1, <2>2
<1> QED
  BY <1>1, <1>3, <1>4 DEF Shown, starts

LEMMA ByteNeverEndless ==
    ASSUME NEW size \in 0..255, Sendable(size)
    PROVE  ~Endless(size)
  BY TensOf DEF Endless, Fragments

\* A loop that ends has fewer than 26 packets.
LEMMA EndingFitsByte ==
    ASSUME NEW size \in Nat, ~Endless(size)
    PROVE  size <= 259
<1> SUFFICES ASSUME size >= 260 PROVE Endless(size)
  OBVIOUS
<1>1. 25 \in 0..(size \div 10) - 1
  OBVIOUS
<1>2. StartIndex(25) = 250
  BY DEF StartIndex, Byte
<1>3. 25 \in DOMAIN Fragments(size) /\ Fragments(size)[25] + 10 > 255
  BY <1>1, <1>2 DEF Fragments
<1> QED
  BY <1>3 DEF Endless

\* What the last CSCharacterSelect sent is about the last character.
ToldOfLast == told = Nothing \/ (heroes # <<>> /\ phase = 9 /\ told = Told(heroes[Len(heroes)]))
LEMMA ToldOfLastAlways == Spec => []ToldOfLast
<1>1. Init => ToldOfLast
  BY DEF Init, ToldOfLast
<1>2. InOrder /\ ToldOfLast /\ [Next]_newCharacterVars => ToldOfLast'
  <2> SUFFICES ASSUME InOrder, ToldOfLast, [Next]_newCharacterVars PROVE ToldOfLast'
    OBVIOUS
  <2>1. CASE Load
    <3>1. told' = Nothing
      BY <2>1, LoadSteps DEF InOrder
    <3> QED
      BY <3>1 DEF ToldOfLast, Nothing
  <2>2. CASE CreateCharacter
    BY <2>2 DEF CreateCharacter, ToldOfLast, Nothing
  <2>3. CASE SelectCharacter
    <3>1. /\ heroes # <<>> /\ heroes' = heroes /\ phase = 9 /\ phase' = 9
          /\ told' = Told(heroes[Len(heroes)])
      BY <2>3, HandlersKeep DEF SelectCharacter
    <3>2. s_SystemFactions' = s_SystemFactions /\ m_ZoneConflicts' = m_ZoneConflicts
      BY <2>3 DEF SelectCharacter, loaderVars, managerVars, factionVars, zoneVars
    <3>3. told' = Told(heroes[Len(heroes)])'
      BY <3>1, <3>2 DEF Told, FactionPackets, FactionsBefore
    <3> QED
      BY <3>1, <3>3 DEF ToldOfLast
  <2>4. CASE UNCHANGED newCharacterVars
    <3>1. /\ heroes' = heroes /\ phase' = phase /\ told' = told
          /\ s_SystemFactions' = s_SystemFactions /\ m_ZoneConflicts' = m_ZoneConflicts
      BY <2>4 DEF newCharacterVars, loaderVars, managerVars, factionVars, zoneVars
    <3>2. Told(heroes[Len(heroes)])' = Told(heroes[Len(heroes)])
      BY <3>1 DEF Told, FactionPackets, FactionsBefore
    <3> QED
      BY <3>1, <3>2 DEF ToldOfLast, Nothing
  <2> QED
    BY <2>1, <2>2, <2>3, <2>4 DEF Next
<1> QED
  BY <1>1, <1>2, InOrderAlways, PTL DEF Spec

\* Whatever sizes the json gives: a bag and a bank whose loops end are shown slot by
\* slot, each once, and the loop that never ends is the bank's.
THEOREM InventoryAlwaysShown == Spec => []InventoryShown
<1>1. ToldOfLast /\ CharactersFit => InventoryShown
  <2> SUFFICES ASSUME ToldOfLast, CharactersFit, told # Nothing
               PROVE  InventoryShown
    BY DEF InventoryShown, Nothing
  <2> DEFINE hero == heroes[Len(heroes)]
             size == Cardinality(DOMAIN hero.bag)
  <2>1. told = Told(hero) /\ heroes # <<>>
    BY DEF ToldOfLast
  <2>2. HeroFits(hero, Len(items))
    <3>1. Len(heroes) \in 1..Len(heroes)
      BY <2>1 DEF CharactersFit, IsSequence
    <3> QED
      BY <3>1 DEF CharactersFit
  <2> HIDE DEF hero
  <2>3. size \in 0..255 /\ hero.bank \in Nat
    <3>1. PICK n \in 0..255 : DOMAIN hero.bag = 0..n - 1
      BY <2>2 DEF HeroFits
    <3>2. Cardinality(0..n - 1) = n
      BY <3>1, FS_Interval
    <3> QED
      BY <2>2, <3>1, <3>2 DEF HeroFits
  <2> HIDE DEF size
  <2>4. told = IF ~Sendable(size) THEN [sent |-> "sizes"]
               ELSE IF Endless(size) THEN [sent |-> "endless"]
               ELSE IF ~Sendable(hero.bank) THEN [sent |-> "bag", bag |-> Fragments(size)]
               ELSE IF Endless(hero.bank) THEN [sent |-> "endless"]
               ELSE [sent |-> "everything", bag |-> Fragments(size),
                     bank |-> Fragments(hero.bank),
                     actabilities |-> ActabilityPacket(hero),
                     conflicts |-> DOMAIN m_ZoneConflicts,
                     factions |-> FactionPackets, relations |-> RelationPackets]
    BY <2>1 DEF Told, size
  <2>5. ASSUME told.sent = "everything"
        PROVE  Shown(told.bag, size) /\ Shown(told.bank, hero.bank)
    <3>1. /\ Sendable(size) /\ Sendable(hero.bank) /\ ~Endless(hero.bank)
          /\ told.bag = Fragments(size) /\ told.bank = Fragments(hero.bank)
      BY <2>4, <2>5
    <3>2. hero.bank <= 259
      BY <2>3, <3>1, EndingFitsByte
    <3>3. size \in Nat /\ size <= 259
      BY <2>3
    <3> QED
      BY <2>3, <3>1, <3>2, <3>3, FragmentsShow
  <2>6. ASSUME told.sent = "endless"
        PROVE  hero.bank > 255
    <3>1. Sendable(size)
      BY <2>4, <2>6
    <3>2. ~Endless(size)
      BY <2>3, <3>1, ByteNeverEndless
    <3>3. Sendable(hero.bank) /\ Endless(hero.bank)
      BY <2>4, <2>6, <3>1, <3>2
    <3>4. ~(hero.bank \in 0..255)
      BY <3>3, ByteNeverEndless
    <3> QED
      BY <2>3, <3>4
  <2> QED
    BY <2>5, <2>6 DEF InventoryShown, hero, size
<1> QED
  BY <1>1, ToldOfLastAlways, CharactersAlwaysFit, PTL
-----------------------------------------------------------------------------
(* What the client is shown of the factions. *)

\* The number of smaller ones numbers the elements of a finite set.
LEMMA RanksNumber ==
    ASSUME NEW S, IsFiniteSet(S), S \subseteq Nat
    PROVE  [id \in S |-> Cardinality({f \in S : f < id})]
              \in Bijection(S, 0..Cardinality(S) - 1)
<1> DEFINE Before(id) == {f \in S : f < id}
           rank == [id \in S |-> Cardinality(Before(id))]
           N == Cardinality(S)
<1>1. N \in Nat /\ \A T \in SUBSET S : IsFiniteSet(T) /\ Cardinality(T) \in Nat
  BY FS_CardinalityType, FS_Subset
<1>2. ASSUME NEW id \in S
      PROVE  rank[id] \in 0..N - 1
  <2>1. Before(id) \in SUBSET S /\ Before(id) # S
    OBVIOUS
  <2> HIDE DEF Before
  <2>2. Cardinality(Before(id)) <= N /\ Cardinality(Before(id)) # N
    BY <2>1, FS_Subset
  <2> QED
    BY <1>1, <2>1, <2>2
<1>3. ASSUME NEW a \in S, NEW b \in S, a < b
      PROVE  rank[a] # rank[b]
  <2>0. a \in Nat /\ b \in Nat /\ \A f \in S : f < a => f < b
    BY <1>3
  <2>1. Before(a) \in SUBSET Before(b) /\ a \in Before(b) /\ a \notin Before(a)
    <3>1. Before(a) \subseteq Before(b)
      BY <2>0
    <3>2. a \in Before(b)
      BY <1>3
    <3>3. ~(a < a)
      BY <2>0
    <3>4. a \notin Before(a)
      BY <3>3
    <3> QED
      BY <3>1, <3>2, <3>4
  <2>2. IsFiniteSet(Before(b))
    BY <1>1
  <2> HIDE DEF Before
  <2>3. Cardinality(Before(a)) # Cardinality(Before(b))
    BY <2>1, <2>2, FS_Subset
  <2> QED
    BY <2>3
<1> HIDE DEF Before, N
<1>4. rank \in [S -> 0..N - 1]
  BY <1>2
<1>5. \A a, b \in S : rank[a] = rank[b] => a = b
  <2>1. \A a, b \in S : a = b \/ a < b \/ b < a
    OBVIOUS
  <2> HIDE DEF rank
  <2> QED
    BY <1>3, <2>1
<1>6. rank \in Injection(S, 0..N - 1)
  <2> HIDE DEF rank
  <2> QED
    BY <1>4, <1>5 DEF Injection, IsInjective
<1>7. IsFiniteSet(0..N - 1) /\ Cardinality(0..N - 1) = N
  <2>1. N - 1 \in Int
    BY <1>1
  <2>2. /\ IsFiniteSet(0..N - 1)
        /\ Cardinality(0..N - 1) = IF 0 > N - 1 THEN 0 ELSE (N - 1) - 0 + 1
    BY <2>1, FS_Interval
  <2> QED
    BY <1>1, <2>2
<1>8. rank \in Surjection(S, 0..N - 1)
  <2> HIDE DEF rank
  <2> QED
    BY <1>6, <1>7, FS_Injection DEF N
<1> QED
  BY <1>6, <1>8 DEF Bijection, Before, N

LEMMA RankedBetween ==
    ASSUME NEW S, IsFiniteSet(S), S \subseteq Nat,
           NEW a \in Nat, NEW b \in Nat, a <= b, b <= Cardinality(S)
    PROVE  Cardinality({id \in S : Cardinality({f \in S : f < id}) \in a .. b - 1}) = b - a
<1> DEFINE rank == [id \in S |-> Cardinality({f \in S : f < id})]
           T == {id \in S : rank[id] \in a .. b - 1}
           part == [id \in T |-> rank[id]]
           N == Cardinality(S)
<1>1. rank \in Bijection(S, 0..N - 1)
  BY RanksNumber
<1>2. T = {id \in S : Cardinality({f \in S : f < id}) \in a .. b - 1}
  OBVIOUS
<1>3. N \in Nat
  BY FS_CardinalityType
<1> HIDE DEF rank, N
<1>4. /\ rank \in [S -> 0..N - 1]
      /\ \A x, y \in S : rank[x] = rank[y] => x = y
      /\ \A n \in 0..N - 1 : \E x \in S : rank[x] = n
  BY <1>1 DEF Bijection, Injection, Surjection, IsInjective
<1>5. T \subseteq S /\ \A x \in T : rank[x] \in a .. b - 1
  OBVIOUS
<1>6. \A n \in a .. b - 1 : \E x \in T : rank[x] = n
  BY <1>3, <1>4 DEF N
<1> HIDE DEF T
<1>7. part \in [T -> a .. b - 1] /\ \A x \in T : part[x] = rank[x]
  BY <1>5
<1> HIDE DEF part
<1>8. part \in Bijection(T, a .. b - 1)
  BY <1>4, <1>5, <1>6, <1>7 DEF Bijection, Injection, Surjection, IsInjective
<1>9. Cardinality(a .. b - 1) = Cardinality(T)
  <2>1. IsFiniteSet(T)
    BY <1>5, FS_Subset
  <2>2. ExistsBijection(T, a .. b - 1)
    BY <1>8 DEF ExistsBijection
  <2> QED
    BY <2>1, <2>2, FS_Bijection
<1>10. Cardinality(a .. b - 1) = b - a
  <2>1. Cardinality(a .. b - 1) = IF a > b - 1 THEN 0 ELSE (b - 1) - a + 1
    BY FS_Interval
  <2> QED
    BY <2>1
<1> QED
  BY <1>2, <1>9, <1>10

LEMMA PacketOfRank ==
    ASSUME NEW n \in Nat
    PROVE  /\ FactionPacketOf(n) \in 1..5
           /\ FactionPacketOf(n) = 1 <=> n \in 0 .. FactionsPerPacket - 1
           /\ FactionPacketOf(n) = 2 <=> n \in FactionsPerPacket .. 2 * FactionsPerPacket - 1
           /\ FactionPacketOf(n) = 3 <=> n \in 2 * FactionsPerPacket .. 3 * FactionsPerPacket - 1
           /\ FactionPacketOf(n) = 4 <=> n \in 3 * FactionsPerPacket .. 4 * FactionsPerPacket - 1
           /\ FactionPacketOf(n) = 5 <=> n >= 4 * FactionsPerPacket
<1> DEFINE F == FactionsPerPacket
           q == n \div F
<1>1. F \in Nat \ {0}
  BY PacketsAndBar
<1>2. /\ q \in Nat
      /\ q = 0 <=> n \in 0 .. F - 1
      /\ q = 1 <=> n \in F .. 2 * F - 1
      /\ q = 2 <=> n \in 2 * F .. 3 * F - 1
      /\ q = 3 <=> n \in 3 * F .. 4 * F - 1
  BY <1>1
<1>3. FactionPacketOf(n) = IF n < 4 * F THEN q + 1 ELSE 5
  BY DEF FactionPacketOf
<1> HIDE DEF F, q
<1>4. n < 4 * F => q \in 0..3
  BY <1>1, <1>2
<1> QED
  BY <1>1, <1>2, <1>3, <1>4 DEF F

LEMMA FactionsCounted ==
    ASSUME FactionsLoaded,
           Cardinality(DOMAIN s_SystemFactions) = 4 * FactionsPerPacket + LastFactions,
           NEW p \in 1..5
    PROVE  Cardinality({id \in DOMAIN s_SystemFactions : FactionPacketOf(FactionsBefore(id)) = p})
              = IF p < 5 THEN FactionsPerPacket ELSE LastFactions
<1> DEFINE F == FactionsPerPacket
           L == LastFactions
           S == DOMAIN s_SystemFactions
           a == IF p = 1 THEN 0 ELSE IF p = 2 THEN F ELSE IF p = 3 THEN 2 * F
                ELSE IF p = 4 THEN 3 * F ELSE 4 * F
           b == a + (IF p < 5 THEN F ELSE L)
<1>1. F \in Nat /\ L \in Nat
  BY PacketsAndBar
<1>2. IsFiniteSet(S) /\ S \subseteq Nat /\ Cardinality(S) = 4 * F + L
  BY DEF FactionsLoaded
<1>3. \A id \in S : FactionsBefore(id) \in 0..Cardinality(S) - 1
  <2> DEFINE rank == [id \in S |-> Cardinality({f \in S : f < id})]
  <2>1. rank \in Bijection(S, 0..Cardinality(S) - 1)
    BY <1>2, RanksNumber
  <2>2. \A id \in S : rank[id] \in 0..Cardinality(S) - 1
    <3> HIDE DEF rank
    <3> QED
      BY <2>1 DEF Bijection, Injection
  <2> QED
    BY <2>2 DEF FactionsBefore
<1>4. a \in Nat /\ b \in Nat /\ a <= b /\ b <= Cardinality(S)
  BY <1>1, <1>2
<1>5. \A n \in 0..4 * F + L - 1 : FactionPacketOf(n) = p <=> n \in a .. b - 1
  <2> SUFFICES ASSUME NEW n \in 0..4 * F + L - 1
               PROVE  FactionPacketOf(n) = p <=> n \in a .. b - 1
    OBVIOUS
  <2>1. n \in Nat
    OBVIOUS
  <2>2. /\ FactionPacketOf(n) = 1 <=> n \in 0 .. F - 1
        /\ FactionPacketOf(n) = 2 <=> n \in F .. 2 * F - 1
        /\ FactionPacketOf(n) = 3 <=> n \in 2 * F .. 3 * F - 1
        /\ FactionPacketOf(n) = 4 <=> n \in 3 * F .. 4 * F - 1
        /\ FactionPacketOf(n) = 5 <=> n >= 4 * F
    BY <2>1, PacketOfRank
  <2> QED
    BY <1>1, <2>1, <2>2
<1>6. {id \in S : FactionPacketOf(FactionsBefore(id)) = p}
         = {id \in S : Cardinality({f \in S : f < id}) \in a .. b - 1}
  <2>1. \A id \in S : FactionPacketOf(FactionsBefore(id)) = p
                         <=> FactionsBefore(id) \in a .. b - 1
    <3> HIDE DEF a, b, S, F, L
    <3>1. \A id \in S : FactionsBefore(id) \in 0..4 * F + L - 1
      <4>1. Cardinality(S) = 4 * F + L
        BY <1>2
      <4> QED
        BY <1>1, <1>3, <4>1
    <3> QED
      BY <1>5, <3>1
  <2> QED
    BY <2>1 DEF FactionsBefore
<1>7. Cardinality({id \in S : Cardinality({f \in S : f < id}) \in a .. b - 1}) = b - a
  <2> HIDE DEF a, b, S
  <2> QED
    BY <1>2, <1>4, RankedBetween
<1>8. b - a = IF p < 5 THEN F ELSE L
  BY <1>1
<1> QED
  BY <1>6, <1>7, <1>8

LEMMA RelationsWithin ==
    ASSUME IsSequence(s_Relations),
           Len(s_Relations) >= 5 * RelationsPerPacket + LastRelations,
           NEW p \in 1..6
    PROVE  RelationPackets[p] \subseteq DOMAIN s_Relations
<1> DEFINE R == RelationsPerPacket
<1>1. R \in Nat /\ LastRelations \in Nat
  BY PacketsAndBar
<1>2. Len(s_Relations) \in Nat /\ DOMAIN s_Relations = 1..Len(s_Relations)
  BY SequenceDomain
<1>3. p = 1 \/ p = 2 \/ p = 3 \/ p = 4 \/ p = 5 \/ p = 6
  OBVIOUS
<1>4. RelationPackets[p] = IF p < 6 THEN (p - 1) * R + 1 .. p * R
                           ELSE 5 * R + 1 .. 5 * R + LastRelations
  BY DEF RelationPackets
<1> HIDE DEF R
<1>5. RelationPackets[p] \subseteq 1 .. 5 * R + LastRelations
  BY <1>1, <1>3, <1>4
<1> QED
  BY <1>1, <1>2, <1>5 DEF R

\* What the two announcements hold.
LEMMA PacketsTold ==
    ASSUME ToldOfLast, FactionsLoaded, told.sent = "everything"
    PROVE  /\ told.relations = RelationPackets
           /\ \A p \in 1..5 :
                 /\ WrittenIn(p) = {k \in DOMAIN s_SystemFactions :
                                       FactionPacketOf(FactionsBefore(k)) = p}
                 /\ \A k \in WrittenIn(p) : told.factions[p].written[k] = s_SystemFactions[k].id
                 /\ told.factions[p].count = IF p < 5 THEN FactionsPerPacket ELSE LastFactions
           /\ \A k \in DOMAIN s_SystemFactions : FactionPacketOf(FactionsBefore(k)) \in 1..5
<1>1. told.factions = FactionPackets /\ told.relations = RelationPackets
  <2>1. told # Nothing
    BY DEF Nothing
  <2> QED
    BY <2>1 DEF ToldOfLast, Told
<1>2. \A k \in DOMAIN s_SystemFactions : FactionsBefore(k) \in Nat
  <2>1. \A k \in DOMAIN s_SystemFactions :
           {f \in DOMAIN s_SystemFactions : f < k} \in SUBSET DOMAIN s_SystemFactions
    OBVIOUS
  <2> QED
    BY <2>1, FS_Subset, FS_CardinalityType DEF FactionsLoaded, FactionsBefore
<1> QED
  BY <1>1, <1>2, PacketOfRank DEF FactionPackets, WrittenIn

\* Whatever factions the tables have: each is in one packet, and if there are as many
\* as SCFactionListPacket was written for, every length it writes is right; so is
\* every index of SCFactionRelationListPacket.
THEOREM FactionsAlwaysAnnounced == Spec => []FactionsAnnounced
<1>1. ToldOfLast /\ FactionsLoaded => FactionsAnnounced
  <2> SUFFICES ASSUME ToldOfLast, FactionsLoaded, told.sent = "everything"
               PROVE  FactionsAnnounced
    BY DEF FactionsAnnounced
  <2>1. UNION {WrittenIn(p) : p \in 1..5} = DOMAIN s_SystemFactions
    BY PacketsTold
  <2>2. \A p, q \in 1..5 : p # q => WrittenIn(p) \cap WrittenIn(q) = {}
    BY PacketsTold
  <2>3. Cardinality(DOMAIN s_SystemFactions) = 4 * FactionsPerPacket + LastFactions
           => \A p \in 1..5 : Readable(p)
    BY PacketsTold, FactionsCounted DEF Readable
  <2>4. Len(s_Relations) >= 5 * RelationsPerPacket + LastRelations
           => UNION Range(told.relations) \subseteq DOMAIN s_Relations
    <3>1. DOMAIN RelationPackets = 1..6
      BY DEF RelationPackets
    <3> QED
      BY <3>1, PacketsTold, RelationsWithin DEF FactionsLoaded, Range
  <2> QED
    BY <2>1, <2>2, <2>3, <2>4 DEF FactionsAnnounced
<1> QED
  BY <1>1, ToldOfLastAlways, FactionsAlwaysLoaded, PTL

\* Whatever the relations name, and whatever factions operator[] added for them: an
\* end that the table has a faction for is announced under the id the relation uses,
\* in a packet whose length is right.
THEOREM RelationsAlwaysUnderstood == Spec => []RelationsUnderstood
<1>1. ToldOfLast /\ FactionsLoaded => RelationsUnderstood
  <2> SUFFICES ASSUME ToldOfLast, FactionsLoaded, told.sent = "everything",
                      Cardinality(DOMAIN s_SystemFactions)
                         = 4 * FactionsPerPacket + LastFactions,
                      NEW i \in DOMAIN s_Relations,
                      NEW end \in {s_Relations[i].id, s_Relations[i].id2}
                                  \cap Column(db.factions, Id)
               PROVE  end \in Heard
    BY DEF RelationsUnderstood
  <2>1. s_Relations # <<>>
    OBVIOUS
  <2>2. end \in DOMAIN s_SystemFactions /\ s_SystemFactions[end].id = end
    BY <2>1 DEF FactionsLoaded
  <2>3. PICK p \in 1..5 : end \in WrittenIn(p)
    BY <2>2, PacketsTold
  <2>4. Readable(p)
    BY PacketsTold, FactionsCounted DEF Readable
  <2>5. end \in Range(told.factions[p].written)
    BY <2>2, <2>3, PacketsTold DEF Range, WrittenIn
  <2> QED
    BY <2>4, <2>5 DEF Heard
<1> QED
  BY <1>1, ToldOfLastAlways, FactionsAlwaysLoaded, PTL
-----------------------------------------------------------------------------
(* The action bar. *)

StartSkillsFit(ability) == /\ Len(StartSkills(ability)) \in Nat
                           /\ DOMAIN StartSkills(ability) = 1..Len(StartSkills(ability))

LEMMA StartSkillsOfAbility ==
    ASSUME SkillsLoaded, NEW ability
    PROVE  StartSkillsFit(ability)
<1>1. Len(<<>>) = 0 /\ DOMAIN <<>> = 1..0
  OBVIOUS
<1> QED
  BY <1>1 DEF SkillsLoaded, StartSkillsFit, StartSkills

\* The slots before the first free one are taken, so there are no more of them than
\* slots that are taken.
LEMMA FirstFreeEarly ==
    ASSUME NEW B, IsFiniteSet(B), Cardinality(B) < BarSize
    PROVE  LET first == Min((1..BarSize) \ B)
           IN  first \in 1..BarSize /\ first - 1 <= Cardinality(B)
<1> DEFINE free == (1..BarSize) \ B
           first == Min(free)
           taken == 1..first - 1
<1>1. BarSize \in Nat /\ Cardinality(B) \in Nat
  BY PacketsAndBar, FS_CardinalityType
<1>2. free # {}
  <2> SUFFICES ASSUME 1..BarSize \in SUBSET B PROVE FALSE
    OBVIOUS
  <2>1. Cardinality(1..BarSize) <= Cardinality(B)
    BY FS_Subset
  <2>2. Cardinality(1..BarSize) = BarSize
    BY <1>1, FS_Interval
  <2> QED
    BY <1>1, <2>1, <2>2
<1>3. first \in free /\ \A n \in free : first <= n
  <2>1. free \subseteq Nat
    BY <1>1
  <2> HIDE DEF free
  <2> QED
    BY <1>2, <2>1, MinOf
<1>4. first \in 1..BarSize
  BY <1>3
<1> HIDE DEF first
<1>5. taken \in SUBSET B
  <2> SUFFICES ASSUME NEW n \in 1..first - 1, n \notin B PROVE FALSE
    OBVIOUS
  <2>1. n \in free /\ ~(first <= n)
    BY <1>1, <1>4
  <2> QED
    BY <1>3, <2>1
<1>6. Cardinality(taken) <= Cardinality(B)
  <2> HIDE DEF taken
  <2> QED
    BY <1>5, FS_Subset
<1>7. Cardinality(taken) = first - 1
  <2>1. first - 1 \in Int
    BY <1>4
  <2>2. Cardinality(taken) = IF 1 > first - 1 THEN 0 ELSE (first - 1) - 1 + 1
    BY <2>1, FS_Interval
  <2> QED
    BY <1>1, <1>4, <2>2
<1> QED
  BY <1>4, <1>6, <1>7 DEF first

LEMMA BarOf ==
    ASSUME NEW ability, NEW choice,
           IsSequence(Supplies(ability)), Len(Supplies(ability)) \in 0..2,
           StartSkillsFit(ability),
           DefaultSlots \subseteq 0..BarSize - 1,
           Cardinality(DefaultSlots) + Len(Supplies(ability)) + Len(StartSkills(ability))
              < BarSize
    PROVE  DOMAIN ActionBar(ability, choice) \subseteq 0..BarSize - 1
<1> DEFINE supplies == Supplies(ability)
           skills == StartSkills(ability)
           place == [n \in DOMAIN supplies |-> 9 + n]
           carried == {place[n] : n \in DOMAIN supplies}
           before == Over(DefaultActions(choice), SupplyActions(ability))
           B == DefaultSlots \cup carried
           first == FirstFree(before)
           D == Cardinality(DefaultSlots)
           m == Len(supplies)
           k == Len(skills)
<1>1. BarSize \in Nat /\ BarSize >= 12
  BY PacketsAndBar
<1>2. m \in 0..2 /\ DOMAIN supplies = 1..m /\ k \in Nat /\ DOMAIN skills = 1..k
  BY SequenceDomain DEF StartSkillsFit
<1>3. IsFiniteSet(DefaultSlots) /\ D \in Nat
  <2>1. IsFiniteSet(0..BarSize - 1) /\ DefaultSlots \in SUBSET (0..BarSize - 1)
    BY <1>1, FS_Interval
  <2> QED
    BY <2>1, FS_Subset, FS_CardinalityType
<1>4. IsFiniteSet(carried) /\ Cardinality(carried) <= m /\ Cardinality(carried) \in Nat
  <2>1. IsFiniteSet(DOMAIN supplies) /\ Cardinality(DOMAIN supplies) = m
    <3> HIDE DEF m
    <3>1. IsFiniteSet(1..m) /\ Cardinality(1..m) = IF 1 > m THEN 0 ELSE m - 1 + 1
      BY <1>2, FS_Interval
    <3> QED
      BY <1>2, <3>1
  <2>2. DOMAIN place = DOMAIN supplies /\ place = [n \in DOMAIN supplies |-> place[n]]
    OBVIOUS
  <2> HIDE DEF place
  <2> QED
    BY <2>1, <2>2, FiniteImage, FS_CardinalityType
<1>5. carried \subseteq 0..BarSize - 1
  BY <1>1, <1>2
<1>6. carried = {9 + n : n \in DOMAIN supplies}
  OBVIOUS
<1> HIDE DEF place, carried
<1>7. DOMAIN before = B
  <2>1. DOMAIN before = DOMAIN DefaultActions(choice) \cup DOMAIN SupplyActions(ability)
    BY OverValues
  <2>2. DOMAIN DefaultActions(choice) = DefaultSlots
    BY DEF DefaultActions
  <2>3. DOMAIN SupplyActions(ability) = carried
    BY <1>6 DEF SupplyActions
  <2> QED
    BY <2>1, <2>2, <2>3
<1>8. IsFiniteSet(B) /\ Cardinality(B) \in Nat /\ Cardinality(B) <= D + m
  <2>1. /\ IsFiniteSet(B)
        /\ Cardinality(B) = D + Cardinality(carried) - Cardinality(DefaultSlots \cap carried)
    BY <1>3, <1>4, FS_Union
  <2>2. Cardinality(B) \in Nat /\ Cardinality(DefaultSlots \cap carried) \in Nat
    BY <1>3, <2>1, FS_CardinalityType, FS_Intersection
  <2>3. /\ D \in Nat /\ m \in Nat
        /\ Cardinality(carried) \in Nat /\ Cardinality(carried) <= m
    BY <1>2, <1>3, <1>4
  <2> DEFINE both == Cardinality(B)
             inCarried == Cardinality(carried)
             shared == Cardinality(DefaultSlots \cap carried)
  <2>4. /\ both = D + inCarried - shared
        /\ both \in Nat /\ shared \in Nat /\ inCarried \in Nat /\ inCarried <= m
    BY <2>1, <2>2, <2>3
  <2> HIDE DEF B, D, m, both, inCarried, shared
  <2>5. both <= D + m
    BY <2>3, <2>4
  <2> QED
    BY <2>1, <2>2, <2>5 DEF both
<1>9. D + m + k < BarSize
  OBVIOUS
<1> HIDE DEF B, D, m, k
<1>10. first \in 1..BarSize /\ first - 1 <= Cardinality(B)
  <2>1. Cardinality(B) < BarSize
    BY <1>1, <1>2, <1>3, <1>8, <1>9
  <2>2. first = Min((1..BarSize) \ B)
    BY <1>7 DEF FirstFree
  <2> HIDE DEF first
  <2> QED
    BY <1>8, <2>1, <2>2, FirstFreeEarly
<1>11. ActionBar(ability, choice) = Over(StartActions(ability, first), before)
  BY DEF ActionBar
<1> HIDE DEF first, before, supplies
<1>12. DOMAIN StartActions(ability, first) = {first + n - 1 : n \in 1..k}
  BY <1>2 DEF StartActions
<1> HIDE DEF skills
<1>13. DOMAIN StartActions(ability, first) \subseteq 0..BarSize - 1
  BY <1>1, <1>2, <1>3, <1>8, <1>9, <1>10, <1>12
<1>14. B \subseteq 0..BarSize - 1
  BY <1>5 DEF B
<1>15. DOMAIN Over(StartActions(ability, first), before)
          = DOMAIN StartActions(ability, first) \cup DOMAIN before
  BY OverValues
<1> QED
  BY <1>7, <1>11, <1>13, <1>14, <1>15

\* What the property says of one character.
BarFits(hero) ==
    LET ability == hero.asked.ability
    IN  /\ DefaultSlots \subseteq 0..BarSize - 1
        /\ Cardinality(DefaultSlots) + Len(Supplies(ability))
              + Len(StartSkills(ability)) < BarSize
        => DOMAIN hero.bar \subseteq 0..BarSize - 1

LEMMA BarFitsKept ==
    ASSUME NEW hero, [Next]_newCharacterVars, InOrder, phase = 9, BarFits(hero)
    PROVE  BarFits(hero)'
<1>1. UNCHANGED skillVars /\ (UNCHANGED m_AbilityItems \/ CreateCharacter)
  <2>1. CASE Load
    BY <2>1, LoadSteps
  <2>2. CASE CreateCharacter \/ SelectCharacter
    BY <2>2, HandlersKeep DEF SelectCharacter, loaderVars, managerVars, characterVars
  <2>3. CASE UNCHANGED newCharacterVars
    BY <2>3 DEF newCharacterVars, loaderVars, managerVars, characterVars
  <2> QED
    BY <2>1, <2>2, <2>3 DEF Next
<1>2. GearOf(hero.asked.ability)' = GearOf(hero.asked.ability) /\ GearOf(0)' = GearOf(0)
  BY <1>1, GearKept
<1>3. Supplies(hero.asked.ability)' = Supplies(hero.asked.ability)
  BY <1>2 DEF Supplies
<1>4. StartSkills(hero.asked.ability)' = StartSkills(hero.asked.ability)
  BY <1>1 DEF StartSkills, skillVars
<1>5. DefaultSlots' = DefaultSlots
  BY <1>1 DEF DefaultSlots, skillVars
<1> QED
  BY <1>3, <1>4, <1>5 DEF BarFits

LEMMA HeroesSoFar ==
    ASSUME CharactersFit, NEW hero, heroes' = Append(heroes, hero), NEW n \in DOMAIN heroes'
    PROVE  \/ n \in DOMAIN heroes /\ heroes'[n] = heroes[n]
           \/ heroes'[n] = hero
<1>1. IsSequence(heroes) /\ DOMAIN heroes = 1..Len(heroes) /\ Len(heroes) \in Nat
  BY SequenceDomain DEF CharactersFit
<1> DEFINE more == Append(heroes, hero)
<1>2. /\ DOMAIN more = 1..(Len(heroes) + 1)
      /\ \A i \in 1..Len(heroes) : more[i] = heroes[i]
      /\ more[Len(heroes) + 1] = hero
  BY <1>1, AppendedSequence
<1>3. heroes' = more
  OBVIOUS
<1> HIDE DEF more
<1> QED
  BY <1>1, <1>2, <1>3

\* Whatever default skills, supplies and start skills there are: Create writes no slot
\* behind the bar's array while they are together fewer than its slots.
THEOREM BarAlwaysInBounds == Spec => []BarStaysInBounds
<1> DEFINE Inv == \A n \in DOMAIN heroes : BarFits(heroes[n])
<1>1. Init => Inv
  BY DEF Init
<1>2. /\ InOrder /\ TemplatesLoaded /\ GearLoaded /\ SkillsLoaded /\ CharactersFit /\ Inv
      /\ [Next]_newCharacterVars
      => Inv'
  <2> SUFFICES ASSUME InOrder, TemplatesLoaded, GearLoaded, SkillsLoaded, CharactersFit, Inv,
                      [Next]_newCharacterVars, NEW n \in DOMAIN heroes'
               PROVE  BarFits(heroes[n])'
    OBVIOUS
  <2>1. CASE n \in DOMAIN heroes /\ heroes'[n] = heroes[n]
    <3> DEFINE hero == heroes[n]
    <3>1. phase = 9
      BY <2>1 DEF InOrder
    <3>2. PICK h : h = hero
      OBVIOUS
    <3>3. BarFits(h)
      BY <2>1, <3>2
    <3>4. BarFits(h)'
      BY <3>1, <3>3, BarFitsKept
    <3>5. BarFits(h)' = BarFits(heroes[n])'
      BY <2>1, <3>2 DEF BarFits
    <3> QED
      BY <3>4, <3>5
  <2>2. CASE ~(n \in DOMAIN heroes /\ heroes'[n] = heroes[n])
    <3>1. CreateCharacter
      BY <2>2, OthersLeaveCharacters
    <3>2. PICK hero, choice :
             /\ heroes' = Append(heroes, hero)
             /\ hero.bar = ActionBar(hero.asked.ability, choice)
      BY <3>1, CreateAdds
    <3>3. heroes'[n] = hero
      BY <2>2, <3>2, HeroesSoFar
    <3>4. phase = 9
      BY <3>1, HandlersKeep
    <3>5. BarFits(hero)
      <4> DEFINE ability == hero.asked.ability
      <4>1. IsSequence(Supplies(ability)) /\ Len(Supplies(ability)) \in 0..2
        <5>1. GearFits(ability) /\ GearFits(0)
          BY <3>4 DEF GearLoaded
        <5> QED
          BY <5>1, SuppliesOf
      <4>2. StartSkillsFit(ability)
        BY StartSkillsOfAbility
      <4>3. hero.bar = ActionBar(ability, choice)
        BY <3>2
      <4> QED
        BY <4>1, <4>2, <4>3, BarOf DEF BarFits
    <3>6. BarFits(hero)'
      BY <3>4, <3>5, BarFitsKept
    <3> QED
      BY <3>3, <3>6 DEF BarFits
  <2> QED
    BY <2>1, <2>2
<1>3. Inv => BarStaysInBounds
  BY DEF BarStaysInBounds, BarFits
<1> HIDE DEF Inv
<1> QED
  BY <1>1, <1>2, <1>3, InOrderAlways, TemplatesAlwaysLoaded, GearAlwaysLoaded,
     SkillsAlwaysLoaded, CharactersAlwaysFit, PTL DEF Spec
-----------------------------------------------------------------------------
(* The keys of the templates. *)

Plain == /\ IsInjective([i \in DOMAIN db.config |-> db.config[i].id])
         /\ IsInjective([i \in DOMAIN db.characters |-> TemplateKey(db.characters[i])])
         /\ \A c \in Range(db.config) : c.id < 16

LEMMA KeysApart ==
    ASSUME NEW race \in 0..15, NEW gender \in {1, 2}, NEW c, c.id \in 0..15
    PROVE  TemplateId(race, gender) \in ConfigKeys(c) <=> c.id = race
<1> DEFINE r == race
           i == c.id
<1>1. TemplateId(race, gender) = 16 * gender + race
  BY DEF TemplateId, Byte
<1>2. ConfigKeys(c) = {16 + c.id, 32 + c.id}
  BY DEF ConfigKeys, Byte
<1> HIDE DEF i
<1> QED
  BY <1>1, <1>2 DEF i

LEMMA TableRow ==
    ASSUME db \in Databases, NEW junk, NEW i \in DOMAIN db.characters,
           IsInjective([j \in DOMAIN db.characters |-> TemplateKey(db.characters[j])])
    PROVE  TemplateAt(RaceTemplates(junk), TemplateKey(db.characters[i])).model
              = db.characters[i].model
<1> DEFINE rows == db.characters
           key == TemplateKey(rows[i])
           With == {j \in DOMAIN rows : TemplateKey(rows[j]) = key}
<1>1. DOMAIN rows \subseteq Nat
  <2>1. rows \in Seq([race : Nat, gender : Nat, model : Nat])
    BY DatabasesHaveTables
  <2> DEFINE Row == [race : Nat, gender : Nat, model : Nat]
  <2> HIDE DEF Row
  <2>2. Len(rows) \in Nat /\ DOMAIN rows = 1..Len(rows)
    BY <2>1, ElementOf DEF Row
  <2> QED
    BY <2>2
<1>2. \A j \in DOMAIN rows : TemplateKey(rows[j]) = key => j = i
  BY DEF IsInjective
<1>3. With = {i}
  BY <1>2
<1>4. Min(With) = i
  <2>1. With \subseteq Nat /\ With # {}
    BY <1>1, <1>3
  <2>2. Min(With) \in With
    <3> HIDE DEF With
    <3> QED
      BY <2>1, MinOf
  <2> QED
    BY <1>3, <2>2
<1>5. FirstWith(rows, TemplateKey, key) = rows[i]
  BY <1>4 DEF FirstWith
<1>6. key \in Column(rows, TemplateKey)
  BY DEF Column
<1>7. /\ DOMAIN RaceTemplates(junk) = Column(rows, TemplateKey)
      /\ RaceTemplates(junk)[key].model = FirstWith(rows, TemplateKey, key).model
  BY <1>6 DEF RaceTemplates
<1> QED
  BY <1>5, <1>6, <1>7 DEF TemplateAt

\* What the property says of one character.
Agrees(hero) ==
    \A row \in Range(db.characters), c \in Range(db.config) :
        /\ Plain /\ c.id = hero.asked.race
        /\ row.race = hero.asked.race /\ row.gender = hero.asked.gender
        /\ row.gender \in {1, 2}
        => /\ hero.model = row.model
           /\ Cardinality(DOMAIN hero.bag) = Byte(c.bag)

LEMMA TemplateAgrees ==
    ASSUME InOrder, TemplatesLoaded, phase = 9, Plain, NEW asked,
           NEW i \in DOMAIN db.characters, NEW n \in DOMAIN db.config,
           db.config[n].id = asked.race,
           db.characters[i].race = asked.race, db.characters[i].gender = asked.gender,
           asked.gender \in {1, 2}
    PROVE  /\ Template(asked).model = db.characters[i].model
           /\ Template(asked).bag = Byte(db.config[n].bag)
<1> DEFINE key == TemplateId(asked.race, asked.gender)
<1>1. PICK junk \in JunkBytes : \A k : TemplateAt(m_Templates, k) = TemplateAt(Configured(junk), k)
  BY DEF TemplatesLoaded
<1>2. Template(asked) = TemplateAt(Configured(junk), key)
  BY <1>1 DEF Template, TemplateFor, TemplateAt
<1>3. \A j \in DOMAIN db.config : db.config[j].id \in 0..15
  <2> DEFINE Row == [id : Nat, bag : Nat, bank : Nat]
  <2>1. db.config \in Seq(Row)
    BY DatabasesHaveTables DEF InOrder
  <2>2. \A row \in Row : row.id \in Nat
    OBVIOUS
  <2> HIDE DEF Row
  <2>3. \A j \in DOMAIN db.config : db.config[j].id \in Nat
    BY <2>1, <2>2, ElementOf
  <2>4. \A j \in DOMAIN db.config : db.config[j].id < 16
    BY DEF Plain, Range
  <2> QED
    BY <2>3, <2>4
<1>4. asked.race \in 0..15
  BY <1>3
<1>5. key = TemplateKey(db.characters[i])
  BY DEF TemplateKey
<1>6. TemplateAt(RaceTemplates(junk), key).model = db.characters[i].model
  BY <1>5, TableRow DEF Plain, InOrder
<1> HIDE DEF key
<1>7. \A j \in DOMAIN db.config : key \in ConfigKeys(db.config[j]) <=> db.config[j].id = asked.race
  BY <1>3, <1>4, KeysApart DEF key
<1>8. PICK j \in DOMAIN db.config :
           /\ key \in ConfigKeys(db.config[j])
           /\ key \in DOMAIN Configured(junk)
           /\ Configured(junk)[key] =
                 [TemplateAt(RaceTemplates(junk), key) EXCEPT
                     !.bag = Byte(db.config[j].bag), !.bank = db.config[j].bank]
  <2>1. key \in ConfigKeys(db.config[n])
    BY <1>7
  <2> QED
    BY <2>1, ConfiguredByJson DEF InOrder
<1>9. j = n
  <2>1. db.config[j].id = db.config[n].id
    BY <1>7, <1>8
  <2> QED
    BY <2>1 DEF Plain, IsInjective
<1> DEFINE t == TemplateAt(RaceTemplates(junk), key)
<1> HIDE DEF t
<1>10. Template(asked) = [t EXCEPT !.bag = Byte(db.config[n].bag), !.bank = db.config[n].bank]
  BY <1>2, <1>8, <1>9 DEF TemplateAt, t
<1> QED
  BY <1>6, <1>10 DEF t
\* Whatever the table and the json hold, as long as each names a race once and none
\* above 15: the three ways to compute a template's key agree for both genders.
THEOREM TemplatesAlwaysAgree == Spec => []TemplatesAgree
<1> DEFINE Inv == \A n \in DOMAIN heroes : Agrees(heroes[n])
<1>1. Init => Inv
  BY DEF Init
<1>2. /\ InOrder /\ TemplatesLoaded /\ GearLoaded /\ CharactersFit /\ Inv
      /\ [Next]_newCharacterVars
      => Inv'
  <2> SUFFICES ASSUME InOrder, TemplatesLoaded, GearLoaded, CharactersFit, Inv,
                      [Next]_newCharacterVars, NEW n \in DOMAIN heroes'
               PROVE  Agrees(heroes[n])'
    OBVIOUS
  <2>1. db' = db
    <3>1. CASE Load
      BY <3>1, LoadSteps
    <3>2. CASE CreateCharacter \/ SelectCharacter
      BY <3>2, HandlersKeep
    <3>3. CASE UNCHANGED newCharacterVars
      BY <3>3 DEF newCharacterVars, loaderVars
    <3> QED
      BY <3>1, <3>2, <3>3 DEF Next
  <2>2. Plain' = Plain
    BY <2>1 DEF Plain
  <2>3. CASE n \in DOMAIN heroes /\ heroes'[n] = heroes[n]
    <3>1. Agrees(heroes[n])
      BY <2>3
    <3> QED
      BY <2>1, <2>2, <2>3, <3>1 DEF Agrees
  <2>4. CASE ~(n \in DOMAIN heroes /\ heroes'[n] = heroes[n])
    <3>1. CreateCharacter
      BY <2>4, OthersLeaveCharacters
    <3>2. PICK hero :
             /\ heroes' = Append(heroes, hero)
             /\ hero.model = Template(hero.asked).model
             /\ DOMAIN hero.bag = 0..Template(hero.asked).bag - 1
      BY <3>1, CreateAdds
    <3>3. heroes'[n] = hero
      BY <2>4, <3>2, HeroesSoFar
    <3>4. phase = 9
      BY <3>1, HandlersKeep
    <3> DEFINE asked == hero.asked
    <3>5. Cardinality(DOMAIN hero.bag) = Template(asked).bag
      <4>1. WellSized(Template(asked))
        BY <3>4, TemplateSized DEF Template
      <4> DEFINE size == Template(asked).bag
      <4>2. size \in 0..255
        BY <4>1 DEF WellSized
      <4>3. DOMAIN hero.bag = 0..size - 1
        BY <3>2
      <4> HIDE DEF size
      <4>4. Cardinality(0..size - 1) = IF 0 > size - 1 THEN 0 ELSE (size - 1) - 0 + 1
        BY <4>2, FS_Interval
      <4>5. Cardinality(0..size - 1) = size
        BY <4>2, <4>4
      <4> QED
        BY <4>3, <4>5 DEF size
    <3>6. Agrees(hero)
      <4> SUFFICES ASSUME NEW row \in Range(db.characters), NEW c \in Range(db.config),
                          Plain, c.id = asked.race, row.race = asked.race,
                          row.gender = asked.gender, row.gender \in {1, 2}
                   PROVE  /\ Template(asked).model = row.model
                          /\ Template(asked).bag = Byte(c.bag)
        BY <3>2, <3>5 DEF Agrees
      <4>1. PICK i \in DOMAIN db.characters : db.characters[i] = row
        BY DEF Range
      <4>2. PICK m \in DOMAIN db.config : db.config[m] = c
        BY DEF Range
      <4> HIDE DEF asked
      <4> QED
        BY <3>4, <4>1, <4>2, TemplateAgrees
    <3> QED
      BY <2>1, <2>2, <3>3, <3>6 DEF Agrees
  <2> QED
    BY <2>3, <2>4
<1>3. Inv => TemplatesAgree
  BY DEF TemplatesAgree, Agrees, Plain
<1> HIDE DEF Inv
<1> QED
  BY <1>1, <1>2, <1>3, InOrderAlways, TemplatesAlwaysLoaded, GearAlwaysLoaded,
     CharactersAlwaysFit, PTL DEF Spec
-----------------------------------------------------------------------------
(* What is worn. *)

LEMMA PackPieces ==
    ASSUME db \in Databases, NEW row, NEW f \in EquipFields
    PROVE  EquipPack(row)[f].id \in Nat
<1> DEFINE cloths == IF row.cloth \in DOMAIN db.cloths THEN db.cloths[row.cloth] ELSE Empty
           arms == IF row.weapon \in DOMAIN db.arms THEN db.arms[row.weapon] ELSE Empty
           rest == Over(arms, NoPack)
<1>1. EquipPack(row) = Over(cloths, rest)
  BY DEF EquipPack
<1>2. \A g \in DOMAIN cloths : cloths[g].id \in Nat
  BY DatabasesHaveTables DEF Pieces, Empty
<1>3. \A g \in DOMAIN arms : arms[g].id \in Nat
  BY DatabasesHaveTables DEF Pieces, Empty
<1>4. f \in DOMAIN NoPack /\ NoPack[f].id \in Nat
  BY DEF NoPack
<1> HIDE DEF cloths, arms
<1>5. /\ DOMAIN rest = DOMAIN arms \cup DOMAIN NoPack
      /\ \A k \in DOMAIN arms : rest[k] = arms[k]
      /\ \A k \in DOMAIN NoPack : k \notin DOMAIN arms => rest[k] = NoPack[k]
  BY OverValues
<1>6. f \in DOMAIN rest /\ rest[f].id \in Nat
  BY <1>3, <1>4, <1>5
<1> HIDE DEF rest
<1>7. /\ \A k \in DOMAIN cloths : Over(cloths, rest)[k] = cloths[k]
      /\ \A k \in DOMAIN rest : k \notin DOMAIN cloths => Over(cloths, rest)[k] = rest[k]
  BY OverValues
<1> QED
  BY <1>1, <1>2, <1>6, <1>7

\* The pack of an ability that the table names once.
LEMMA PackOfRow ==
    ASSUME db \in Databases, NEW ability \in 0..255, GearFits(ability),
           NEW i \in DOMAIN db.packs, db.packs[i].ability = ability,
           IsInjective([j \in DOMAIN db.packs |-> AbilityKey(db.packs[j])]),
           ability \notin Column(db.supplies, AbilityKey)
    PROVE  GearOf(ability).pack = EquipPack(db.packs[i])
<1> DEFINE rows == db.packs
           With == {j \in DOMAIN rows : AbilityKey(rows[j]) = ability}
<1>1. AbilityKey(rows[i]) = ability
  <2>1. \A n \in 0..255 : Byte(n) = n
    BY DEF Byte
  <2> QED
    BY <2>1, Zenon DEF AbilityKey
<1>2. \A j \in DOMAIN rows : AbilityKey(rows[j]) = ability => j = i
  BY <1>1 DEF IsInjective
<1>3. With = {i}
  BY <1>1, <1>2
<1>4. Min(With) = i
  <2> DEFINE Row == [ability : Nat, cloth : Nat, weapon : Nat]
  <2>1. rows \in Seq(Row)
    BY DatabasesHaveTables
  <2> HIDE DEF Row
  <2>2. Len(rows) \in Nat /\ DOMAIN rows = 1..Len(rows)
    BY <2>1, ElementOf
  <2>3. With \subseteq Nat /\ With # {}
    BY <1>3, <2>2
  <2>4. Min(With) \in With
    <3> HIDE DEF With
    <3> QED
      BY <2>3, MinOf
  <2> QED
    BY <1>3, <2>4
<1>5. FirstWith(rows, AbilityKey, ability) = rows[i]
  BY <1>4 DEF FirstWith
<1>6. ability \in Column(rows, AbilityKey)
  BY <1>1 DEF Column
<1>7. PackGear[ability].pack = EquipPack(rows[i])
  BY <1>5, <1>6 DEF PackGear, NoGear
<1> QED
  BY <1>6, <1>7 DEF GearFits

\* What the property says of one character.
ChosenPart(asked, i) ==
    IF asked.body[i] = 0 THEN TemplateFor(asked.race, asked.gender).body[i] ELSE asked.body[i]
Wears(hero) ==
    /\ \A i \in 0..6 : WornId(hero, i + 19) = Made(ChosenPart(hero.asked, i))
    /\ \A row \in Range(db.packs), f \in EquipFields :
          /\ IsInjective([i \in DOMAIN db.packs |-> AbilityKey(db.packs[i])])
          /\ row.ability = hero.asked.ability
          /\ hero.asked.ability \notin Column(db.supplies, AbilityKey)
          => WornId(hero, SlotOf[f]) = Made(EquipPack(row)[f].id)

LEMMA FittedShows ==
    ASSUME NEW made, NEW piece, Fitted(made, piece), piece.id \in Nat
    PROVE  (IF made.equipped[piece.slot] = NoItem THEN 0
            ELSE made.items[made.equipped[piece.slot]].id) = Made(piece.id)
  BY DEF Fitted, Made

LEMMA SlotsWorn == \A f \in EquipFields : SlotOf[f] \in 0..27
  BY DEF EquipFields, SlotOf

\* The state that Wears is about, but for the items.
LEMMA WearsOnlyOnItems ==
    ASSUME InOrder, phase = 9, [Next]_newCharacterVars
    PROVE  /\ db' = db /\ m_ItemTemplates' = m_ItemTemplates
           /\ \A asked, i : ChosenPart(asked, i)' = ChosenPart(asked, i)
<1>1. /\ db' = db /\ m_ItemTemplates' = m_ItemTemplates
      /\ UNCHANGED m_Templates \/ CreateCharacter
  <2>1. CASE Load
    BY <2>1, LoadSteps
  <2>2. CASE CreateCharacter \/ SelectCharacter
    BY <2>2, HandlersKeep DEF SelectCharacter, loaderVars, managerVars, characterVars
  <2>3. CASE UNCHANGED newCharacterVars
    BY <2>3 DEF newCharacterVars, loaderVars, managerVars, characterVars, itemVars
  <2> QED
    BY <2>1, <2>2, <2>3 DEF Next
<1>2. \A k : TemplateAt(m_Templates, k)' = TemplateAt(m_Templates, k)
  BY <1>1, TemplatesKept
<1>3. \A race, gender : TemplateFor(race, gender) = TemplateAt(m_Templates, TemplateId(race, gender))
  BY DEF TemplateFor, TemplateAt
<1>4. \A race, gender :
         TemplateFor(race, gender)' = TemplateAt(m_Templates, TemplateId(race, gender))'
  BY DEF TemplateFor, TemplateAt
<1>5. \A race, gender : TemplateFor(race, gender)' = TemplateFor(race, gender)
  BY <1>2, <1>3, <1>4
<1>6. \A asked, i : ChosenPart(asked, i)' = ChosenPart(asked, i)
  BY <1>5 DEF ChosenPart
<1> QED
  BY <1>1, <1>6

\* The id of the item of a list that a slot refers to.
IdIn(list, slots, s) == IF slots[s] = NoItem THEN 0 ELSE list[slots[s]].id

\* A character just dressed shows in every slot what is meant for it.
LEMMA WearsNow ==
    ASSUME InOrder, TemplatesLoaded, GearLoaded, phase = 9, NEW asked \in Requests,
           NEW hero, hero.asked = asked, NEW made,
           Worn(Outfit(GearOf(asked.ability).pack, ChosenBody(asked.body, Template(asked))),
                23, made),
           made.equipped = hero.equipped
    PROVE  /\ \A i \in 0..6 :
                 IdIn(made.items, hero.equipped, i + 19) = Made(ChosenPart(asked, i))
           /\ \A row \in Range(db.packs), f \in EquipFields :
                 /\ IsInjective([i \in DOMAIN db.packs |-> AbilityKey(db.packs[i])])
                 /\ row.ability = asked.ability
                 /\ asked.ability \notin Column(db.supplies, AbilityKey)
                 => IdIn(made.items, hero.equipped, SlotOf[f]) = Made(EquipPack(row)[f].id)
<1> DEFINE pack == GearOf(asked.ability).pack
           body == ChosenBody(asked.body, Template(asked))
           outfit == Outfit(pack, body)
           Id0(s) == IdIn(made.items, hero.equipped, s)
<1>1. \A m \in 1..23 : Fitted(made, outfit[m])
  BY DEF Worn
<1>2. \A m \in 1..23 : outfit[m].id \in Nat => Id0(outfit[m].slot) = Made(outfit[m].id)
  <2> SUFFICES ASSUME NEW m \in 1..23, outfit[m].id \in Nat
               PROVE  Id0(outfit[m].slot) = Made(outfit[m].id)
    OBVIOUS
  <2> DEFINE piece == outfit[m]
  <2>1. Fitted(made, piece) /\ piece.id \in Nat
    BY <1>1
  <2> HIDE DEF piece
  <2>2. (IF made.equipped[piece.slot] = NoItem THEN 0
         ELSE made.items[made.equipped[piece.slot]].id) = Made(piece.id)
    BY <2>1, FittedShows
  <2>3. Id0(piece.slot) = Made(piece.id)
    BY <2>2 DEF IdIn
  <2> QED
    BY <2>3 DEF piece
<1>3. ASSUME NEW i \in 0..6
      PROVE  Id0(i + 19) = Made(ChosenPart(asked, i))
  <2>1. body[i] = ChosenPart(asked, i) /\ body[i] \in Nat
    <3>1. Template(asked).body \in [0..6 -> Nat] /\ asked.body \in [0..6 -> Nat]
      BY TemplateSized, PacketsAndBar DEF Template, WellSized
    <3> QED
      BY <3>1 DEF ChosenBody, ChosenPart, Template
  <2> DEFINE m == i + 17
  <2>2. m \in 17..23 /\ m - 17 = i /\ m + 2 = i + 19
    OBVIOUS
  <2> HIDE DEF m, body, pack
  <2>3. outfit[m].id = body[i] /\ outfit[m].slot = i + 19
    BY <2>2, OutfitOf
  <2>4. m \in 1..23
    BY <2>2
  <2> QED
    BY <1>2, <2>1, <2>3, <2>4
<1>4. ASSUME NEW row \in Range(db.packs), NEW f \in EquipFields,
             IsInjective([i \in DOMAIN db.packs |-> AbilityKey(db.packs[i])]),
             row.ability = asked.ability,
             asked.ability \notin Column(db.supplies, AbilityKey)
      PROVE  Id0(SlotOf[f]) = Made(EquipPack(row)[f].id)
  <2>1. PICK i \in DOMAIN db.packs : db.packs[i] = row
    BY DEF Range
  <2>2. asked.ability \in 0..255 /\ GearFits(asked.ability) /\ db \in Databases
    BY PacketsAndBar DEF GearLoaded, InOrder
  <2>3. pack = EquipPack(row)
    BY <1>4, <2>1, <2>2, PackOfRow
  <2>4. EquipPack(row)[f].id \in Nat
    BY <2>2, PackPieces
  <2>5. PICK m \in 1..16 : EquipOrder[m] = f
    BY EveryFieldEquipped
  <2> HIDE DEF body, pack
  <2>6. outfit[m].id = pack[f].id /\ outfit[m].slot = SlotOf[f] /\ m \in 1..23
    BY <2>5, OutfitOf
  <2> QED
    BY <1>2, <2>3, <2>4, <2>6
<1> QED
  BY <1>3, <1>4
\* Wears holds of a character for as long as its slots show the same ids.
LEMMA WearsAfter ==
    ASSUME InOrder, phase = 9, [Next]_newCharacterVars, NEW hero,
           \A i \in 0..6 : WornId(hero, i + 19)' = Made(ChosenPart(hero.asked, i)),
           \A row \in Range(db.packs), f \in EquipFields :
              /\ IsInjective([i \in DOMAIN db.packs |-> AbilityKey(db.packs[i])])
              /\ row.ability = hero.asked.ability
              /\ hero.asked.ability \notin Column(db.supplies, AbilityKey)
              => WornId(hero, SlotOf[f])' = Made(EquipPack(row)[f].id)
    PROVE  Wears(hero)'
<1>1. /\ db' = db /\ m_ItemTemplates' = m_ItemTemplates
      /\ \A asked, i : ChosenPart(asked, i)' = ChosenPart(asked, i)
  BY WearsOnlyOnItems
<1>2. \A id : Made(id)' = Made(id)
  BY <1>1 DEF Made, IsItem
<1>3. \A row : EquipPack(row)' = EquipPack(row)
  BY <1>1 DEF EquipPack
<1>4. \A i \in 0..6 : WornId(hero, i + 19)' = Made(ChosenPart(hero.asked, i))'
  <2> TAKE i \in 0..6
  <2>1. PICK part : part = ChosenPart(hero.asked, i)
    OBVIOUS
  <2>2. part = ChosenPart(hero.asked, i)'
    BY <1>1, <2>1
  <2>3. Made(part)' = Made(part)
    BY <1>2
  <2>4. Made(part)' = Made(ChosenPart(hero.asked, i))'
    BY <2>2 DEF Made
  <2> QED
    BY <2>1, <2>3, <2>4
<1>5. ASSUME NEW row \in Range(db.packs), NEW f \in EquipFields
      PROVE  Made(EquipPack(row)[f].id)' = Made(EquipPack(row)[f].id)
  <2>1. PICK pack : pack = EquipPack(row)
    OBVIOUS
  <2>2. pack = EquipPack(row)'
    BY <1>3, <2>1
  <2>3. Made(pack[f].id)' = Made(pack[f].id)
    BY <1>2
  <2>4. Made(pack[f].id)' = Made(EquipPack(row)[f].id)'
    BY <2>2 DEF Made
  <2> QED
    BY <2>1, <2>3, <2>4
<1> QED
  BY <1>1, <1>4, <1>5 DEF Wears

\* Whatever is asked and whatever the tables and the uninitialised packs hold: no
\* piece of a pack or part of the body displaces another, in any later state.
THEOREM AlwaysWornAsChosen == Spec => []WornAsChosen
<1> DEFINE Inv == \A n \in DOMAIN heroes : Wears(heroes[n])
<1>1. Init => Inv
  BY DEF Init
<1>2. /\ InOrder /\ TemplatesLoaded /\ GearLoaded /\ CharactersFit /\ Inv
      /\ [Next]_newCharacterVars
      => Inv'
  <2> SUFFICES ASSUME InOrder, TemplatesLoaded, GearLoaded, CharactersFit, Inv,
                      [Next]_newCharacterVars, NEW n \in DOMAIN heroes'
               PROVE  Wears(heroes[n])'
    OBVIOUS
  <2>1. \/ items' = items
        \/ CreateCharacter /\ Grown(items, items')
    BY OthersLeaveCharacters, CreateAdds
  <2>2. \A e \in 1..Len(items) : items'[e] = items[e]
    BY <2>1 DEF Grown
  <2>3. CASE n \in DOMAIN heroes /\ heroes'[n] = heroes[n]
    <3>1. phase = 9
      BY <2>3 DEF InOrder
    <3>2. PICK hero : hero = heroes[n]
      OBVIOUS
    <3>3. Wears(hero)
      BY <2>3, <3>2
    <3>4. \A s \in 0..27 : WornId(hero, s)' = WornId(hero, s)
      <4>1. n \in 1..Len(heroes)
        BY <2>3, SequenceDomain DEF CharactersFit
      <4>2. HeroFits(hero, Len(items))
        BY <3>2, <4>1 DEF CharactersFit
      <4>3. \A s \in 0..27 : hero.equipped[s] = NoItem \/ hero.equipped[s] \in 1..Len(items)
        <5>1. Len(items) \in Nat
          BY SequenceDomain DEF CharactersFit
        <5>2. DOMAIN hero.equipped = 0..27 /\ Refers(hero.equipped, Len(items))
          BY <4>2 DEF HeroFits
        <5> DEFINE worn == hero.equipped
                   k == Len(items)
        <5>3. k \in Nat /\ DOMAIN worn = 0..27 /\ Refers(worn, k)
          BY <5>1, <5>2
        <5> HIDE DEF worn, k
        <5>4. \A s \in 0..27 : worn[s] = NoItem \/ worn[s] \in 1..k
          BY <5>3 DEF Refers, NoItem
        <5> QED
          BY <5>4 DEF worn, k
      <4> QED
        BY <2>2, <4>3 DEF WornId
    <3>5. \A i \in 0..6 : WornId(hero, i + 19)' = Made(ChosenPart(hero.asked, i))
      <4>1. \A i \in 0..6 : i + 19 \in 0..27
        OBVIOUS
      <4> QED
        BY <3>3, <3>4, <4>1 DEF Wears
    <3>6. \A row \in Range(db.packs), f \in EquipFields :
             /\ IsInjective([i \in DOMAIN db.packs |-> AbilityKey(db.packs[i])])
             /\ row.ability = hero.asked.ability
             /\ hero.asked.ability \notin Column(db.supplies, AbilityKey)
             => WornId(hero, SlotOf[f])' = Made(EquipPack(row)[f].id)
      BY <3>3, <3>4, SlotsWorn DEF Wears
    <3>7. Wears(hero)'
      BY <3>1, <3>5, <3>6, WearsAfter
    <3>8. Wears(hero)' = Wears(heroes[n])'
      BY <2>3, <3>2 DEF Wears, WornId
    <3> QED
      BY <3>7, <3>8
  <2>4. CASE ~(n \in DOMAIN heroes /\ heroes'[n] = heroes[n])
    <3>1. CreateCharacter
      BY <2>4, OthersLeaveCharacters
    <3>2. phase = 9
      BY <3>1, HandlersKeep
    <3>a. PICK asked, hero :
             /\ asked \in Requests
             /\ heroes' = Append(heroes, hero)
             /\ hero.asked = asked
             /\ HeroFits(hero, Len(items'))
             /\ \E l \in Nat :
                   /\ Apart(Len(items), l, hero.equipped)
                   /\ \E made :
                         /\ Worn(Outfit(GearOf(asked.ability).pack,
                                 ChosenBody(asked.body, Template(asked))), 23, made)
                         /\ made.equipped = hero.equipped
                         /\ \A e \in 1..l : items'[e] = made.items[e]
      <4> HIDE DEF Worn, Outfit, GearOf, ChosenBody, Apart
      <4> QED
        BY <3>1, CreateAdds
    <3>b. PICK l \in Nat :
             /\ Apart(Len(items), l, hero.equipped)
             /\ \E made :
                   /\ Worn(Outfit(GearOf(asked.ability).pack,
                           ChosenBody(asked.body, Template(asked))), 23, made)
                   /\ made.equipped = hero.equipped
                   /\ \A e \in 1..l : items'[e] = made.items[e]
      BY <3>a, Zenon
    <3>c. PICK made :
             /\ Worn(Outfit(GearOf(asked.ability).pack,
                     ChosenBody(asked.body, Template(asked))), 23, made)
             /\ made.equipped = hero.equipped
             /\ \A e \in 1..l : items'[e] = made.items[e]
      BY <3>b, Zenon
    <3>3. /\ heroes' = Append(heroes, hero)
          /\ hero.asked = asked
          /\ HeroFits(hero, Len(items'))
          /\ Apart(Len(items), l, hero.equipped)
          /\ Worn(Outfit(GearOf(asked.ability).pack,
                  ChosenBody(asked.body, Template(asked))), 23, made)
          /\ made.equipped = hero.equipped
          /\ \A e \in 1..l : items'[e] = made.items[e]
      BY <3>a, <3>b, <3>c, Zenon
    <3> DEFINE Id0(s) == IdIn(made.items, hero.equipped, s)
    <3>4. \A s \in 0..27 : WornId(hero, s)' = Id0(s)
      <4>1. Len(items) \in Nat
        BY SequenceDomain DEF CharactersFit
      <4>2. \A s \in 0..27 : hero.equipped[s] = NoItem \/ hero.equipped[s] \in 1..l
        <5> DEFINE worn == hero.equipped
                   k == Len(items)
        <5>1. k \in Nat /\ l \in Nat /\ DOMAIN worn = 0..27 /\ Apart(k, l, worn)
          BY <3>3, <4>1 DEF HeroFits
        <5> HIDE DEF worn, k
        <5>2. \A s \in 0..27 : worn[s] = NoItem \/ worn[s] \in 1..l
          BY <5>1 DEF Apart, NoItem
        <5> QED
          BY <5>2 DEF worn
      <4> QED
        BY <3>3, <4>2 DEF WornId, IdIn
    <3>5. /\ \A i \in 0..6 : Id0(i + 19) = Made(ChosenPart(asked, i))
          /\ \A row \in Range(db.packs), f \in EquipFields :
                /\ IsInjective([i \in DOMAIN db.packs |-> AbilityKey(db.packs[i])])
                /\ row.ability = asked.ability
                /\ asked.ability \notin Column(db.supplies, AbilityKey)
                => Id0(SlotOf[f]) = Made(EquipPack(row)[f].id)
      <4>1. /\ hero.asked = asked /\ made.equipped = hero.equipped
            /\ Worn(Outfit(GearOf(asked.ability).pack,
                    ChosenBody(asked.body, Template(asked))), 23, made)
        BY <3>3
      <4> QED
        BY <3>2, <3>a, <4>1, WearsNow, Zenon
    <3> HIDE DEF Id0
    <3>6. Wears(hero)'
      <4>1. \A i \in 0..6 : WornId(hero, i + 19)' = Made(ChosenPart(hero.asked, i))
        <5>1. \A i \in 0..6 : i + 19 \in 0..27
          OBVIOUS
        <5> QED
          BY <3>3, <3>4, <3>5, <5>1
      <4>2. \A row \in Range(db.packs), f \in EquipFields :
               /\ IsInjective([i \in DOMAIN db.packs |-> AbilityKey(db.packs[i])])
               /\ row.ability = hero.asked.ability
               /\ hero.asked.ability \notin Column(db.supplies, AbilityKey)
               => WornId(hero, SlotOf[f])' = Made(EquipPack(row)[f].id)
        BY <3>3, <3>4, <3>5, SlotsWorn
      <4> QED
        BY <3>2, <4>1, <4>2, WearsAfter
    <3>7. heroes'[n] = hero
      BY <2>4, <3>3, HeroesSoFar
    <3> QED
      BY <3>6, <3>7 DEF Wears, WornId
  <2> QED
    BY <2>3, <2>4
<1>3. Inv => WornAsChosen
  BY DEF WornAsChosen, Wears, ChosenPart
<1> HIDE DEF Inv
<1> QED
  BY <1>1, <1>2, <1>3, InOrderAlways, TemplatesAlwaysLoaded, GearAlwaysLoaded,
     CharactersAlwaysFit, PTL DEF Spec

-----------------------------------------------------------------------------
(* Every item is in one place. *)

\* The slots, a row of them for every character, that refer to an item.
Places(rows, width, e) ==
    {p \in (DOMAIN rows) \X (0..width) : p[2] \in DOMAIN rows[p[1]] /\ rows[p[1]][p[2]] = e}

\* A further row that does not refer to the item changes nothing for it.
LEMMA PlacesKept ==
    ASSUME NEW rows, NEW more, NEW N \in Nat, NEW width \in Nat, NEW e,
           DOMAIN rows = 1..N, DOMAIN more = 1..(N + 1),
           \A n \in 1..N : more[n] = rows[n],
           ~InSlot(e, more[N + 1])
    PROVE  Places(more, width, e) = Places(rows, width, e)
<1>1. ASSUME NEW p \in (1..(N + 1)) \X (0..width),
             p[2] \in DOMAIN more[p[1]], more[p[1]][p[2]] = e
      PROVE  p \in (1..N) \X (0..width) /\ p[2] \in DOMAIN rows[p[1]] /\ rows[p[1]][p[2]] = e
  <2>1. PICK n \in 1..(N + 1), s \in 0..width : p = <<n, s>>
    OBVIOUS
  <2>2. n # N + 1
    BY <1>1, <2>1 DEF InSlot
  <2>3. n \in 1..N
    BY <2>2
  <2> QED
    BY <1>1, <2>1, <2>3
<1>2. ASSUME NEW p \in (1..N) \X (0..width),
             p[2] \in DOMAIN rows[p[1]], rows[p[1]][p[2]] = e
      PROVE  p \in (1..(N + 1)) \X (0..width) /\ p[2] \in DOMAIN more[p[1]] /\ more[p[1]][p[2]] = e
  <2>1. PICK n \in 1..N, s \in 0..width : p = <<n, s>>
    OBVIOUS
  <2>2. n \in 1..(N + 1)
    OBVIOUS
  <2> QED
    BY <1>2, <2>1, <2>2
<1> QED
  BY <1>1, <1>2 DEF Places

\* What only the last row refers to, and it once, is in that one place.
LEMMA PlacesOfNew ==
    ASSUME NEW more, NEW N \in Nat, NEW width \in Nat, NEW e,
           DOMAIN more = 1..(N + 1),
           \A n \in 1..N : ~InSlot(e, more[n]),
           DOMAIN more[N + 1] \subseteq 0..width,
           \A s, t \in DOMAIN more[N + 1] :
              more[N + 1][s] = e /\ more[N + 1][t] = e => s = t
    PROVE  /\ ~InSlot(e, more[N + 1]) => Places(more, width, e) = {}
           /\ InSlot(e, more[N + 1]) => \E p : Places(more, width, e) = {p}
<1>1. ASSUME NEW p \in Places(more, width, e)
      PROVE  \E s \in DOMAIN more[N + 1] : p = <<N + 1, s>> /\ more[N + 1][s] = e
  <2>1. PICK n \in 1..(N + 1), s \in 0..width :
           p = <<n, s>> /\ s \in DOMAIN more[n] /\ more[n][s] = e
    BY <1>1 DEF Places
  <2>2. n = N + 1
    BY <2>1 DEF InSlot
  <2> QED
    BY <2>1, <2>2
<1>2. ASSUME NEW s \in DOMAIN more[N + 1], more[N + 1][s] = e
      PROVE  Places(more, width, e) = {<<N + 1, s>>}
  <2>1. N + 1 \in 1..(N + 1) /\ s \in 0..width
    OBVIOUS
  <2>2. <<N + 1, s>> \in Places(more, width, e)
    BY <1>2, <2>1 DEF Places
  <2>3. \A p \in Places(more, width, e) : p = <<N + 1, s>>
    BY <1>1, <1>2
  <2> QED
    BY <2>2, <2>3
<1> QED
  BY <1>1, <1>2 DEF InSlot

BagRows == [n \in DOMAIN heroes |-> heroes[n].bag]
BodyRows == [n \in DOMAIN heroes |-> heroes[n].equipped]
\* ItemsHeldOnce of one item.
HeldOnce(e) ==
    \/ Cardinality(Places(BagRows, 255, e)) + Cardinality(Places(BodyRows, 27, e)) = 1
    \/ /\ Places(BagRows, 255, e) = {} /\ Places(BodyRows, 27, e) = {}
       /\ \E n \in DOMAIN heroes : FreeSlots(heroes[n].bag) = {}

LEMMA HeldOnceEach ==
    ASSUME CharactersFit
    PROVE  (\A e \in DOMAIN items : HeldOnce(e)) <=> ItemsHeldOnce
<1>1. DOMAIN heroes = 1..Len(heroes)
  BY SequenceDomain DEF CharactersFit
<1>2. \A n \in DOMAIN heroes : DOMAIN heroes[n].equipped = 0..27
  BY <1>1 DEF CharactersFit, HeroFits
<1>3. ASSUME NEW e
      PROVE  Places(BagRows, 255, e) =
                {p \in (DOMAIN heroes) \X (0..255) :
                   LET bag == heroes[p[1]].bag IN p[2] \in DOMAIN bag /\ bag[p[2]] = e}
  BY DEF Places, BagRows
<1>4. ASSUME NEW e
      PROVE  Places(BodyRows, 27, e) =
                {p \in (DOMAIN heroes) \X (0..27) : heroes[p[1]].equipped[p[2]] = e}
  BY <1>2 DEF Places, BodyRows
<1>5. ASSUME NEW e \in DOMAIN items
      PROVE  HeldOnce(e) <=>
                LET bags == {p \in (DOMAIN heroes) \X (0..255) :
                               LET bag == heroes[p[1]].bag
                               IN  p[2] \in DOMAIN bag /\ bag[p[2]] = e}
                    bodies == {p \in (DOMAIN heroes) \X (0..27) :
                                 heroes[p[1]].equipped[p[2]] = e}
                IN  \/ Cardinality(bags) + Cardinality(bodies) = 1
                    \/ /\ bags = {} /\ bodies = {}
                       /\ \E n \in DOMAIN heroes : FreeSlots(heroes[n].bag) = {}
  <2> DEFINE bags == {p \in (DOMAIN heroes) \X (0..255) :
                        LET bag == heroes[p[1]].bag IN p[2] \in DOMAIN bag /\ bag[p[2]] = e}
             bodies == {p \in (DOMAIN heroes) \X (0..27) :
                          heroes[p[1]].equipped[p[2]] = e}
  <2>1. Places(BagRows, 255, e) = bags /\ Places(BodyRows, 27, e) = bodies
    BY <1>3, <1>4
  <2> HIDE DEF bags, bodies
  <2>2. HeldOnce(e) <=>
           \/ Cardinality(bags) + Cardinality(bodies) = 1
           \/ /\ bags = {} /\ bodies = {}
              /\ \E n \in DOMAIN heroes : FreeSlots(heroes[n].bag) = {}
    BY <2>1 DEF HeldOnce
  <2> QED
    BY <2>2 DEF bags, bodies
<1> QED
  BY <1>5, Zenon DEF ItemsHeldOnce

\* Every item of the world is worn or carried in exactly one slot of one character,
\* or was lost to a bag that is full: however many characters are created.
THEOREM ItemsAlwaysHeldOnce == Spec => []ItemsHeldOnce
<1> DEFINE Inv == \A e \in DOMAIN items : HeldOnce(e)
<1>1. Init => Inv
  BY DEF Init
<1>2. /\ InOrder /\ TemplatesLoaded /\ GearLoaded /\ CharactersFit /\ CharactersFit' /\ Inv
      /\ [Next]_newCharacterVars
      => Inv'
  <2> SUFFICES ASSUME InOrder, TemplatesLoaded, GearLoaded, CharactersFit, CharactersFit',
                      Inv, [Next]_newCharacterVars
               PROVE  Inv'
    OBVIOUS
  <2>1. CASE ~CreateCharacter
    <3>1. items' = items /\ heroes' = heroes
      BY <2>1, OthersLeaveCharacters
    <3> QED
      BY <3>1 DEF HeldOnce, BagRows, BodyRows
  <2>2. CASE CreateCharacter
    <3>1. PICK hero :
             /\ heroes' = Append(heroes, hero)
             /\ Grown(items, items')
             /\ HeroFits(hero, Len(items'))
             /\ \E l \in Nat :
                   /\ Len(items) <= l /\ l <= Len(items')
                   /\ Apart(Len(items), l, hero.equipped)
                   /\ Stored(Len(items), l, hero.equipped)
                   /\ Apart(l, Len(items'), hero.bag)
                   /\ FreeSlots(hero.bag) = {} \/ Stored(l, Len(items'), hero.bag)
      BY <2>2, CreateAdds
    <3>2. PICK l \in Nat :
             /\ Len(items) <= l /\ l <= Len(items')
             /\ Apart(Len(items), l, hero.equipped)
             /\ Stored(Len(items), l, hero.equipped)
             /\ Apart(l, Len(items'), hero.bag)
             /\ FreeSlots(hero.bag) = {} \/ Stored(l, Len(items'), hero.bag)
      BY <3>1, Zenon
    <3> DEFINE k == Len(items)
               m == Len(items')
               N == Len(heroes)
               bags == BagRows'
               bodies == BodyRows'
    <3>3. k \in Nat /\ m \in Nat /\ N \in Nat /\ DOMAIN items = 1..k /\ DOMAIN items' = 1..m
          /\ DOMAIN heroes = 1..N
      BY SequenceDomain DEF CharactersFit
    <3>4. /\ DOMAIN heroes' = 1..(N + 1)
          /\ \A n \in 1..N : heroes'[n] = heroes[n]
          /\ heroes'[N + 1] = hero
      BY <3>1, AppendedSequence DEF CharactersFit
    <3>5. /\ DOMAIN BagRows = 1..N /\ DOMAIN BodyRows = 1..N
          /\ DOMAIN bags = 1..(N + 1) /\ DOMAIN bodies = 1..(N + 1)
          /\ \A n \in 1..N : /\ BagRows[n] = heroes[n].bag /\ bags[n] = heroes[n].bag
                             /\ BodyRows[n] = heroes[n].equipped
                             /\ bodies[n] = heroes[n].equipped
          /\ bags[N + 1] = hero.bag /\ bodies[N + 1] = hero.equipped
      BY <3>3, <3>4 DEF BagRows, BodyRows
    <3>6. /\ \A n \in 1..N : /\ Refers(heroes[n].bag, k) /\ Refers(heroes[n].equipped, k)
          /\ DOMAIN hero.bag \subseteq 0..255 /\ DOMAIN hero.equipped \subseteq 0..27
      <4>1. \E size \in 0..255 : DOMAIN hero.bag = 0..size - 1
        BY <3>1 DEF HeroFits
      <4>2. DOMAIN hero.bag \subseteq 0..255
        BY <4>1
      <4> QED
        BY <3>1, <3>3, <4>2 DEF CharactersFit, HeroFits
    <3>7. k <= l /\ l <= m
          /\ Apart(k, l, hero.equipped) /\ Stored(k, l, hero.equipped)
          /\ Apart(l, m, hero.bag)
          /\ (FreeSlots(hero.bag) = {} \/ Stored(l, m, hero.bag))
      BY <3>2
    <3> HIDE DEF k, m, N, bags, bodies
    <3> SUFFICES ASSUME NEW e \in DOMAIN items' PROVE HeldOnce(e)'
      OBVIOUS
    <3>8. e \in 1..m
      BY <3>3
    <3>9. CASE e <= k
      <4>1. ~InSlot(e, hero.bag) /\ ~InSlot(e, hero.equipped)
        BY <3>3, <3>7, <3>8, <3>9 DEF InSlot, Apart, NoItem
      <4>2. /\ Places(bags, 255, e) = Places(BagRows, 255, e)
            /\ Places(bodies, 27, e) = Places(BodyRows, 27, e)
        <5>1. /\ DOMAIN bags = 1..(N + 1) /\ DOMAIN BagRows = 1..N
              /\ \A n \in 1..N : bags[n] = BagRows[n]
              /\ ~InSlot(e, bags[N + 1])
          BY <3>5, <4>1
        <5>2. /\ DOMAIN bodies = 1..(N + 1) /\ DOMAIN BodyRows = 1..N
              /\ \A n \in 1..N : bodies[n] = BodyRows[n]
              /\ ~InSlot(e, bodies[N + 1])
          BY <3>5, <4>1
        <5>3. N \in Nat /\ 255 \in Nat /\ 27 \in Nat
          BY <3>3
        <5>4. Places(bags, 255, e) = Places(BagRows, 255, e)
          BY <5>1, <5>3, PlacesKept, SMT
        <5>5. Places(bodies, 27, e) = Places(BodyRows, 27, e)
          BY <5>2, <5>3, PlacesKept, SMT
        <5> QED
          BY <5>4, <5>5
      <4>3. HeldOnce(e)
        BY <3>3, <3>8, <3>9
      <4>4. (\E n \in DOMAIN heroes : FreeSlots(heroes[n].bag) = {})
            => \E n \in DOMAIN heroes' : FreeSlots(heroes'[n].bag) = {}
        <5> SUFFICES ASSUME NEW n \in DOMAIN heroes, FreeSlots(heroes[n].bag) = {}
                     PROVE  n \in DOMAIN heroes' /\ FreeSlots(heroes'[n].bag) = {}
          BY Zenon
        <5>1. n \in 1..N /\ n \in 1..(N + 1)
          BY <3>3
        <5> QED
          BY <3>4, <5>1
      <4>5. /\ Places(BagRows', 255, e) = Places(BagRows, 255, e)
            /\ Places(BodyRows', 27, e) = Places(BodyRows, 27, e)
        BY <4>2 DEF bags, bodies
      <4> QED
        BY <4>3, <4>4, <4>5 DEF HeldOnce, FreeSlots
    <3>10. CASE e > k
      <4>1. \A n \in 1..N : ~InSlot(e, bags[n]) /\ ~InSlot(e, bodies[n])
        BY <3>3, <3>5, <3>6, <3>8, <3>10 DEF InSlot, Refers
      <4>2. /\ ~InSlot(e, hero.bag) => Places(bags, 255, e) = {}
            /\ InSlot(e, hero.bag) => \E p : Places(bags, 255, e) = {p}
        <5>1. \A s, t \in DOMAIN hero.bag : hero.bag[s] = e /\ hero.bag[t] = e => s = t
          BY <3>7, <3>8 DEF Apart, NoItem
        <5>2. /\ DOMAIN bags = 1..(N + 1)
              /\ \A n \in 1..N : ~InSlot(e, bags[n])
              /\ DOMAIN bags[N + 1] \subseteq 0..255
              /\ bags[N + 1] = hero.bag
          BY <3>5, <3>6, <4>1
        <5>3. \A s, t \in DOMAIN bags[N + 1] :
                 bags[N + 1][s] = e /\ bags[N + 1][t] = e => s = t
          BY <5>1, <5>2
        <5>4. N \in Nat /\ 255 \in Nat
          BY <3>3
        <5>5. /\ ~InSlot(e, bags[N + 1]) => Places(bags, 255, e) = {}
              /\ InSlot(e, bags[N + 1]) => \E p : Places(bags, 255, e) = {p}
          BY <5>2, <5>3, <5>4, PlacesOfNew, Zenon
        <5> QED
          BY <5>2, <5>5
      <4>3. /\ ~InSlot(e, hero.equipped) => Places(bodies, 27, e) = {}
            /\ InSlot(e, hero.equipped) => \E p : Places(bodies, 27, e) = {p}
        <5>1. \A s, t \in DOMAIN hero.equipped :
                 hero.equipped[s] = e /\ hero.equipped[t] = e => s = t
          BY <3>7, <3>8 DEF Apart, NoItem
        <5>2. /\ DOMAIN bodies = 1..(N + 1)
              /\ \A n \in 1..N : ~InSlot(e, bodies[n])
              /\ DOMAIN bodies[N + 1] \subseteq 0..27
              /\ bodies[N + 1] = hero.equipped
          BY <3>5, <3>6, <4>1
        <5>3. \A s, t \in DOMAIN bodies[N + 1] :
                 bodies[N + 1][s] = e /\ bodies[N + 1][t] = e => s = t
          BY <5>1, <5>2
        <5>4. N \in Nat /\ 27 \in Nat
          BY <3>3
        <5>5. /\ ~InSlot(e, bodies[N + 1]) => Places(bodies, 27, e) = {}
              /\ InSlot(e, bodies[N + 1]) => \E p : Places(bodies, 27, e) = {p}
          BY <5>2, <5>3, <5>4, PlacesOfNew, Zenon
        <5> QED
          BY <5>2, <5>5
      <4>4. CASE e <= l
        <5>1. InSlot(e, hero.equipped)
          BY <3>3, <3>7, <3>8, <3>10, <4>4 DEF Stored
        <5>2. ~InSlot(e, hero.bag)
          BY <3>3, <3>7, <3>8, <4>4 DEF Apart, InSlot, NoItem
        <5>3. Cardinality(Places(bags, 255, e)) + Cardinality(Places(bodies, 27, e)) = 1
          BY <4>2, <4>3, <5>1, <5>2, FS_EmptySet, FS_Singleton
        <5> QED
          BY <5>3 DEF HeldOnce, bags, bodies
      <4>5. CASE e > l
        <5>1. ~InSlot(e, hero.equipped)
          BY <3>3, <3>7, <3>8, <4>5 DEF Apart, InSlot, NoItem
        <5>2. CASE InSlot(e, hero.bag)
          <6>1. Cardinality(Places(bags, 255, e)) + Cardinality(Places(bodies, 27, e)) = 1
            <7>1. PICK p : Places(bags, 255, e) = {p}
              BY <4>2, <5>2
            <7>2. Places(bodies, 27, e) = {}
              BY <4>3, <5>1
            <7>3. Cardinality({p}) = 1 /\ Cardinality({}) = 0
              BY FS_EmptySet, FS_Singleton
            <7> QED
              BY <7>1, <7>2, <7>3
          <6> QED
            BY <6>1 DEF HeldOnce, bags, bodies
        <5>3. CASE ~InSlot(e, hero.bag)
          <6>1. FreeSlots(hero.bag) = {}
            BY <3>3, <3>7, <3>8, <4>5, <5>3 DEF Stored
          <6>2. \E n \in DOMAIN heroes' : FreeSlots(heroes'[n].bag) = {}
            BY <3>3, <3>4, <6>1
          <6>3. Places(bags, 255, e) = {} /\ Places(bodies, 27, e) = {}
            BY <4>2, <4>3, <5>1, <5>3
          <6> QED
            BY <6>2, <6>3 DEF HeldOnce, bags, bodies, FreeSlots
        <5> QED
          BY <5>2, <5>3
      <4> QED
        BY <3>3, <3>8, <4>4, <4>5
    <3> QED
      BY <3>3, <3>8, <3>9, <3>10
  <2> QED
    BY <2>1, <2>2
<1>3. CharactersFit /\ Inv => ItemsHeldOnce
  BY HeldOnceEach
<1> HIDE DEF Inv
<1> QED
  BY <1>1, <1>2, <1>3, InOrderAlways, TemplatesAlwaysLoaded, GearAlwaysLoaded,
     CharactersAlwaysFit, PTL DEF Spec

=============================================================================
