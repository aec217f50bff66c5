----------------------------- MODULE HoleProofs -----------------------------
(***************************************************************************)
(* PunchedFile, for every block size and every set of file sizes: where    *)
(* the holes lie, that they are disjoint until a truncation, that the walk *)
(* of a truncation ends, and how many punches a file of some size has.     *)
(***************************************************************************)
EXTENDS PunchedFile, NatRecursion

Slots == [start : Nat, end : Nat]
FirstSlot(z) == [start |-> 0, end |-> z \div 2]
Length(s) == s.end - s.start

\* Slots start where they do and are half as long each time.
Shaped(z, s) == s \in Slots /\ s.start <= s.end /\ s.end + Length(s) <= z

-----------------------------------------------------------------------------
\* The recursion that defines the slots of a file is well-founded, so that it
\* may be unfolded.
LEMMA SlotEquations ==
  ASSUME NEW z \in Nat
  PROVE  /\ Slot(z, 0) = FirstSlot(z)
         /\ \A k \in Nat : Slot(z, k + 1) = NextSlot(Slot(z, k))
<1> DEFINE V == [start : Int, end : Int]
           step == [s \in V |-> NextSlot(s)]
           Def(f) == [i \in Nat |-> IF i = 0 THEN [start |-> 0, end |-> z \div 2] ELSE NextSlot(f[i - 1])]
           slot == CHOOSE f : f = Def(f)
<1>1. FirstSlot(z) \in V /\ step \in [V -> V]
  BY DEF FirstSlot, NextSlot
<1>2. \A s \in V : step[s] = NextSlot(s)
  OBVIOUS
<1>3. PICK f \in [Nat -> V] : f[0] = FirstSlot(z) /\ \A n \in Nat : f[n + 1] = step[f[n]]
  <2> DEFINE P(W, a, r) ==
        \E g \in [Nat -> W] : g[0] = a /\ \A n \in Nat : g[n + 1] = r[g[n]]
  <2>1. ASSUME NEW W, NEW a \in W, NEW r \in [W -> W] PROVE P(W, a, r)
    BY RecursiveFunction, SMT
  <2> HIDE DEF P, V, step
  <2>2. P(V, FirstSlot(z), step)
    BY <1>1, <2>1, Zenon
  <2> QED BY <2>2 DEF P
<1>4. f = Def(f)
  <2>1. ASSUME NEW i \in Nat PROVE f[i] = IF i = 0 THEN FirstSlot(z) ELSE NextSlot(f[i - 1])
    <3>1. CASE i = 0
      BY <1>3, <3>1
    <3>2. CASE i # 0
      <4>1. i - 1 \in Nat /\ (i - 1) + 1 = i
        BY <3>2
      <4>2. f[(i - 1) + 1] = step[f[i - 1]] /\ f[i - 1] \in V
        BY <1>3, <4>1
      <4>3. f[i] = NextSlot(f[i - 1])
        BY <1>2, <4>1, <4>2, Zenon
      <4> QED BY <3>2, <4>3
    <3> QED BY <3>1, <3>2
  <2> QED BY <1>3, <2>1 DEF FirstSlot
<1>5. slot = Def(slot)
  <2>1. \E g : g = Def(g)
    BY <1>4
  <2> QED BY <2>1, Zenon
<1>6. \A k \in Nat : Slot(z, k) = slot[k]
  BY DEF Slot
<1> HIDE DEF slot
<1>7. slot[0] = FirstSlot(z)
  BY <1>5 DEF FirstSlot
<1>8. ASSUME NEW k \in Nat PROVE slot[k + 1] = NextSlot(slot[k])
  <2>1. slot[k + 1] = IF k + 1 = 0 THEN FirstSlot(z) ELSE NextSlot(slot[(k + 1) - 1])
    BY <1>5 DEF FirstSlot
  <2>2. k + 1 # 0 /\ (k + 1) - 1 = k
    OBVIOUS
  <2> QED BY <2>1, <2>2
<1> QED BY <1>6, <1>7, <1>8

\* The next slot of a well-shaped one is well-shaped and at most half as long.
LEMMA NextSlotShape ==
  ASSUME NEW z \in Nat, NEW s, Shaped(z, s)
  PROVE  Shaped(z, NextSlot(s)) /\ 2 * Length(NextSlot(s)) <= Length(s)
<1>1. s.start \in Nat /\ s.end \in Nat /\ s.start <= s.end /\ s.end + (s.end - s.start) <= z
  BY DEF Shaped, Slots, Length
<1> DEFINE l == s.end - s.start
           h == l \div 2
<1>2. h \in Nat /\ 2 * h <= l
  BY <1>1
<1>3. NextSlot(s) = [start |-> s.end, end |-> s.end + h]
  BY DEF NextSlot
<1> HIDE DEF h
<1>4. NextSlot(s).start = s.end /\ NextSlot(s).end = s.end + h
  BY <1>3
<1>5. NextSlot(s) \in Slots
  BY <1>1, <1>2, <1>3 DEF Slots
<1> QED BY <1>1, <1>2, <1>4, <1>5 DEF Shaped, Length

\* Every slot lies in the file, with its own length left behind it.
LEMMA SlotShape ==
  ASSUME NEW z \in Nat
  PROVE  \A k \in Nat : Shaped(z, Slot(z, k))
<1> DEFINE S == {k \in Nat : Shaped(z, Slot(z, k))}
<1>1. 0 \in S
  <2>1. Shaped(z, FirstSlot(z))
    BY DEF Shaped, Slots, FirstSlot, Length
  <2> QED BY <2>1, SlotEquations
<1>2. ASSUME NEW k \in Nat, k \in S PROVE k + 1 \in S
  <2>1. Shaped(z, NextSlot(Slot(z, k)))
    BY <1>2, NextSlotShape
  <2> QED BY <2>1, SlotEquations
<1>3. Nat \subseteq S
  <2> HIDE DEF S
  <2> QED BY <1>1, <1>2, Induction
<1> QED BY <1>3

\* A slot starts where the one before it ends.
LEMMA SlotsInOrder ==
  ASSUME NEW z \in Nat, NEW k \in Nat
  PROVE  /\ Slot(z, k + 1).start = Slot(z, k).end
         /\ 2 * Length(Slot(z, k + 1)) <= Length(Slot(z, k))
<1>1. Slot(z, k + 1) = NextSlot(Slot(z, k)) /\ Shaped(z, Slot(z, k))
  BY SlotEquations, SlotShape
<1>2. NextSlot(Slot(z, k)).start = Slot(z, k).end
  BY DEF NextSlot
<1> QED BY <1>1, <1>2, NextSlotShape

\* In a larger file a slot starts no earlier and is no shorter.
LEMMA SlotGrows ==
  ASSUME NEW y \in Nat, NEW z \in Nat, y <= z
  PROVE  \A k \in Nat : Slot(y, k).start <= Slot(z, k).start
<1> DEFINE S == {k \in Nat : /\ Slot(y, k).start <= Slot(z, k).start
                             /\ Length(Slot(y, k)) <= Length(Slot(z, k))}
<1>1. 0 \in S
  <2>1. FirstSlot(y).start <= FirstSlot(z).start /\ Length(FirstSlot(y)) <= Length(FirstSlot(z))
    BY DEF FirstSlot, Length
  <2> QED BY <2>1, SlotEquations
<1>2. ASSUME NEW k \in Nat, k \in S PROVE k + 1 \in S
  <2> DEFINE s == Slot(y, k)
             t == Slot(z, k)
  <2>1. Shaped(y, s) /\ Shaped(z, t)
    BY SlotShape
  <2>2. Slot(y, k + 1) = NextSlot(s) /\ Slot(z, k + 1) = NextSlot(t)
    BY SlotEquations
  <2>3. s.start <= t.start /\ Length(s) <= Length(t)
    BY <1>2
  <2> HIDE DEF s, t
  <2>4. NextSlot(s).start <= NextSlot(t).start
    BY <2>1, <2>3 DEF NextSlot, Shaped, Slots, Length
  <2>5. Length(NextSlot(s)) <= Length(NextSlot(t))
    BY <2>1, <2>3 DEF NextSlot, Shaped, Slots, Length
  <2> QED BY <2>2, <2>4, <2>5
<1>3. Nat \subseteq S
  <2> HIDE DEF S
  <2> QED BY <1>1, <1>2, Induction
<1> QED BY <1>3

-----------------------------------------------------------------------------
\* Rounding down to blocks keeps the order and moves nothing upwards.
LEMMA RoundedDown ==
  ASSUME NEW x \in Nat, NEW y \in Nat, x <= y
  PROVE  BlockDown(x) \in Nat /\ BlockDown(x) <= x /\ BlockDown(x) <= BlockDown(y)
<1> DEFINE p == x \div Block
           q == y \div Block
           r == x % Block
           s == y % Block
<1>0. Block \in Nat \ {0}
  BY BlockAssumption
<1>1. /\ x = Block * p + r /\ p \in Nat /\ r \in 0..(Block - 1)
      /\ y = Block * q + s /\ q \in Nat /\ s \in 0..(Block - 1)
  BY <1>0
<1>2. BlockDown(x) = x - r /\ BlockDown(y) = y - s
  BY DEF BlockDown
<1> HIDE DEF p, q, r, s
<1>3. Block * p \in Nat
  BY <1>0, <1>1
<1>4. Block * p <= Block * q
  <2>1. CASE p <= q
    BY <1>0, <1>1, <2>1
  <2>2. CASE q + 1 <= p
    <3>1. Block * (q + 1) <= Block * p
      BY <1>0, <1>1, <2>2
    <3>2. Block * (q + 1) = Block * q + Block
      BY <1>0, <1>1
    <3> QED BY <1>0, <1>1, <3>1, <3>2
  <2> QED BY <1>1, <2>1, <2>2
<1> QED BY <1>0, <1>1, <1>2, <1>3, <1>4

\* A slot with room gives a hole of at least a block inside the slot, behind
\* the first block of the file and with a block to spare before its end.
LEMMA HoleInSlot ==
  ASSUME NEW z \in Nat, NEW s, Shaped(z, s), HasRoom(s)
  PROVE  /\ HoleOf(s).from \in Nat /\ HoleOf(s).to \in Nat /\ HoleOf(s).from < HoleOf(s).to
         /\ BlockDown(s.start) < HoleOf(s).from /\ Block <= HoleOf(s).from
         /\ HoleOf(s).to + Block = BlockDown(s.end) /\ HoleOf(s).to + Block <= z
<1>1. s.start \in Nat /\ s.end \in Nat /\ s.end <= z
  BY DEF Shaped, Slots, Length
<1>2. BlockDown(s.start) \in Nat /\ BlockDown(s.end) \in Nat /\ BlockDown(s.end) <= s.end
  BY <1>1, RoundedDown
<1>3. BlockDown(s.end) - BlockDown(s.start) >= 3 * Block
  BY DEF HasRoom
<1>4. HoleOf(s).from = BlockDown(s.start) + Block /\ HoleOf(s).to = BlockDown(s.end) - Block
  BY DEF HoleOf
<1> QED BY <1>1, <1>2, <1>3, <1>4, BlockAssumption

-----------------------------------------------------------------------------
\* Where the next slot starts, rounded down.
Frontier == BlockDown(Slot(size, count).start)

\* Until the file is cut, every hole ends before the next slot starts, with a
\* block between, and there are as many as the counter says.
Untouched ==
  ~ cut => /\ count \in Nat
           /\ IsFiniteSet(holes) /\ Cardinality(holes) = count
           /\ HolesDisjoint
           /\ \A h \in holes : /\ h.from \in Nat /\ h.to \in Nat /\ h.from < h.to
                               /\ h.to + Block <= Frontier

HInv == size \in Nat /\ Untouched

\* What a punch does to a file that is not cut.
LEMMA PunchKept ==
  ASSUME HInv, Punch PROVE Untouched'
<1> SUFFICES ASSUME ~ cut' PROVE Untouched'
  BY DEF Untouched
<1>1. ~ cut /\ size' = size /\ count' = count + 1 /\ holes' = holes \cup {HoleAddress(size, count)}
  BY DEF Punch
<1>2. /\ size \in Nat /\ count \in Nat
      /\ IsFiniteSet(holes) /\ Cardinality(holes) = count
      /\ HolesDisjoint
      /\ \A h \in holes : /\ h.from \in Nat /\ h.to \in Nat /\ h.from < h.to
                          /\ h.to + Block <= Frontier
  BY <1>1 DEF HInv, Untouched
<1> DEFINE s == Slot(size, count)
           new == HoleOf(s)
<1>3. Shaped(size, s) /\ HasRoom(s) /\ HoleAddress(size, count) = new
  BY <1>2, SlotShape DEF Punch, IsPunchable, HoleAddress
<1>4. Slot(size, count + 1).start = s.end
  BY <1>2, SlotsInOrder
<1>5. Frontier = BlockDown(s.start) /\ Frontier' = BlockDown(s.end)
  BY <1>1, <1>4 DEF Frontier
<1> HIDE DEF s
<1>6. /\ new.from \in Nat /\ new.to \in Nat /\ new.from < new.to
      /\ BlockDown(s.start) < new.from
      /\ new.to + Block = BlockDown(s.end)
  BY <1>2, <1>3, HoleInSlot
<1>7. /\ BlockDown(s.start) \in Nat /\ BlockDown(s.end) \in Nat
      /\ BlockDown(s.start) <= BlockDown(s.end)
  <2>1. s.start \in Nat /\ s.end \in Nat /\ s.start <= s.end
    BY <1>3 DEF Shaped, Slots
  <2> QED BY <2>1, RoundedDown
<1> HIDE DEF new
<1>8. \A h \in holes : h.to + Block <= new.from
  BY <1>2, <1>5, <1>6, <1>7, BlockAssumption
<1>9. new \notin holes
  BY <1>2, <1>6, <1>8, BlockAssumption
<1>10. holes' = holes \cup {new}
  BY <1>1, <1>3
<1>11. IsFiniteSet(holes') /\ Cardinality(holes') = count'
  BY <1>1, <1>2, <1>9, <1>10, FS_AddElement
<1>12. HolesDisjoint'
  BY <1>2, <1>8, <1>10 DEF HolesDisjoint
<1>13. \A h \in holes' : /\ h.from \in Nat /\ h.to \in Nat /\ h.from < h.to
                         /\ h.to + Block <= Frontier'
  BY <1>2, <1>5, <1>6, <1>7, <1>10, BlockAssumption
<1>14. count' \in Nat
  BY <1>1, <1>2
<1> QED BY <1>11, <1>12, <1>13, <1>14 DEF Untouched

\* What growing does to a file that is not cut: its slots move away from the
\* holes.
LEMMA GrowKept ==
  ASSUME HInv, Grow PROVE Untouched'
<1> SUFFICES ASSUME ~ cut' PROVE Untouched'
  BY DEF Untouched
<1>1. UNCHANGED <<count, holes, cut>> /\ size' \in Nat /\ size <= size'
  BY SizesAssumption DEF Grow, HInv
<1>2. /\ size \in Nat /\ count \in Nat
      /\ IsFiniteSet(holes) /\ Cardinality(holes) = count
      /\ HolesDisjoint
      /\ \A h \in holes : /\ h.from \in Nat /\ h.to \in Nat /\ h.from < h.to
                          /\ h.to + Block <= Frontier
  BY <1>1 DEF HInv, Untouched
<1>3. Frontier \in Nat /\ Frontier' \in Nat /\ Frontier <= Frontier'
  <2>1. Slot(size, count).start <= Slot(size', count).start
    BY <1>1, <1>2, SlotGrows
  <2>2. Shaped(size, Slot(size, count)) /\ Shaped(size', Slot(size', count))
    BY <1>1, <1>2, SlotShape
  <2>3. Slot(size, count).start \in Nat /\ Slot(size', count).start \in Nat
    BY <2>2 DEF Shaped, Slots
  <2> QED BY <1>1, <2>1, <2>3, RoundedDown DEF Frontier
<1>4. HolesDisjoint'
  BY <1>1, <1>2 DEF HolesDisjoint
<1> QED BY <1>1, <1>2, <1>3, <1>4, BlockAssumption DEF Untouched

\* Every step keeps the invariant.
LEMMA HolesKept ==
  ASSUME HInv, [Next]_vars PROVE HInv'
<1>1. CASE Punch
  BY <1>1, PunchKept DEF HInv, Punch
<1>2. CASE Truncate
  BY <1>2, SizesAssumption DEF Truncate, HInv, Untouched
<1>3. CASE Grow
  BY <1>3, GrowKept, SizesAssumption DEF Grow, HInv
<1>4. CASE UNCHANGED vars
  BY <1>4 DEF vars, HInv, Untouched, Frontier, HolesDisjoint
<1> QED BY <1>1, <1>2, <1>3, <1>4 DEF Next

\* It holds in every reachable state.
LEMMA HolesAlways == Spec => []HInv
<1>1. Init => HInv
  <2>1. IsFiniteSet({}) /\ Cardinality({}) = 0
    BY FS_EmptySet
  <2> QED BY <2>1, SizesAssumption DEF Init, HInv, Untouched, HolesDisjoint
<1> QED BY <1>1, HolesKept, PTL DEF Spec

\* The holes of a file that has only been punched and expanded are disjoint,
\* with a mapped block between any two, and as many as the counter says.
THEOREM DisjointUntilCut == Spec => []HolesDisjointUntilCut
<1>1. HInv => HolesDisjointUntilCut
  BY DEF HInv, Untouched, HolesDisjointUntilCut
<1> QED BY <1>1, HolesAlways, PTL

-----------------------------------------------------------------------------
\* File sizes fit into 64 bits.
Addressable == \A z \in Sizes : z < 65536 * 65536 * 65536 * 65536

\* Sixteen slots on, a slot is at most 1/65536 as long.
LEMMA SixteenSlotsOn ==
  ASSUME NEW z \in Nat, NEW k \in Nat
  PROVE  65536 * Length(Slot(z, k + 16)) <= Length(Slot(z, k))
<1> DEFINE L(i) == Length(Slot(z, i))
<1>1. \A i \in Nat : L(i) \in Nat
  BY SlotShape DEF Shaped, Slots, Length
<1>2. \A i \in Nat : 2 * L(i + 1) <= L(i)
  BY SlotsInOrder
<1> HIDE DEF L
<1>3. \A i \in Nat : 16 * L(i + 4) <= L(i)
  <2> TAKE i \in Nat
  <2>1. i + 1 \in Nat /\ i + 2 \in Nat /\ i + 3 \in Nat /\ i + 4 \in Nat
    OBVIOUS
  <2>2. L(i) \in Nat /\ L(i + 1) \in Nat /\ L(i + 2) \in Nat /\ L(i + 3) \in Nat /\ L(i + 4) \in Nat
    BY <1>1, <2>1
  <2>3. /\ 2 * L(i + 1) <= L(i) /\ 2 * L((i + 1) + 1) <= L(i + 1)
        /\ 2 * L((i + 2) + 1) <= L(i + 2) /\ 2 * L((i + 3) + 1) <= L(i + 3)
    BY <1>2, <2>1
  <2>4. (i + 1) + 1 = i + 2 /\ (i + 2) + 1 = i + 3 /\ (i + 3) + 1 = i + 4
    OBVIOUS
  <2> QED BY <2>2, <2>3, <2>4
<1>4. k + 4 \in Nat /\ k + 8 \in Nat /\ k + 12 \in Nat /\ k + 16 \in Nat
  OBVIOUS
<1>5. L(k) \in Nat /\ L(k + 4) \in Nat /\ L(k + 8) \in Nat /\ L(k + 12) \in Nat /\ L(k + 16) \in Nat
  BY <1>1, <1>4
<1>6. /\ 16 * L(k + 4) <= L(k) /\ 16 * L((k + 4) + 4) <= L(k + 4)
      /\ 16 * L((k + 8) + 4) <= L(k + 8) /\ 16 * L((k + 12) + 4) <= L(k + 12)
  BY <1>3, <1>4
<1>7. (k + 4) + 4 = k + 8 /\ (k + 8) + 4 = k + 12 /\ (k + 12) + 4 = k + 16
  OBVIOUS
<1>8. 65536 * L(k + 16) <= L(k)
  BY <1>5, <1>6, <1>7
<1> QED BY <1>8 DEF L

\* The sixty-fifth slot of a file is empty.
LEMMA SlotsRunOut ==
  ASSUME Addressable, NEW z \in Sizes
  PROVE  Length(Slot(z, 64)) = 0
<1> DEFINE L(i) == Length(Slot(z, i))
<1>0. z \in Nat /\ z < 65536 * 65536 * 65536 * 65536
  BY SizesAssumption DEF Addressable
<1>1. L(0) \in Nat /\ L(0) <= z /\ L(16) \in Nat /\ L(32) \in Nat /\ L(48) \in Nat /\ L(64) \in Nat
  BY <1>0, SlotShape DEF Shaped, Slots, Length
<1>2. \A k \in Nat : 65536 * L(k + 16) <= L(k)
  BY <1>0, SixteenSlotsOn
<1> HIDE DEF L
<1>3. /\ 65536 * L(0 + 16) <= L(0) /\ 65536 * L(16 + 16) <= L(16)
      /\ 65536 * L(32 + 16) <= L(32) /\ 65536 * L(48 + 16) <= L(48)
  BY <1>2
<1>4. 0 + 16 = 16 /\ 16 + 16 = 32 /\ 32 + 16 = 48 /\ 48 + 16 = 64
  OBVIOUS
<1>5. L(64) = 0
  BY <1>0, <1>1, <1>3, <1>4
<1> QED BY <1>5 DEF L

\* The walk of a truncation ends long before it gives up.
LEMMA WalkEnds ==
  ASSUME Addressable, NEW z \in Sizes, NEW new \in Nat
  PROVE  \E i \in 1..MaxWalk : IsTruncatedCount(z, new, i)
<1> DEFINE S == {k \in Nat : WalkStops(z, new, k)}
<1>1. 64 \in S
  <2>1. Slot(z, 64).end - Slot(z, 64).start = 0
    BY SlotsRunOut DEF Length
  <2> QED BY <2>1, BlockAssumption DEF WalkStops
<1>2. PICK m \in S : \A k \in S : m <= k
  <2>1. S \subseteq Nat /\ S # {}
    BY <1>1
  <2> HIDE DEF S
  <2> QED BY <2>1, Least
<1>3. m \in Nat /\ m <= 64 /\ WalkStops(z, new, m)
  BY <1>1, <1>2
<1>4. \A k \in 0..(m - 1) : ~ WalkStops(z, new, k)
  BY <1>2, <1>3
<1>5. IsTruncatedCount(z, new, m + 1)
  <2>1. (m + 1) - 1 = m
    BY <1>3
  <2>2. \A j \in 1..m : j - 1 \in 0..(m - 1)
    BY <1>3
  <2> QED BY <1>3, <1>4, <2>1, <2>2 DEF IsTruncatedCount
<1> QED BY <1>3, <1>5 DEF MaxWalk

\* A step keeps the types.
LEMMA TypesKept ==
  ASSUME Addressable, TypeOK, [Next]_vars PROVE TypeOK'
<1>0. size \in Sizes /\ size \in Nat /\ count \in Nat
      /\ \A h \in holes : h.from \in Nat /\ h.to \in Nat /\ h.from < h.to
  BY SizesAssumption DEF TypeOK
<1>b. cut \in BOOLEAN
  BY Zenon DEF TypeOK
<1>1. CASE Punch
  <2>1. size' = size /\ count' = count + 1 /\ holes' = holes \cup {HoleAddress(size, count)}
    BY <1>1 DEF Punch
  <2>2. cut' \in BOOLEAN
    BY <1>1, <1>b, Zenon DEF Punch
  <2>3. Shaped(size, Slot(size, count)) /\ HasRoom(Slot(size, count))
    BY <1>0, <1>1, SlotShape DEF Punch, IsPunchable
  <2> DEFINE new == HoleAddress(size, count)
  <2>4. new.from \in Nat /\ new.to \in Nat /\ new.from < new.to
    BY <1>0, <2>3, HoleInSlot DEF HoleAddress
  <2> HIDE DEF new
  <2>5. \A h \in holes' : h.from \in Nat /\ h.to \in Nat /\ h.from < h.to
    BY <1>0, <2>1, <2>4 DEF new
  <2> QED BY <1>0, <2>1, <2>2, <2>5 DEF TypeOK
<1>2. CASE Truncate
  <2>1. PICK new \in Sizes :
          /\ new < size
          /\ count' = TruncatedCount(size, new, count)
          /\ holes' = {[h EXCEPT !.to = IF @ < new THEN @ ELSE new] : h \in {g \in holes : g.from < new}}
          /\ size' = new
          /\ cut' = TRUE
    BY <1>2 DEF Truncate
  <2>2. new \in Nat
    BY SizesAssumption
  <2>3. count' \in Nat
    <3>1. ~ new >= size
      BY <1>0, <2>1, <2>2
    <3>2. \E i \in 1..MaxWalk : IsTruncatedCount(size, new, i)
      BY <1>0, <2>2, WalkEnds
    <3>3. TruncatedCount(size, new, count) \in 1..MaxWalk
      BY <3>1, <3>2 DEF TruncatedCount
    <3> QED BY <2>1, <3>3
  <2>4. \A h \in holes' : h.from \in Nat /\ h.to \in Nat /\ h.from < h.to
    <3> TAKE h \in holes'
    <3>1. PICK g \in holes : g.from < new /\ h = [g EXCEPT !.to = IF g.to < new THEN g.to ELSE new]
      BY <2>1
    <3>2. g.from \in Nat /\ g.to \in Nat /\ g.from < g.to
      BY <1>0
    <3>3. h.from = g.from
      BY <3>1
    <3> QED BY <2>2, <3>1, <3>2, <3>3
  <2>5. cut' \in BOOLEAN
    BY <2>1, Zenon
  <2> QED BY <2>1, <2>3, <2>4, <2>5 DEF TypeOK
<1>3. CASE Grow
  <2>1. size' \in Sizes /\ UNCHANGED <<count, holes, cut>>
    BY <1>3 DEF Grow
  <2> QED BY <1>0, <1>b, <2>1 DEF TypeOK
<1>4. CASE UNCHANGED vars
  BY <1>4 DEF vars, TypeOK
<1> QED BY <1>1, <1>2, <1>3, <1>4 DEF Next

\* In every reachable state the counter is a number, so no truncation gives up,
\* and every hole begins before it ends.
THEOREM TypeCorrect ==
  ASSUME Addressable PROVE Spec => []TypeOK
<1>1. Init => TypeOK
  <2>1. Init => cut \in BOOLEAN
    BY Zenon DEF Init
  <2> QED BY <2>1 DEF Init, TypeOK
<1>2. TypeOK /\ [Next]_vars => TypeOK'
  BY TypesKept
<1> QED BY <1>1, <1>2, PTL DEF Spec

\* Every punch, whatever truncations there were, makes its hole strictly inside
\* the file.
THEOREM InsideFile ==
  ASSUME Addressable PROVE Spec => HoleInsideFile
<1>1. ASSUME TypeOK, Next, count' = count + 1, size' = size, NEW h \in holes' \ holes
      PROVE  Block <= h.from /\ h.to + Block <= size
  <2>1. size \in Nat /\ count \in Nat
    BY <1>1, SizesAssumption DEF TypeOK
  <2>2. Punch
    BY <1>1, <2>1, SizesAssumption DEF Next, Truncate, Grow
  <2>3. Shaped(size, Slot(size, count)) /\ HasRoom(Slot(size, count)) /\ h = HoleOf(Slot(size, count))
    BY <1>1, <2>1, <2>2, SlotShape DEF Punch, IsPunchable, HoleAddress
  <2> QED BY <2>1, <2>3, HoleInSlot
<1>2. TypeOK /\ [Next]_vars
        => [count' = count + 1 /\ size' = size =>
              \A h \in holes' \ holes : Block <= h.from /\ h.to + Block <= size]_vars
  BY <1>1
<1> QED BY <1>2, TypeCorrect, PTL DEF Spec, HoleInsideFile

-----------------------------------------------------------------------------
(***************************************************************************)
(* The budget of punches.                                                  *)
(***************************************************************************)
\* The recursion that defines the powers of two may be unfolded.
LEMMA PowerEquations == TwoTo[0] = 1 /\ \A n \in Nat : TwoTo[n + 1] = 2 * TwoTo[n]
<1> DEFINE step == [x \in Nat |-> 2 * x]
           Def(f) == [n \in Nat |-> IF n = 0 THEN 1 ELSE 2 * f[n - 1]]
           power == CHOOSE f : f = Def(f)
<1>1. step \in [Nat -> Nat] /\ 1 \in Nat /\ \A x \in Nat : step[x] = 2 * x  OBVIOUS
<1> HIDE DEF step
<1>2. PICK f \in [Nat -> Nat] : f[0] = 1 /\ \A n \in Nat : f[n + 1] = step[f[n]]
  <2> DEFINE P(W, a, r) == \E g \in [Nat -> W] : g[0] = a /\ \A n \in Nat : g[n + 1] = r[g[n]]
  <2>1. ASSUME NEW W, NEW a \in W, NEW r \in [W -> W]  PROVE P(W, a, r)
    BY RecursiveFunction, SMT
  <2> HIDE DEF P
  <2>2. P(Nat, 1, step)  BY <1>1, <2>1, Zenon
  <2> QED  BY <2>2 DEF P
<1>3. f = Def(f)
  <2>1. ASSUME NEW n \in Nat  PROVE f[n] = IF n = 0 THEN 1 ELSE 2 * f[n - 1]
    <3>1. CASE n = 0  BY <1>2, <3>1
    <3>2. CASE n # 0
      <4>1. n - 1 \in Nat /\ (n - 1) + 1 = n  BY <3>2
      <4>2. f[(n - 1) + 1] = step[f[n - 1]] /\ f[n - 1] \in Nat  BY <1>2, <4>1
      <4> QED  BY <1>1, <3>2, <4>1, <4>2
    <3> QED  BY <3>1, <3>2
  <2> QED  BY <1>2, <2>1
<1>4. power = Def(power)
  <2>1. \E g : g = Def(g)  BY <1>3
  <2> QED  BY <2>1, Zenon
<1>5. TwoTo = power  BY Zenon DEF TwoTo
<1> HIDE DEF power
<1>6. \A n \in Nat : power[n] = IF n = 0 THEN 1 ELSE 2 * power[n - 1]  BY <1>4, Zenon
<1>7. ASSUME NEW n \in Nat  PROVE power[n + 1] = 2 * power[n]
  <2>1. n + 1 \in Nat /\ n + 1 # 0 /\ (n + 1) - 1 = n  OBVIOUS
  <2> QED  BY <1>6, <2>1
<1> QED  BY <1>5, <1>6, <1>7

\* Slot k of a file is at most its size divided by the power k + 1 of two.
LEMMA SlotBudget ==
  ASSUME NEW z \in Nat
  PROVE  \A k \in Nat : TwoTo[k + 1] \in Nat /\ Length(Slot(z, k)) * TwoTo[k + 1] <= z
<1> DEFINE S == {k \in Nat : TwoTo[k + 1] \in Nat /\ Length(Slot(z, k)) * TwoTo[k + 1] <= z}
<1>1. 0 \in S
  <2>1. TwoTo[0 + 1] = 2  BY PowerEquations
  <2>2. Slot(z, 0) = [start |-> 0, end |-> z \div 2]  BY SlotEquations DEF FirstSlot
  <2>3. Length(Slot(z, 0)) = z \div 2  BY <2>2 DEF Length
  <2>4. (z \div 2) * 2 <= z  OBVIOUS
  <2> QED  BY <2>1, <2>3, <2>4
<1>2. ASSUME NEW k \in Nat, k \in S  PROVE k + 1 \in S
  <2> DEFINE p == TwoTo[k + 1]
             l == Length(Slot(z, k))
             m == Length(Slot(z, k + 1))
  <2>1. p \in Nat /\ l * p <= z  BY <1>2
  <2>2. TwoTo[(k + 1) + 1] = 2 * p  BY PowerEquations
  <2>3. 2 * m <= l  BY SlotsInOrder
  <2>4. Shaped(z, Slot(z, k)) /\ Shaped(z, Slot(z, k + 1))  BY SlotShape
  <2>5. l \in Nat /\ m \in Nat  BY <2>4 DEF Shaped, Slots, Length
  <2> HIDE DEF p, l, m
  <2>6. \A x, y, q \in Nat : 2 * x <= y => x * (2 * q) <= y * q
    <3> TAKE x, y, q \in Nat
    <3>1. \A a, b, c \in Nat : a <= b => a * c <= b * c  OBVIOUS
    <3>2. x * (2 * q) = (2 * x) * q  OBVIOUS
    <3> QED  BY <3>1, <3>2
  <2>7. m * (2 * p) <= l * p /\ l * p \in Nat /\ m * (2 * p) \in Nat
    BY <2>1, <2>3, <2>5, <2>6
  <2>8. m * (2 * p) <= z  BY <2>1, <2>7
  <2> QED  BY <2>1, <2>2, <2>8 DEF m
<1>3. Nat \subseteq S
  <2> HIDE DEF S
  <2> QED  BY <1>1, <1>2, Induction
<1> QED  BY <1>3

\* Whatever was punched, cut and expanded, a file that still counts as
\* punchable has more than two blocks for each of the 2^(count + 1) parts its
\* slots have divided it into.
THEOREM PunchesAreBounded ==
  ASSUME Addressable PROVE Spec => []PunchBudget
<1>1. ASSUME TypeOK, IsPunchable(size, count)
      PROVE  (2 * Block + 1) * TwoTo[count + 1] <= size
  <2>1. size \in Nat /\ count \in Nat /\ Block \in Nat \ {0}
    BY <1>1, SizesAssumption, BlockAssumption DEF TypeOK
  <2> DEFINE s == Slot(size, count)
             l == Length(s)
             p == TwoTo[count + 1]
  <2>2. p \in Nat /\ l * p <= size  BY <2>1, SlotBudget
  <2>3. s.start \in Nat /\ s.end \in Nat /\ s.start <= s.end
    BY <2>1, SlotShape DEF Shaped, Slots
  <2>4. BlockDown(s.end) - BlockDown(s.start) >= 3 * Block  BY <1>1 DEF IsPunchable, HasRoom
  <2>5. \A x \in Nat : BlockDown(x) \in Int /\ BlockDown(x) <= x /\ x < BlockDown(x) + Block
    <3> TAKE x \in Nat
    <3>1. x % Block \in 0..(Block - 1)  BY <2>1
    <3> QED  BY <2>1, <3>1 DEF BlockDown
  <2>6. 2 * Block + 1 <= l /\ l \in Nat
    <3>1. l = s.end - s.start  BY DEF Length
    <3> HIDE DEF s, l
    <3> QED  BY <2>1, <2>3, <2>4, <2>5, <3>1
  <2> HIDE DEF s, l, p
  <2>7. \A a, b, c \in Nat : a <= b => a * c <= b * c  OBVIOUS
  <2>8. (2 * Block + 1) * p <= l * p /\ (2 * Block + 1) * p \in Nat /\ l * p \in Nat
    BY <2>1, <2>2, <2>6, <2>7
  <2> QED  BY <2>1, <2>2, <2>8 DEF p
<1>2. TypeOK => PunchBudget  BY <1>1 DEF PunchBudget
<1> QED  BY <1>2, TypeCorrect, PTL
=============================================================================
