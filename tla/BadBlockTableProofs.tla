------------------------ MODULE BadBlockTableProofs ------------------------
(***************************************************************************)
(* The loops of create_badblock_table_by_bbt number the good blocks, for   *)
(* every size of the system area and every bad-block list whose first      *)
(* block lies inside the table.                                            *)
(*                                                                         *)
(* The table is described by four facts that hold of c processed bad       *)
(* blocks: it is increasing, it has moved no entry by more than c, it      *)
(* names none of the c blocks, and it skips nothing else.  In the middle   *)
(* of a shift they hold of the table as it was before the shift.           *)
(*                                                                         *)
(* For a list whose first block may lie behind the table there is a second *)
(* description, an expression for each entry (MovedBy), which gives that   *)
(* the loops end with TableBuilt.                                          *)
(***************************************************************************)
EXTENDS BadBlockTable, FiniteSetTheorems, TLAPS

Rising(t)     == \A x, y \in Slots : x < y => t[x] < t[y]
Bounded(t, c) == \A x \in Slots : t[x] <= x + c
Avoids(t, c)  == \A x \in Slots, m \in 1 .. c : t[x] # bad[m]
Covers(t, c)  == \A x \in Slots, v \in Nat :
                   v < t[x] => \/ \E y \in Slots : y < x /\ t[y] = v
                               \/ \E m \in 1 .. c : bad[m] = v

Numbers(t, c) == Rising(t) /\ Bounded(t, c) /\ Avoids(t, c) /\ Covers(t, c)

(* The table before the shift under way. *)
Before == [x \in Slots |-> IF j <= x /\ x < k THEN pBbt[x] - 1 ELSE pBbt[x]]

Below(t, b) == \A x \in Slots : x < j => t[x] < b

OuterInv ==
  pc = "outer" =>
    /\ Numbers(pBbt, i - 1)
    /\ i = 1 => j = 0 /\ \A x \in Slots : pBbt[x] = x
    /\ i > 1 => k = Size /\ Below(pBbt, bad[i - 1])

SeekInv ==
  pc = "seek" =>
    /\ Numbers(pBbt, i - 1)
    /\ i = 1 => \A x \in Slots : pBbt[x] = x
    /\ i > 1 => k = Size
    /\ Below(pBbt, bad[i])

ShiftInv ==
  pc = "shift" =>
    /\ j <= k
    /\ Before \in [Slots -> Nat]
    /\ Numbers(Before, i - 1)
    /\ Below(Before, bad[i])
    /\ j < Size => Before[j] = bad[i]

DoneInv == pc = "done" => i = Len(bad) + 1 /\ Numbers(pBbt, i - 1)

(* The body of the outer loop runs for a bad block of the list only. *)
InList == pc \in {"seek", "shift"} => i <= Len(bad)

IInv == TypeOK /\ InList /\ (FirstFound => OuterInv /\ SeekInv /\ ShiftInv /\ DoneInv)

-----------------------------------------------------------------------------
(* Type correctness: whatever the bad-block list, the loop counters stay   *)
(* inside the table and the list.  (create_badblock_table_by_bbt.)         *)
LEMMA TypeInit == Init => TypeOK /\ InList
  BY MaxSystemAssumption DEF Init, Begin, TypeOK, InList, BadLists, Size, Slots

LEMMA Sizes == TypeOK => Len(bad) \in Nat /\ Size \in Nat /\ Size > 0
  BY MaxSystemAssumption DEF TypeOK, BadLists, Size

LEMMA ListRises ==
  TypeOK => /\ \A m \in 1 .. Len(bad) : bad[m] \in Nat
            /\ \A l, m \in 1 .. Len(bad) : l < m => bad[l] < bad[m]
<1> SUFFICES ASSUME TypeOK
             PROVE  /\ \A m \in 1 .. Len(bad) : bad[m] \in Nat
                    /\ \A l, m \in 1 .. Len(bad) : l < m => bad[l] < bad[m]
  OBVIOUS
<1>1. bad \in Seq(1 .. sys - 1) /\ Increasing(bad)
  BY DEF TypeOK, BadLists
<1>2. PICK S \in SUBSET Nat : S = 1 .. sys - 1
  <2>1. sys \in Nat
    BY MaxSystemAssumption DEF TypeOK
  <2> QED
    BY <2>1
<1>3. \A m \in 1 .. Len(bad) : bad[m] \in Nat
  <2>1. bad \in Seq(S)
    BY <1>1, <1>2, Zenon
  <2>2. \A m \in 1 .. Len(bad) : bad[m] \in S
    BY <2>1
  <2> QED
    BY <2>2
<1>4. \A l, m \in 1 .. Len(bad) : l < m => bad[l] < bad[m]
  BY <1>1 DEF Increasing
<1> QED
  BY <1>3, <1>4

LEMMA TypeNext == TypeOK /\ InList /\ [Next]_vars => TypeOK' /\ InList'
<1> SUFFICES ASSUME TypeOK, InList, [Next]_vars
             PROVE  TypeOK' /\ InList'
  OBVIOUS
<1> USE DEF TypeOK, InList
<1>1. Len(bad) \in Nat /\ Size \in Nat
  BY Sizes
<1>2. CASE NextBad
  BY <1>1, <1>2 DEF NextBad, input, Size, Slots
<1>3. CASE SeekHit
  BY <1>1, <1>3 DEF SeekHit, input, Size, Slots
<1>4. CASE SeekMiss
  BY <1>1, <1>4 DEF SeekMiss, input, Size, Slots
<1>5. CASE SeekEnd
  BY <1>1, <1>5 DEF SeekEnd, input, Size, Slots
<1>6. CASE Shift
  BY <1>1, <1>6 DEF Shift, input, Size, Slots
<1>7. CASE ShiftEnd
  BY <1>1, <1>7 DEF ShiftEnd, input, Size, Slots
<1>8. CASE UNCHANGED vars
  BY <1>8 DEF vars, Size, Slots
<1> QED
  BY <1>2, <1>3, <1>4, <1>5, <1>6, <1>7, <1>8 DEF Next

THEOREM TypeInvariant == Spec => []TypeOK
  BY TypeInit, TypeNext, PTL DEF Spec

-----------------------------------------------------------------------------
(* One round of the outer loop: if t is B with every entry from j on moved *)
(* up by one, and j is where bad[i] was found, or the end of the table if  *)
(* it lies beyond, then t accounts for bad[i] too.                         *)
LEMMA RoundDone ==
  ASSUME TypeOK,
         i <= Len(bad),
         NEW B \in [Slots -> Nat], NEW t \in [Slots -> Nat],
         Numbers(B, i - 1),
         Below(B, bad[i]),
         j < Size => B[j] = bad[i],
         \A x \in Slots : t[x] = IF j <= x THEN B[x] + 1 ELSE B[x]
  PROVE  Numbers(t, i) /\ Below(t, bad[i])
<1>1. /\ Len(bad) \in Nat /\ Size \in Nat /\ i \in 1 .. Len(bad) /\ j \in 0 .. Size
      /\ \A m \in 1 .. Len(bad) : bad[m] \in Nat
      /\ \A m \in 1 .. i - 1 : m \in 1 .. Len(bad) /\ bad[m] < bad[i]
  BY Sizes, ListRises DEF TypeOK
<1>2. Rising(B) /\ Bounded(B, i - 1) /\ Avoids(B, i - 1) /\ Covers(B, i - 1)
  BY DEF Numbers
<1>3. Below(t, bad[i])
  BY <1>1 DEF Below, Slots
<1>4. Rising(t)
  <2> SUFFICES ASSUME NEW x \in Slots, NEW y \in Slots, x < y
               PROVE  t[x] < t[y]
    BY DEF Rising
  <2>1. B[x] < B[y] /\ B[x] \in Nat /\ B[y] \in Nat
    BY <1>2 DEF Rising
  <2>2. j <= x => j <= y
    BY <1>1 DEF Slots
  <2> QED
    BY <2>1, <2>2
<1>5. Bounded(t, i)
  <2> SUFFICES ASSUME NEW x \in Slots
               PROVE  t[x] <= x + i
    BY DEF Bounded
  <2>1. B[x] <= x + (i - 1) /\ B[x] \in Nat
    BY <1>2 DEF Bounded
  <2> QED
    BY <1>1, <2>1 DEF Slots
<1>6. Avoids(t, i)
  <2> SUFFICES ASSUME NEW x \in Slots, NEW m \in 1 .. i
               PROVE  t[x] # bad[m]
    BY DEF Avoids
  <2>1. /\ i \in Nat /\ j \in Nat /\ x \in Nat /\ B[x] \in Nat /\ bad[i] \in Nat
        /\ m = i \/ m \in 1 .. i - 1
    BY <1>1 DEF Slots
  <2>2. CASE x < j
    <3>1. t[x] = B[x]
      BY <2>1, <2>2
    <3>2. CASE m = i
      BY <2>1, <2>2, <3>1, <3>2 DEF Below
    <3>3. CASE m \in 1 .. i - 1
      BY <1>2, <3>1, <3>3 DEF Avoids
    <3> QED
      BY <2>1, <3>2, <3>3
  <2>3. CASE j <= x
    <3>1. j \in Slots /\ B[j] = bad[i] /\ t[x] = B[x] + 1
      BY <1>1, <2>3 DEF Slots
    <3>2. bad[i] <= B[x]
      <4>1. x = j \/ j < x
        BY <2>1, <2>3
      <4>2. CASE x = j
        BY <2>1, <3>1, <4>2
      <4>3. CASE j < x
        <5>1. bad[i] < B[x]
          BY <1>2, <3>1, <4>3 DEF Rising
        <5> QED
          BY <2>1, <5>1
      <4> QED
        BY <4>1, <4>2, <4>3
    <3>3. bad[m] \in Nat /\ bad[m] <= bad[i]
      <4>1. CASE m = i
        BY <2>1, <4>1
      <4>2. CASE m \in 1 .. i - 1
        <5>1. bad[m] \in Nat /\ bad[m] < bad[i]
          BY <1>1, <4>2
        <5> QED
          BY <2>1, <5>1
      <4> QED
        BY <2>1, <4>1, <4>2
    <3> QED
      BY <2>1, <3>1, <3>2, <3>3
  <2> QED
    BY <2>1, <2>2, <2>3
<1>7. Covers(t, i)
  <2> SUFFICES ASSUME NEW x \in Slots, NEW v \in Nat, v < t[x]
               PROVE  \/ \E y \in Slots : y < x /\ t[y] = v
                      \/ \E m \in 1 .. i : bad[m] = v
    BY DEF Covers
  <2>1. CASE x < j
    <3>1. x \in Nat /\ i \in Nat /\ j \in Nat /\ ~(j <= x)
      BY <1>1, <2>1 DEF Slots
    <3>2. t[x] = B[x]
      BY <3>1
    <3>3. \/ \E y \in Slots : y < x /\ B[y] = v
          \/ \E m \in 1 .. i - 1 : bad[m] = v
      BY <1>2, <3>2 DEF Covers
    <3>4. CASE \E y \in Slots : y < x /\ B[y] = v
      <4>1. PICK y \in Slots : y < x /\ B[y] = v
        BY <3>4
      <4>2. y \in Nat /\ ~(j <= y)
        BY <2>1, <3>1, <4>1 DEF Slots
      <4>3. t[y] = v
        BY <4>1, <4>2
      <4> QED
        BY <4>1, <4>3
    <3>5. CASE \E m \in 1 .. i - 1 : bad[m] = v
      BY <3>1, <3>5
    <3> QED
      BY <3>3, <3>4, <3>5
  <2>2. CASE j <= x
    <3>1. j \in Slots /\ B[j] = bad[i] /\ t[x] = B[x] + 1
      BY <1>1, <2>2 DEF Slots
    <3>2. CASE v = bad[i]
      BY <1>1, <3>2
    <3>3. CASE v < bad[i]
      <4>1. \/ \E y \in Slots : y < j /\ B[y] = v
            \/ \E m \in 1 .. i - 1 : bad[m] = v
        BY <1>2, <3>1, <3>3 DEF Covers
      <4>2. CASE \E y \in Slots : y < j /\ B[y] = v
        <5>1. PICK y \in Slots : y < j /\ B[y] = v
          BY <4>2
        <5>2. ~(j <= y) /\ y < x
          BY <1>1, <2>2, <5>1 DEF Slots
        <5> QED
          BY <5>1, <5>2
      <4>3. CASE \E m \in 1 .. i - 1 : bad[m] = v
        BY <1>1, <4>3
      <4> QED
        BY <4>1, <4>2, <4>3
    <3>4. CASE v > bad[i]
      <4>1. v - 1 \in Nat /\ v - 1 < B[x] /\ v - 1 >= bad[i]
        BY <1>1, <3>1, <3>4 DEF Slots
      <4>2. ASSUME NEW m \in 1 .. i - 1 PROVE bad[m] # v - 1
        <5>1. bad[m] \in Nat /\ bad[m] < bad[i] /\ bad[i] \in Nat
          BY <1>1
        <5> QED
          BY <4>1, <5>1
      <4>3. PICK y \in Slots : y < x /\ B[y] = v - 1
        BY <1>2, <4>1, <4>2 DEF Covers
      <4>4. j <= y
        <5>1. y \in Nat /\ j \in Nat /\ B[y] \in Nat /\ bad[i] \in Nat
          BY <1>1 DEF Slots
        <5>2. ~(y < j)
          BY <1>2, <3>1, <4>1, <4>3, <5>1 DEF Rising
        <5> QED
          BY <5>1, <5>2
      <4> QED
        BY <4>3, <4>4 DEF Slots
    <3> QED
      BY <1>1, <3>2, <3>3, <3>4
  <2> QED
    BY <1>1, <2>1, <2>2 DEF Slots
<1> QED
  BY <1>3, <1>4, <1>5, <1>6, <1>7 DEF Numbers

(* A miss leaves only smaller entries behind: an entry beyond bad[i] would *)
(* have skipped it, and what is skipped is an earlier bad block.           *)
LEMMA MissIsBelow ==
  ASSUME TypeOK, i <= Len(bad), j < Size, pBbt[j] # bad[i],
         Numbers(pBbt, i - 1), Below(pBbt, bad[i])
  PROVE  pBbt[j] < bad[i]
<1>1. j \in Slots /\ pBbt[j] \in Nat /\ i \in 1 .. Len(bad) /\ bad[i] \in Nat
  BY Sizes, ListRises DEF TypeOK, Slots
<1>2. \A m \in 1 .. i - 1 : bad[m] # bad[i]
  BY <1>1, Sizes, ListRises
<1>3. \A y \in Slots : y < j => pBbt[y] # bad[i]
  BY <1>1 DEF Below, TypeOK, Slots
<1>4. ~(bad[i] < pBbt[j])
  BY <1>1, <1>2, <1>3 DEF Numbers, Covers
<1> QED
  BY <1>1, <1>4

LEMMA TableInit == Init => IInv
<1> SUFFICES ASSUME Init PROVE IInv
  OBVIOUS
<1>1. TypeOK /\ InList
  BY TypeInit
<1>2. Numbers(pBbt, i - 1)
  BY Sizes, <1>1 DEF Init, Begin, Numbers, Rising, Bounded, Avoids, Covers, Slots
<1> QED
  BY <1>1, <1>2 DEF Init, Begin, IInv, OuterInv, SeekInv, ShiftInv, DoneInv

LEMMA TableNext == IInv /\ [Next]_vars => IInv'
<1> SUFFICES ASSUME IInv, [Next]_vars
             PROVE  IInv'
  OBVIOUS
<1> DEFINE Parts == OuterInv /\ SeekInv /\ ShiftInv /\ DoneInv
<1>1. TypeOK /\ InList /\ TypeOK' /\ InList'
  BY TypeNext DEF IInv
<1>2. UNCHANGED <<sys, bad>> /\ Size' = Size /\ Slots' = Slots
  BY DEF Next, NextBad, SeekHit, SeekMiss, SeekEnd, Shift, ShiftEnd, input, vars,
         Size, Slots
<1>3. FirstFound' = FirstFound
  BY <1>2 DEF FirstFound
<1> SUFFICES ASSUME FirstFound PROVE Parts'
  BY <1>1, <1>3 DEF IInv
<1>4. Parts
  BY DEF IInv
<1>5. /\ Len(bad) \in Nat /\ Size \in Nat /\ i \in 1 .. Len(bad) + 1
      /\ j \in 0 .. Size /\ k \in 0 .. Size /\ pBbt \in [Slots -> Nat] /\ Slots = 0 .. Size - 1
  BY <1>1, Sizes DEF TypeOK, Slots
<1>6. CASE NextBad
  <2>1. CASE i <= Len(bad)
    <3>1. pc' = "seek" /\ UNCHANGED <<pBbt, i, j, k>> /\ OuterInv /\ pc = "outer"
      BY <1>4, <1>6, <2>1 DEF NextBad
    <3>2. Below(pBbt, bad[i])
      <4>1. CASE i = 1
        BY <1>5, <3>1, <4>1 DEF OuterInv, Below
      <4>2. CASE i > 1
        <5>1. bad[i - 1] < bad[i] /\ bad[i - 1] \in Nat /\ bad[i] \in Nat
          BY <1>1, <1>5, <2>1, <4>2, ListRises
        <5> QED
          BY <1>5, <3>1, <4>2, <5>1 DEF OuterInv, Below
      <4> QED
        BY <1>1, <4>1, <4>2 DEF TypeOK
    <3>3. Numbers(pBbt, i - 1)' /\ Below(pBbt, bad[i])'
      BY <1>2, <3>1, <3>2 DEF OuterInv, Numbers, Rising, Bounded, Avoids, Covers, Below
    <3> QED
      BY <1>2, <3>1, <3>3 DEF OuterInv, SeekInv, ShiftInv, DoneInv
  <2>2. CASE i = Len(bad) + 1
    <3>1. pc' = "done" /\ UNCHANGED <<pBbt, i, j, k>> /\ OuterInv /\ pc = "outer"
      BY <1>4, <1>5, <1>6, <2>2 DEF NextBad
    <3>2. Numbers(pBbt, i - 1)'
      BY <1>2, <3>1 DEF OuterInv, Numbers, Rising, Bounded, Avoids, Covers
    <3> QED
      BY <1>2, <2>2, <3>1, <3>2 DEF OuterInv, SeekInv, ShiftInv, DoneInv
  <2>3. i <= Len(bad) \/ i = Len(bad) + 1
    BY <1>5
  <2> QED
    BY <2>1, <2>2, <2>3
<1>7. CASE SeekHit
  <2>1. /\ pc' = "shift" /\ k' = j /\ UNCHANGED <<pBbt, i, j>>
        /\ j < Size /\ pBbt[j] = bad[i] /\ SeekInv /\ pc = "seek"
    BY <1>4, <1>7 DEF SeekHit
  <2>2. Before' = pBbt
    BY <1>2, <1>5, <2>1 DEF Before
  <2>3. Numbers(Before, i - 1)' /\ Below(Before, bad[i])'
    BY <1>2, <2>1, <2>2 DEF SeekInv, Numbers, Rising, Bounded, Avoids, Covers, Below
  <2> QED
    BY <1>2, <1>5, <2>1, <2>2, <2>3 DEF OuterInv, SeekInv, ShiftInv, DoneInv
<1>8. CASE SeekMiss
  <2>1. /\ j' = j + 1 /\ UNCHANGED <<pBbt, i, k, pc>> /\ pc = "seek"
        /\ j < Size /\ pBbt[j] # bad[i] /\ SeekInv
    BY <1>4, <1>8 DEF SeekMiss
  <2>2. Numbers(pBbt, i - 1) /\ Below(pBbt, bad[i]) /\ i <= Len(bad)
    BY <1>1, <2>1 DEF SeekInv, InList
  <2>3. pBbt[j] < bad[i]
    BY <1>1, <2>1, <2>2, MissIsBelow
  <2>4. Below(pBbt, bad[i])'
    <3> SUFFICES ASSUME NEW x \in Slots, x < j + 1
                 PROVE  pBbt[x] < bad[i]
      BY <1>2, <1>5, <2>1 DEF Below
    <3>1. x < j \/ x = j
      BY <1>5 DEF Slots
    <3>2. CASE x < j
      BY <2>2, <3>2 DEF Below
    <3>3. CASE x = j
      BY <2>3, <3>3
    <3> QED
      BY <3>1, <3>2, <3>3
  <2>5. Numbers(pBbt, i - 1)'
    BY <1>2, <2>1, <2>2 DEF Numbers, Rising, Bounded, Avoids, Covers
  <2> QED
    BY <1>2, <2>1, <2>4, <2>5 DEF OuterInv, SeekInv, ShiftInv, DoneInv
<1>9. CASE SeekEnd
  <2>1. /\ pc' = "shift" /\ UNCHANGED <<pBbt, i, j, k>> /\ pc = "seek"
        /\ j = Size /\ SeekInv /\ i \in 1 .. Len(bad)
    BY <1>1, <1>4, <1>9 DEF SeekEnd, TypeOK, InList
  <2>2. i > 1
    <3>1. SUFFICES ASSUME i = 1 PROVE FALSE
      BY <2>1
    <3>2. bad[1] \in Nat /\ bad[1] < Size
      BY <1>1, <2>1, <3>1, ListRises DEF FirstFound
    <3> QED
      BY <1>5, <2>1, <3>1, <3>2 DEF SeekInv, Below
  <2>3. Before' = pBbt
    BY <1>2, <1>5, <2>1 DEF Before
  <2>4. Numbers(Before, i - 1)' /\ Below(Before, bad[i])'
    BY <1>2, <2>1, <2>3 DEF SeekInv, Numbers, Rising, Bounded, Avoids, Covers, Below
  <2> QED
    BY <1>2, <1>5, <2>1, <2>2, <2>3, <2>4 DEF OuterInv, SeekInv, ShiftInv, DoneInv
<1>10. CASE Shift
  <2>1. /\ pBbt' = [pBbt EXCEPT ![k] = @ + 1] /\ k' = k + 1 /\ k < Size
        /\ UNCHANGED <<i, j, pc>> /\ pc = "shift" /\ ShiftInv
    BY <1>4, <1>10 DEF Shift
  <2>2. ASSUME NEW x \in Slots
        PROVE  (IF j <= x /\ x < k + 1 THEN pBbt'[x] - 1 ELSE pBbt'[x])
               = (IF j <= x /\ x < k THEN pBbt[x] - 1 ELSE pBbt[x])
    <3>1. pBbt'[x] = IF x = k THEN pBbt[x] + 1 ELSE pBbt[x]
      BY <1>5, <2>1
    <3>2. j <= k
      BY <2>1 DEF ShiftInv
    <3> QED
      BY <1>5, <3>1, <3>2
  <2>3. Before' = Before
    BY <1>2, <2>1, <2>2 DEF Before
  <2>4. Numbers(Before, i - 1)' /\ Below(Before, bad[i])'
    BY <1>2, <2>1, <2>3 DEF ShiftInv, Numbers, Rising, Bounded, Avoids, Covers, Below
  <2> QED
    BY <1>2, <1>5, <2>1, <2>3, <2>4 DEF OuterInv, SeekInv, ShiftInv, DoneInv
<1>11. CASE ShiftEnd
  <2>1. /\ k = Size /\ i' = i + 1 /\ pc' = "outer" /\ UNCHANGED <<pBbt, j, k>>
        /\ pc = "shift" /\ ShiftInv /\ i \in 1 .. Len(bad)
    BY <1>1, <1>4, <1>11 DEF ShiftEnd, TypeOK, InList
  <2>2. \A x \in Slots : pBbt[x] = IF j <= x THEN Before[x] + 1 ELSE Before[x]
    BY <1>5, <2>1 DEF Before
  <2>3. Numbers(pBbt, i) /\ Below(pBbt, bad[i])
    <3>1. /\ i <= Len(bad) /\ Before \in [Slots -> Nat] /\ pBbt \in [Slots -> Nat]
          /\ Numbers(Before, i - 1) /\ Below(Before, bad[i])
          /\ j < Size => Before[j] = bad[i]
      BY <1>1, <1>5, <2>1 DEF ShiftInv
    <3> HIDE DEF Before
    <3> QED
      BY <1>1, <2>2, <3>1, RoundDone
  <2>4. Numbers(pBbt, i - 1)' /\ Below(pBbt, bad[i - 1])'
    BY <1>2, <1>5, <2>1, <2>3 DEF Numbers, Rising, Bounded, Avoids, Covers, Below
  <2> QED
    BY <1>2, <1>5, <2>1, <2>4 DEF OuterInv, SeekInv, ShiftInv, DoneInv
<1>12. CASE UNCHANGED vars
  BY <1>2, <1>4, <1>12
     DEF vars, OuterInv, SeekInv, ShiftInv, DoneInv, Before, Numbers, Rising,
         Bounded, Avoids, Covers, Below
<1> QED
  BY <1>6, <1>7, <1>8, <1>9, <1>10, <1>11, <1>12 DEF Next

LEMMA TableDone == IInv => TableCorrect
<1> SUFFICES ASSUME IInv, pc = "done", FirstFound
             PROVE  NumbersGoodBlocks
  BY DEF TableCorrect
<1>1. /\ Len(bad) \in Nat /\ Size \in Nat /\ sys \in Nat /\ Size = sys - Len(bad)
      /\ pBbt \in [Slots -> Nat]
  BY Sizes DEF IInv, TypeOK, Size
<1>2. Numbers(pBbt, Len(bad)) /\ DOMAIN bad = 1 .. Len(bad)
  BY <1>1 DEF IInv, DoneInv, TypeOK, BadLists
<1>3. \A x \in Slots : pBbt[x] < sys
  <2> SUFFICES ASSUME NEW x \in Slots PROVE pBbt[x] < sys
    OBVIOUS
  <2>1. pBbt[x] <= x + Len(bad)
    BY <1>2 DEF Numbers, Bounded
  <2>2. pBbt[x] \in Nat /\ x \in 0 .. Size - 1
    BY <1>1 DEF Slots
  <2> QED
    BY <1>1, <2>1, <2>2
<1> QED
  BY <1>2, <1>3 DEF NumbersGoodBlocks, Numbers, Rising, Avoids

(* For every size of the system area, and every bad-block list whose first *)
(* block the search finds in the identity table, the finished table        *)
(* numbers the good blocks.  (create_badblock_table_by_bbt.)               *)
THEOREM TableNumbersGoodBlocks == Spec => []TableCorrect
  BY TableInit, TableNext, TableDone, PTL DEF Spec

-----------------------------------------------------------------------------
(* The one-expression form.  Entry x has been moved past the bad blocks m   *)
(* whose home, the entry that would name them, is x or an earlier one.      *)
Home(m) == bad[m] - m + 1
Behind(c, x) == {m \in 1 .. c : Home(m) <= x}
MovedBy(c, x) == x + Cardinality(Behind(c, x))
Built(c) == \A x \in Slots : pBbt[x] = MovedBy(c, x)

FoundInv ==
  /\ pc \in {"outer", "seek"} => Built(i - 1)
  /\ pc = "shift" =>
       /\ k >= Home(i) \/ k = Size
       /\ \A x \in Slots :
            pBbt[x] = MovedBy(i - 1, x) + (IF Home(i) <= x /\ x < k THEN 1 ELSE 0)
  /\ pc = "done" => Built(Len(bad))

(* The first bad block is beyond the table: only the first round shifts.    *)
MissedInv ==
  /\ i = 1 /\ pc \in {"outer", "seek"} => k = 0 /\ \A x \in Slots : pBbt[x] = x
  /\ i = 1 /\ pc = "shift" => j = Size /\ \A x \in Slots : pBbt[x] = IF x < k THEN x + 1 ELSE x
  /\ i > 1 => j = Size /\ k = Size /\ \A x \in Slots : pBbt[x] = x + 1
  /\ pc = "done" => i > 1

BuiltInv == IF FirstFound THEN FoundInv ELSE MissedInv

(* Bad blocks are at least as far apart as they are in the list. *)
LEMMA HomesRise ==
  ASSUME TypeOK, NEW l \in 1 .. Len(bad), NEW m \in 1 .. Len(bad), l <= m
  PROVE  bad[l] \in Nat /\ bad[m] \in Nat /\ Home(l) <= Home(m) /\ Home(l) \in Int /\ Home(m) \in Int
<1>1. /\ Len(bad) \in Nat /\ bad[l] \in Nat /\ bad[m] \in Nat
      /\ \A x \in 1 .. Len(bad) : bad[x] \in Nat
      /\ \A x, y \in 1 .. Len(bad) : x < y => bad[x] < bad[y]
  BY Sizes, ListRises
<1>2. SUFFICES ASSUME bad[m] - bad[l] < m - l PROVE FALSE
  BY <1>1 DEF Home
<1> DEFINE S == l .. m
           T == bad[l] .. bad[m]
           f == [x \in S |-> bad[x]]
<1>3. f \in [S -> T]
  BY <1>1
<1>4. IsFiniteSet(S) /\ IsFiniteSet(T)
      /\ Cardinality(S) = m - l + 1
      /\ Cardinality(T) = IF bad[l] > bad[m] THEN 0 ELSE bad[m] - bad[l] + 1
  <2>1. l \in Int /\ m \in Int /\ bad[l] \in Int /\ bad[m] \in Int /\ ~(l > m)
    BY <1>1
  <2>2. IsFiniteSet(S) /\ Cardinality(S) = m - l + 1
    BY <2>1, FS_Interval, Zenon
  <2>3. IsFiniteSet(T) /\ Cardinality(T) = IF bad[l] > bad[m] THEN 0 ELSE bad[m] - bad[l] + 1
    BY <2>1, FS_Interval, Zenon
  <2>4. QED
    BY <2>2, <2>3
<1>5. Cardinality(T) < Cardinality(S)
  BY <1>1, <1>2, <1>4
<1> HIDE DEF S, T, f
<1>6. PICK x, y \in S : x # y /\ f[x] = f[y]
  BY <1>3, <1>4, <1>5, FS_PigeonHole
<1>7. x \in 1 .. Len(bad) /\ y \in 1 .. Len(bad) /\ bad[x] = bad[y]
  BY <1>1, <1>6 DEF S, f
<1>8. QED
  BY <1>1, <1>6, <1>7

LEMMA BehindIs ==
  ASSUME TypeOK, NEW x \in Slots, NEW c \in 1 .. Len(bad)
  PROVE  /\ Cardinality(Behind(c - 1, x)) \in 0 .. c - 1
         /\ Home(c) <= x => Cardinality(Behind(c - 1, x)) = c - 1
         /\ MovedBy(c, x) = MovedBy(c - 1, x) + (IF Home(c) <= x THEN 1 ELSE 0)
<1>1. Len(bad) \in Nat /\ c \in Nat /\ x \in Nat
  BY Sizes DEF Slots
<1> DEFINE B == Behind(c - 1, x)
<1>2. IsFiniteSet(1 .. c - 1) /\ Cardinality(1 .. c - 1) = c - 1
  <2>1. 1 \in Int /\ c - 1 \in Int /\ (1 > c - 1 <=> c - 1 = 0) /\ c - 1 - 1 + 1 = c - 1
    BY <1>1
  <2>2. QED
    BY <2>1, FS_Interval
<1>3. B \in SUBSET (1 .. c - 1)
  BY DEF Behind
<1>4. IsFiniteSet(B) /\ Cardinality(B) <= c - 1
  BY <1>2, <1>3, FS_Subset
<1>5. Cardinality(B) \in Nat
  BY <1>4, FS_CardinalityType
<1>6. ASSUME Home(c) <= x PROVE B = 1 .. c - 1
  <2>1. ASSUME NEW m \in 1 .. c - 1 PROVE Home(m) <= x
    <3>1. m \in 1 .. Len(bad) /\ m <= c
      BY <1>1
    <3>2. Home(m) <= Home(c) /\ Home(m) \in Int /\ Home(c) \in Int
      BY <3>1, HomesRise
    <3>3. QED
      BY <1>1, <1>6, <3>2
  <2>2. QED
    BY <2>1 DEF Behind
<1>7. Behind(c, x) = IF Home(c) <= x THEN B \cup {c} ELSE B
  BY <1>1 DEF Behind
<1>8. c \notin B
  BY <1>1, <1>3
<1>9. Cardinality(B \cup {c}) = Cardinality(B) + 1
  BY <1>4, <1>8, FS_AddElement
<1> HIDE DEF B
<1>10. Cardinality(Behind(c, x)) = Cardinality(B) + (IF Home(c) <= x THEN 1 ELSE 0)
  BY <1>5, <1>7, <1>9
<1>11. MovedBy(c, x) = MovedBy(c - 1, x) + (IF Home(c) <= x THEN 1 ELSE 0)
  BY <1>1, <1>5, <1>10 DEF MovedBy, B
<1>12. QED
  BY <1>1, <1>2, <1>4, <1>5, <1>6, <1>11 DEF B

LEMMA BuiltStart == Init => BuiltInv
<1> SUFFICES ASSUME Init PROVE BuiltInv
  OBVIOUS
<1>1. TypeOK /\ i = 1 /\ pc = "outer" /\ k = 0 /\ j = 0 /\ \A x \in Slots : pBbt[x] = x
  BY TypeInit DEF Init, Begin
<1>2. ASSUME NEW x \in Slots PROVE MovedBy(i - 1, x) = x
  <2>1. Behind(0, x) = {} /\ x \in Nat
    BY <1>1, Sizes DEF Behind, Slots
  <2>2. QED
    BY <1>1, <2>1, FS_EmptySet DEF MovedBy
<1>3. QED
  BY <1>1, <1>2 DEF BuiltInv, FoundInv, MissedInv, Built

(* The entry that names a bad block is its home, and the search ends        *)
(* without one only if its home is beyond the table.                        *)
LEMMA HitIsHome ==
  ASSUME TypeOK, i \in 1 .. Len(bad), Built(i - 1), NEW x \in Slots
  PROVE  pBbt[x] = bad[i] <=> x = Home(i)
<1>1. x \in Nat /\ bad[i] \in Nat /\ i \in Nat /\ pBbt[x] = MovedBy(i - 1, x)
  BY Sizes, ListRises DEF Slots, Built
<1>2. PICK n \in 0 .. i - 1 : n = Cardinality(Behind(i - 1, x))
  BY BehindIs
<1>3. pBbt[x] = x + n /\ (Home(i) <= x => n = i - 1)
  BY <1>1, <1>2, BehindIs DEF MovedBy
<1>4. QED
  BY <1>1, <1>3 DEF Home

LEMMA BuiltNext ==
  ASSUME IInv, BuiltInv, [Next]_vars
  PROVE  BuiltInv'
<1>1. TypeOK /\ InList /\ TypeOK' /\ InList'
  BY TypeNext DEF IInv
<1>2. UNCHANGED <<sys, bad>> /\ Size' = Size /\ Slots' = Slots
  BY DEF Next, NextBad, SeekHit, SeekMiss, SeekEnd, Shift, ShiftEnd, input, vars,
         Size, Slots
<1>3. FirstFound' = FirstFound
  BY <1>2 DEF FirstFound
<1>4. \A c, x : MovedBy(c, x)' = MovedBy(c, x) /\ Home(c)' = Home(c)
  BY <1>2 DEF MovedBy, Behind, Home
<1>5. /\ Len(bad) \in Nat /\ Size \in Nat /\ i \in 1 .. Len(bad) + 1
      /\ j \in 0 .. Size /\ k \in 0 .. Size /\ pBbt \in [Slots -> Nat] /\ Slots = 0 .. Size - 1
      /\ pc \in {"outer", "seek", "shift", "done"}
  BY <1>1, Sizes DEF TypeOK, Slots
<1>6. CASE FirstFound
  <2>1. FoundInv /\ SeekInv
    BY <1>6 DEF BuiltInv, IInv
  <2>2. ASSUME pBbt' = pBbt, NEW c PROVE Built(c)' <=> Built(c)
    BY <1>2, <1>4, <2>2 DEF Built
  <2>3. CASE NextBad
    <3>1. pc = "outer" /\ pc' = (IF i <= Len(bad) THEN "seek" ELSE "done") /\ i' = i /\ pBbt' = pBbt
      BY <2>3 DEF NextBad
    <3>2. Built(i - 1)
      BY <2>1, <3>1 DEF FoundInv
    <3>3. i <= Len(bad) \/ i - 1 = Len(bad)
      BY <1>5
    <3>4. FoundInv'
      BY <1>2, <2>2, <3>1, <3>2, <3>3 DEF FoundInv
    <3>5. QED
      BY <1>3, <1>6, <3>4 DEF BuiltInv
  <2>4. CASE SeekHit
    <3>1. /\ pc = "seek" /\ pc' = "shift" /\ k' = j /\ i' = i /\ pBbt' = pBbt /\ j' = j
          /\ j < Size /\ pBbt[j] = bad[i]
      BY <2>4 DEF SeekHit
    <3>2. Built(i - 1) /\ i \in 1 .. Len(bad) /\ j \in Slots
      BY <1>1, <1>5, <2>1, <3>1 DEF FoundInv, InList
    <3>3. j = Home(i)
      BY <1>1, <3>1, <3>2, HitIsHome
    <3>4. \A x \in Slots : MovedBy(i - 1, x) \in Nat
      BY <1>5, <3>2 DEF Built
    <3>5. \A x \in Slots : pBbt[x] = MovedBy(i - 1, x) + (IF Home(i) <= x /\ x < j THEN 1 ELSE 0)
      BY <1>5, <3>2, <3>3, <3>4 DEF Built
    <3>6. FoundInv'
      BY <1>2, <1>4, <1>5, <3>1, <3>3, <3>5 DEF FoundInv
    <3>7. QED
      BY <1>3, <1>6, <3>6 DEF BuiltInv
  <2>5. CASE SeekMiss
    <3>1. pc = "seek" /\ pc' = pc /\ i' = i /\ pBbt' = pBbt
      BY <2>5 DEF SeekMiss
    <3>2. FoundInv'
      BY <2>1, <2>2, <3>1 DEF FoundInv
    <3>3. QED
      BY <1>3, <1>6, <3>2 DEF BuiltInv
  <2>6. CASE SeekEnd
    <3>1. pc = "seek" /\ pc' = "shift" /\ k' = k /\ i' = i /\ pBbt' = pBbt /\ j' = j /\ j = Size
      BY <2>6 DEF SeekEnd
    <3>2. Built(i - 1) /\ i \in 1 .. Len(bad) /\ Below(pBbt, bad[i]) /\ (i > 1 => k = Size)
      BY <1>1, <1>5, <2>1, <3>1 DEF FoundInv, InList, SeekInv
    <3>3. Home(i) \in Int /\ Home(i) >= Size
      <4>1. 1 \in 1 .. Len(bad) /\ 1 <= i
        BY <1>5, <3>2
      <4>2. Home(1) <= Home(i) /\ Home(i) \in Int /\ bad[1] \in Nat /\ bad[i] \in Nat
        BY <1>1, <3>2, <4>1, HomesRise
      <4>3. Home(i) >= 0
        BY <4>2 DEF Home
      <4>4. SUFFICES ASSUME Home(i) < Size PROVE FALSE
        BY <1>5, <4>2
      <4>5. Home(i) \in Slots
        BY <1>5, <4>2, <4>3, <4>4
      <4>6. pBbt[Home(i)] = bad[i]
        BY <1>1, <3>2, <4>5, HitIsHome
      <4>7. pBbt[Home(i)] < bad[i]
        BY <3>1, <3>2, <4>4, <4>5 DEF Below
      <4>8. QED
        BY <4>2, <4>6, <4>7
    <3>4. k = Size
      <4>1. SUFFICES ASSUME i = 1 PROVE FALSE
        BY <3>2
      <4>2. bad[1] < Size /\ bad[1] \in Nat
        <5>1. 1 \in 1 .. Len(bad) /\ bad # <<>>
          BY <1>5, <3>2
        <5>2. QED
          BY <1>1, <1>6, <5>1, HomesRise DEF FirstFound
      <4>3. QED
        BY <1>5, <3>3, <4>1, <4>2 DEF Home
    <3>5. \A x \in Slots : MovedBy(i - 1, x) \in Nat
      BY <1>5, <3>2 DEF Built
    <3>6. \A x \in Slots : pBbt[x] = MovedBy(i - 1, x) + (IF Home(i) <= x /\ x < k THEN 1 ELSE 0)
      BY <1>5, <3>2, <3>3, <3>5 DEF Built
    <3>7. FoundInv'
      BY <1>2, <1>4, <3>1, <3>4, <3>6 DEF FoundInv
    <3>8. QED
      BY <1>3, <1>6, <3>7 DEF BuiltInv
  <2>7. CASE Shift
    <3>1. /\ pc = "shift" /\ pc' = "shift" /\ k < Size /\ k' = k + 1 /\ i' = i
          /\ pBbt' = [pBbt EXCEPT ![k] = @ + 1]
      BY <2>7 DEF Shift
    <3>2. i \in 1 .. Len(bad) /\ Home(i) \in Int
      <4>1. i \in 1 .. Len(bad)
        BY <1>1, <1>5, <3>1 DEF InList
      <4>2. QED
        BY <1>1, <4>1, HomesRise
    <3>3. k >= Home(i)
      BY <1>5, <2>1, <3>1 DEF FoundInv
    <3>4. ASSUME NEW x \in Slots
          PROVE  pBbt'[x] = MovedBy(i - 1, x) + (IF Home(i) <= x /\ x < k + 1 THEN 1 ELSE 0)
      <4>1. PICK n \in Nat : n = MovedBy(i - 1, x)
        <5>1. Cardinality(Behind(i - 1, x)) \in 0 .. i - 1 /\ x \in Nat /\ i \in Nat
          BY <1>1, <1>5, <3>2, BehindIs
        <5>2. QED
          BY <5>1 DEF MovedBy
      <4>2. pBbt[x] = n + (IF Home(i) <= x /\ x < k THEN 1 ELSE 0)
        BY <2>1, <3>1, <4>1 DEF FoundInv
      <4>3. pBbt'[x] = IF x = k THEN pBbt[x] + 1 ELSE pBbt[x]
        BY <1>5, <3>1
      <4>4. QED
        BY <1>5, <3>2, <3>3, <4>1, <4>2, <4>3
    <3>5. k' >= Home(i)
      BY <1>5, <3>1, <3>2, <3>3
    <3>6. FoundInv'
      BY <1>2, <1>4, <3>1, <3>4, <3>5 DEF FoundInv
    <3>7. QED
      BY <1>3, <1>6, <3>6 DEF BuiltInv
  <2>8. CASE ShiftEnd
    <3>1. pc = "shift" /\ pc' = "outer" /\ k = Size /\ i' = i + 1 /\ pBbt' = pBbt
      BY <2>8 DEF ShiftEnd
    <3>2. i \in 1 .. Len(bad) /\ i + 1 - 1 = i
      BY <1>1, <1>5, <3>1 DEF InList
    <3>3. ASSUME NEW x \in Slots PROVE pBbt[x] = MovedBy(i, x)
      <4>1. pBbt[x] = MovedBy(i - 1, x) + (IF Home(i) <= x /\ x < k THEN 1 ELSE 0)
        BY <2>1, <3>1 DEF FoundInv
      <4>2. x < k
        BY <1>5, <3>1
      <4>3. QED
        BY <1>1, <3>2, <4>1, <4>2, BehindIs
    <3>4. Built(i - 1)'
      <4>1. i' - 1 = i
        BY <1>5, <3>1
      <4>2. QED
        BY <1>2, <3>1, <3>3, <4>1 DEF Built, MovedBy, Behind, Home
    <3>5. FoundInv'
      BY <3>1, <3>4 DEF FoundInv
    <3>6. QED
      BY <1>3, <1>6, <3>5 DEF BuiltInv
  <2>9. CASE UNCHANGED vars
    <3>1. pc' = pc /\ k' = k /\ i' = i /\ pBbt' = pBbt
      BY <2>9 DEF vars
    <3>2. FoundInv'
      BY <1>2, <1>4, <2>1, <2>2, <3>1 DEF FoundInv
    <3>3. QED
      BY <1>3, <1>6, <3>2 DEF BuiltInv
  <2>10. QED
    BY <2>3, <2>4, <2>5, <2>6, <2>7, <2>8, <2>9 DEF Next
<1>7. CASE ~FirstFound
  <2>1. MissedInv /\ bad # <<>> /\ bad[1] \in Nat /\ bad[1] >= Size /\ Len(bad) > 0
    <3>1. 1 \in 1 .. Len(bad)
      BY <1>1, <1>5, <1>7 DEF FirstFound, TypeOK, BadLists
    <3>2. bad[1] \in Nat
      BY <1>1, <3>1, HomesRise
    <3>3. QED
      BY <1>5, <1>7, <3>1, <3>2 DEF BuiltInv, FirstFound
  <2>2. MissedInv'
    <3>1. CASE NextBad
      BY <1>2, <1>5, <2>1, <3>1 DEF NextBad, MissedInv
    <3>2. CASE SeekHit
      BY <1>2, <1>5, <2>1, <3>2 DEF SeekHit, MissedInv
    <3>3. CASE SeekMiss
      BY <1>2, <1>5, <2>1, <3>3 DEF SeekMiss, MissedInv
    <3>4. CASE SeekEnd
      BY <1>2, <1>5, <2>1, <3>4 DEF SeekEnd, MissedInv
    <3>5. CASE Shift
      BY <1>2, <1>5, <2>1, <3>5 DEF Shift, MissedInv
    <3>6. CASE ShiftEnd
      BY <1>2, <1>5, <2>1, <3>6 DEF ShiftEnd, MissedInv
    <3>7. CASE UNCHANGED vars
      BY <1>2, <1>5, <2>1, <3>7 DEF vars, MissedInv
    <3>8. QED
      BY <3>1, <3>2, <3>3, <3>4, <3>5, <3>6, <3>7 DEF Next
  <2>3. QED
    BY <1>3, <1>7, <2>2 DEF BuiltInv
<1>8. QED
  BY <1>6, <1>7

LEMMA BuiltDone == IInv /\ BuiltInv => TableIsBuilt
<1> SUFFICES ASSUME IInv, BuiltInv, pc = "done"
             PROVE  pBbt = TableBuilt(sys, bad)
  BY DEF TableIsBuilt
<1>1. TypeOK /\ Len(bad) \in Nat /\ DOMAIN bad = 1 .. Len(bad) /\ pBbt \in [Slots -> Nat]
      /\ i \in 1 .. Len(bad) + 1
  BY Sizes DEF IInv, TypeOK, BadLists
<1>2. Slots = 0 .. (sys - Len(bad)) - 1 /\ Size = sys - Len(bad)
  BY DEF Slots, Size
<1>3. CASE FirstFound
  <2>1. Built(Len(bad))
    BY <1>3 DEF BuiltInv, FoundInv
  <2>2. ~(bad # <<>> /\ bad[1] >= Size)
    <3>1. SUFFICES ASSUME bad # <<>> PROVE bad[1] < Size /\ bad[1] \in Nat /\ Size \in Nat
      OBVIOUS
    <3>2. 1 \in 1 .. Len(bad)
      BY <1>1, <3>1 DEF TypeOK, BadLists
    <3>3. QED
      BY <1>1, <1>3, <3>1, <3>2, HomesRise, Sizes DEF FirstFound
  <2>3. \A x \in Slots : Behind(Len(bad), x) = {m \in DOMAIN bad : bad[m] - m + 1 <= x}
    BY <1>1 DEF Behind, Home
  <2>4. QED
    BY <1>1, <1>2, <2>1, <2>2, <2>3 DEF Built, MovedBy, TableBuilt
<1>4. CASE ~FirstFound
  <2>1. \A x \in Slots : pBbt[x] = x + 1
    BY <1>1, <1>4 DEF BuiltInv, MissedInv
  <2>2. bad # <<>> /\ bad[1] >= Size
    <3>1. bad # <<>> /\ ~(bad[1] < Size)
      BY <1>4 DEF FirstFound
    <3>2. 1 \in 1 .. Len(bad)
      BY <1>1, <3>1 DEF TypeOK, BadLists
    <3>3. QED
      BY <1>1, <3>1, <3>2, HomesRise, Sizes
  <2>3. QED
    BY <1>1, <1>2, <2>1, <2>2 DEF TableBuilt
<1>5. QED
  BY <1>3, <1>4

(* The loops compute the one-expression form, for every size of the system  *)
(* area and every bad-block list, found or not.                             *)
(* (create_badblock_table_by_bbt.)                                          *)
THEOREM TableIsBuiltAlways == Spec => []TableIsBuilt
<1>1. Init => IInv /\ BuiltInv
  BY TableInit, BuiltStart
<1>2. IInv /\ BuiltInv /\ [Next]_vars => IInv' /\ BuiltInv'
  BY TableNext, BuiltNext
<1>3. QED
  BY <1>1, <1>2, BuiltDone, PTL DEF Spec

=============================================================================
