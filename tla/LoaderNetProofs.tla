--------------------------- MODULE LoaderNetProofs ---------------------------
(***************************************************************************)
(* What the boot loader's network code keeps true whatever the number of   *)
(* buffers and descriptors, however many frames come and go, and wherever  *)
(* the interrupt falls: the descriptors and the indices into them describe *)
(* one ring and the receive loop does not run inside itself; and as long   *)
(* as alloc_skb marks a buffer that is still free (ClaimIsFree), every     *)
(* buffer has one owner and the driver is a queue.                         *)
(*                                                                         *)
(* The rings are described by the distance of a descriptor from the oldest *)
(* one in use (Off), so that all that is said of them is linear, and the   *)
(* wrap of an index is a case of its own (Wrap).                           *)
(***************************************************************************)
EXTENDS LoaderNet, FiniteSetTheorems, WellFoundedInduction, TLAPS

-----------------------------------------------------------------------------
(* Arithmetic of rings. *)
Wrap(x, n) == IF x < n THEN x ELSE x - n
Off(u, j, n) == IF j >= u THEN j - u ELSE j + n - u

LEMMA WrapMod ==
  ASSUME NEW n \in Nat \ {0}, NEW x \in 0 .. 2 * n - 1
  PROVE  x % n = Wrap(x, n) /\ x % n \in 0 .. n - 1
<1>1. CASE x < n
  <2>1. x = n * 0 + x /\ x \in 0 .. n - 1
    BY <1>1
  <2>2. x % n = x
    BY <2>1
  <2>3. QED
    BY <1>1, <2>1, <2>2 DEF Wrap
<1>2. CASE x >= n
  <2>1. PICK y \in 0 .. n - 1 : x = n * 1 + y
    <3>1. x - n \in 0 .. n - 1 /\ x = n * 1 + (x - n)
      BY <1>2
    <3>2. QED
      BY <3>1
  <2>2. x % n = y
    BY <2>1
  <2>3. QED
    BY <1>2, <2>1, <2>2 DEF Wrap
<1>3. QED
  BY <1>1, <1>2

LEMMA NextMod ==
  ASSUME NEW n \in Nat \ {0}, NEW x \in 0 .. n - 1
  PROVE  (x + 1) % n = Wrap(x + 1, n)
<1>1. x + 1 \in 0 .. 2 * n - 1
  OBVIOUS
<1>2. QED
  BY <1>1, WrapMod

LEMMA Sizes ==
  /\ NTx \in Nat \ {0, 1} /\ NRx \in Nat \ {0, 1} /\ NBufs \in Nat \ {0} /\ NRx <= NBufs
  /\ 2 * NTx \in Nat \ {0, 1} /\ 2 * NRx \in Nat \ {0, 1}
  /\ Threshold \in 1 .. NTx - 1
  /\ MaxFrames \in Nat /\ MaxSends \in Nat /\ MaxPkts \in Nat \ {0}
  /\ R!TxSlots = 0 .. NTx - 1 /\ R!RxSlots = 0 .. NRx - 1
  /\ Q!TxDscps = 0 .. NTx - 1 /\ Q!RxDscps = 0 .. NRx - 1
  /\ R!Bufs = 0 .. NBufs - 1 /\ Q!Bufs = R!Bufs
  /\ R!NoBuf = NBufs /\ Q!NoBuf = NBufs /\ NBufs \notin R!Bufs
BY LoaderNetAssumption
DEF R!TxSlots, R!RxSlots, Q!TxDscps, Q!RxDscps, R!Bufs, Q!Bufs, R!NoBuf, Q!NoBuf

-----------------------------------------------------------------------------
(* The older MACs.  Of the cnt descriptors given out, s are sent: their     *)
(* own bits are clear, and the hardware stands behind them.                 *)
Held == 0 .. NBufs
Frames == Kinds \cup {"noise"}
TxRing == [0 .. NTx - 1 -> [own : BOOLEAN, skb : Held]]
RxRing == [0 .. NRx - 1 -> [own : BOOLEAN, skb : Held, frame : Frames]]

RingDev ==
  [tx : TxRing, rx : RxRing,
   txCurrentDescp : R!TxSlots, txUnReleasedDescp : R!TxSlots,
   txUnReleasedBufCnt : 0 .. NTx, rxCurrentDescp : R!RxSlots,
   txHead : 0 .. 2 * NTx - 1, rxHead : 0 .. 2 * NRx - 1,
   txDoor : 0 .. 2 * NTx - 1, rxDoor : 0 .. 2 * NRx - 1]

TxPlace(m, u, s, n, cur, head, door) ==
  /\ m \in R!RingMacs /\ u \in 0 .. NTx - 1 /\ s \in 0 .. NTx /\ n \in 0 .. NTx
  /\ cur \in 0 .. NTx - 1 /\ head \in 0 .. 2 * NTx - 1 /\ door \in 0 .. 2 * NTx - 1
  /\ s <= n /\ n <= R!TxLimit(m)
  /\ cur = Wrap(u + n, NTx)
  /\ Wrap(head, NTx) = Wrap(u + s, NTx)
  /\ m = "gmac" => door = Wrap(head + n - s, 2 * NTx)
  /\ m = "femac" => door = cur

TxBits(tx, u, s, n) ==
  /\ tx \in TxRing /\ u \in 0 .. NTx - 1 /\ s \in 0 .. NTx /\ n \in 0 .. NTx /\ s <= n
  /\ \A i \in 0 .. NTx - 1 :
       /\ tx[i].own <=> s <= Off(u, i, NTx) /\ Off(u, i, NTx) < n
       /\ tx[i].skb # NBufs <=> Off(u, i, NTx) < n

RingTx(m, d, s) ==
  /\ TxPlace(m, d.txUnReleasedDescp, s, d.txUnReleasedBufCnt, d.txCurrentDescp, d.txHead, d.txDoor)
  /\ TxBits(d.tx, d.txUnReleasedDescp, s, d.txUnReleasedBufCnt)

(* q receive descriptors are filled; while a frame is handled, its          *)
(* descriptor has no buffer.                                                *)
RxPlace(m, r, q, head, door) ==
  /\ m \in R!RingMacs /\ r \in 0 .. NRx - 1 /\ q \in 0 .. NRx
  /\ head \in 0 .. 2 * NRx - 1 /\ door \in 0 .. 2 * NRx - 1
  /\ Wrap(head, NRx) = Wrap(r + q, NRx)
  /\ m = "gmac" => door = Wrap(head + NRx - q, 2 * NRx)
  /\ m = "femac" => q < NRx /\ door = Wrap(r + NRx - 1, NRx)

RxBits(rx, r, q, busy) ==
  /\ rx \in RxRing /\ r \in 0 .. NRx - 1 /\ q \in 0 .. NRx
  /\ \A i \in 0 .. NRx - 1 :
       /\ rx[i].own <=> q <= Off(r, i, NRx)
       /\ rx[i].skb # NBufs <=> ~(busy /\ i = r)

RingRx(m, d, busy, q) ==
  /\ busy => q > 0
  /\ RxPlace(m, d.rxCurrentDescp, q, d.rxHead, d.rxDoor)
  /\ RxBits(d.rx, d.rxCurrentDescp, q, busy)

RingOK(m, d, busy) ==
  /\ d \in RingDev
  /\ \E s \in 0 .. NTx : RingTx(m, d, s)
  /\ \E q \in 0 .. NRx : RingRx(m, d, busy, q)

-----------------------------------------------------------------------------
(* The QDMA.  c leads along the links from the hardware's descriptor to the *)
(* driver's; with the unused descriptors and the ones in the interrupt      *)
(* queue it is all of them, each once.                                      *)
Dscps == 0 .. NTx - 1
TxChain == [Dscps -> [skb : Held, next_idx : Dscps]]
RxChain == [0 .. NRx - 1 -> [skb : Held, done : BOOLEAN, frame : Frames]]

ChainDev ==
  [tx : TxChain, unused : Seq(Dscps), txUsing : Dscps, txDma : Dscps,
   irq : Seq(Dscps), irqWritten : Nat,
   rx : RxChain, rxStart : 0 .. NRx - 1, rxEnd : 0 .. NRx - 1, rxDma : 0 .. NRx - 1]

Once(a) == \A k, l \in 1 .. Len(a) : a[k] = a[l] => k = l
Disjoint(a, b) == \A k \in 1 .. Len(a), l \in 1 .. Len(b) : a[k] # b[l]
In(i, a) == \E k \in 1 .. Len(a) : a[k] = i

Links(tx, dma, using, c) ==
  /\ tx \in TxChain /\ c \in Seq(Dscps)
  /\ Len(c) > 0 /\ c[1] = dma /\ c[Len(c)] = using
  /\ \A k \in 1 .. Len(c) - 1 : tx[c[k]].next_idx = c[k + 1]

Partition(c, unused, irq) ==
  /\ c \in Seq(Dscps) /\ unused \in Seq(Dscps) /\ irq \in Seq(Dscps)
  /\ Once(c) /\ Once(unused) /\ Once(irq)
  /\ Disjoint(c, unused) /\ Disjoint(c, irq) /\ Disjoint(unused, irq)
  /\ \A i \in Dscps : In(i, c) \/ In(i, unused) \/ In(i, irq)

Filled(tx, c, unused, irq) ==
  /\ \A k \in 1 .. Len(c) : tx[c[k]].skb # NBufs <=> k < Len(c)
  /\ \A k \in 1 .. Len(unused) : tx[unused[k]].skb = NBufs
  /\ \A k \in 1 .. Len(irq) : tx[irq[k]].skb # NBufs

ChainTx(d, c) ==
  /\ d.irqWritten <= Len(d.irq)
  /\ Links(d.tx, d.txDma, d.txUsing, c)
  /\ Partition(c, d.unused, d.irq)
  /\ Filled(d.tx, c, d.unused, d.irq)

(* Of the receive ring the descriptors from rxStart to rxEnd have a buffer,  *)
(* those up to the hardware's also a frame.                                 *)
Span(start, end, dma, busy) ==
  /\ start \in 0 .. NRx - 1 /\ end \in 0 .. NRx - 1 /\ dma \in 0 .. NRx - 1
  /\ Off(start, end, NRx) = IF busy THEN NRx - 2 ELSE NRx - 1
  /\ Off(start, dma, NRx) <= Off(start, end, NRx)

Slots(rx, start, end, dma) ==
  /\ rx \in RxChain
  /\ \A i \in 0 .. NRx - 1 :
       /\ Off(start, i, NRx) < Off(start, end, NRx) =>
            (rx[i].done <=> Off(start, i, NRx) < Off(start, dma, NRx))
       /\ rx[i].skb # NBufs <=> Off(start, i, NRx) < Off(start, end, NRx)

ChainRx(d, busy) ==
  /\ Span(d.rxStart, d.rxEnd, d.rxDma, busy)
  /\ Slots(d.rx, d.rxStart, d.rxEnd, d.rxDma)

ChainOK(d, busy) ==
  /\ d \in ChainDev
  /\ \E c \in Seq(Dscps) : ChainTx(d, c)
  /\ ChainRx(d, busy)

-----------------------------------------------------------------------------
(* Where the handler is says whether it has a frame and an answer; only the *)
(* innermost activation is before its last step, and then the interrupt is  *)
(* masked.  Where the main program is says how many buffers it has.         *)
Innermost == IF handler = <<>> THEN "none" ELSE handler[1]
Busy == job # NoJob

HandlerControl ==
  /\ \A n \in DOMAIN handler : n > 1 => handler[n] = "tail"
  /\ Innermost \notin {"none", "tail"} => ~imr
  /\ Busy <=> Innermost \in {"rcv", "reclaim", "post", "repost"}
  /\ Busy => job.skb \in R!Bufs /\ job.new \in R!Bufs
  /\ out # <<>> <=> Innermost \in {"reclaim", "post"}

MainControl ==
  /\ pc \in {"idle", "lookup", "drop"} => Len(held) = (IF pc = "idle" THEN 0 ELSE 1)
  /\ pc \in {"pick", "advance", "test", "claim"} => Len(held) <= 1
  /\ pc \in {"cli", "post"} => Len(held) > 0

DevOK == IF IsQdma THEN ChainOK(dev, Busy) ELSE RingOK(mac, dev, Busy)

IInv == TypeOK /\ DevOK /\ HandlerControl /\ MainControl

-----------------------------------------------------------------------------
(* The operations of the older MACs. *)
LEMMA RingFields ==
  ASSUME NEW d \in RingDev
  PROVE  /\ d.tx \in TxRing /\ d.rx \in RxRing
         /\ d.txCurrentDescp \in 0 .. NTx - 1 /\ d.txUnReleasedDescp \in 0 .. NTx - 1
         /\ d.txUnReleasedBufCnt \in 0 .. NTx /\ d.rxCurrentDescp \in 0 .. NRx - 1
         /\ d.txHead \in 0 .. 2 * NTx - 1 /\ d.rxHead \in 0 .. 2 * NRx - 1
         /\ d.txDoor \in 0 .. 2 * NTx - 1 /\ d.rxDoor \in 0 .. 2 * NRx - 1
BY Sizes DEF RingDev

(* The indices of the send ring, when a descriptor is filled, when k are     *)
(* given back, and when one is sent.                                        *)
LEMMA PlacePost ==
  ASSUME NEW m, NEW u, NEW s, NEW n, NEW cur, NEW head, NEW door,
         TxPlace(m, u, s, n, cur, head, door), n # R!TxLimit(m),
         NEW door2 \in 0 .. 2 * NTx - 1, m = "gmac" => door2 = Wrap(door + 1, 2 * NTx),
         m = "femac" => door2 = Wrap(cur + 1, NTx)
  PROVE  /\ n + 1 \in 0 .. NTx /\ Off(u, cur, NTx) = n /\ n < NTx
         /\ TxPlace(m, u, s, n + 1, Wrap(cur + 1, NTx), head, door2)
<1>1. R!TxLimit(m) \in {NTx, NTx - 1}
  BY DEF R!TxLimit
<1>2. n < R!TxLimit(m) /\ n < NTx
  BY <1>1, Sizes DEF TxPlace
<1>3. QED
  BY <1>1, <1>2, Sizes DEF TxPlace, Wrap, Off

LEMMA PlaceReclaim ==
  ASSUME NEW m, NEW u, NEW s, NEW n, NEW cur, NEW head, NEW door,
         TxPlace(m, u, s, n, cur, head, door), NEW k \in 0 .. s
  PROVE  TxPlace(m, Wrap(u + k, NTx), s - k, n - k, cur, head, door)
<1>1. R!TxLimit(m) \in {NTx, NTx - 1}
  BY DEF R!TxLimit
<1>2. /\ s <= n /\ n <= R!TxLimit(m) /\ k <= s /\ s - k \in Nat /\ n - k \in Nat
      /\ n - k <= R!TxLimit(m)
  BY <1>1, Sizes DEF TxPlace
<1>3. head + (n - k) - (s - k) = head + n - s
  BY <1>2, Sizes DEF TxPlace
<1>4. QED
  BY <1>1, <1>2, <1>3, Sizes DEF TxPlace, Wrap

LEMMA PlaceSend ==
  ASSUME NEW m, NEW u, NEW s, NEW n, NEW cur, NEW head, NEW door,
         TxPlace(m, u, s, n, cur, head, door), s < n
  PROVE  /\ Wrap(head, NTx) \in 0 .. NTx - 1 /\ Off(u, Wrap(head, NTx), NTx) = s
         /\ TxPlace(m, u, s + 1, n, cur, Wrap(head + 1, 2 * NTx), door)
<1>1. R!TxLimit(m) \in {NTx, NTx - 1}
  BY DEF R!TxLimit
<1>2. QED
  BY <1>1, Sizes DEF TxPlace, Wrap, Off

LEMMA OffApart ==
  ASSUME NEW n \in Nat \ {0}, NEW u \in 0 .. n - 1, NEW i \in 0 .. n - 1, NEW j \in 0 .. n - 1,
         Off(u, i, n) = Off(u, j, n)
  PROVE  i = j
BY DEF Off

LEMMA OffIn ==
  ASSUME NEW n \in Nat \ {0}, NEW u \in 0 .. n - 1, NEW i \in 0 .. n - 1
  PROVE  Off(u, i, n) \in 0 .. n - 1
BY DEF Off

(* Its descriptors. *)
LEMMA BitsPost ==
  ASSUME NEW tx, NEW u, NEW s, NEW n, TxBits(tx, u, s, n), n < NTx,
         NEW cur \in 0 .. NTx - 1, Off(u, cur, NTx) = n, NEW b \in R!Bufs
  PROVE  /\ tx[cur].skb = NBufs
         /\ TxBits([tx EXCEPT ![cur] = [own |-> TRUE, skb |-> b]], u, s, n + 1)
<1>0. /\ tx \in TxRing /\ u \in 0 .. NTx - 1 /\ s \in 0 .. NTx /\ n \in 0 .. NTx /\ s <= n
      /\ s \in Nat /\ n \in Nat
  BY Sizes DEF TxBits
<1> DEFINE tx2 == [tx EXCEPT ![cur] = [own |-> TRUE, skb |-> b]]
<1>1. tx[cur].skb = NBufs
  BY <1>0, Sizes DEF TxBits
<1>2. tx2 \in TxRing
  BY <1>0, Sizes DEF TxRing, Held
<1>3. TxBits(tx2, u, s, n + 1)
  <2> SUFFICES ASSUME NEW i \in 0 .. NTx - 1
               PROVE  /\ tx2[i].own <=> s <= Off(u, i, NTx) /\ Off(u, i, NTx) < n + 1
                      /\ tx2[i].skb # NBufs <=> Off(u, i, NTx) < n + 1
    BY <1>0, <1>2, Sizes DEF TxBits
  <2>1. Off(u, i, NTx) \in 0 .. NTx - 1
    BY <1>0, OffIn, Sizes
  <2>2. CASE i = cur
    <3>1. tx2[i].own = TRUE /\ tx2[i].skb = b
      BY <1>0, <2>2 DEF TxRing
    <3>2. QED
      BY <1>0, <2>2, <3>1, Sizes
  <2>3. CASE i # cur
    <3>1. tx2[i] = tx[i]
      BY <1>0, <2>3 DEF TxRing
    <3>2. Off(u, i, NTx) # n
      BY <1>0, <2>3, OffApart, Sizes
    <3>3. PICK o \in 0 .. NTx - 1 : o = Off(u, i, NTx)
      BY <1>0, <2>1
    <3>4. (tx[i].own <=> s <= o /\ o < n) /\ (tx[i].skb # NBufs <=> o < n)
      BY <1>0, <3>3 DEF TxBits
    <3>5. o < n <=> o < n + 1
      BY <1>0, <3>2, <3>3, Sizes
    <3>6. QED
      BY <1>0, <3>1, <3>3, <3>4, <3>5
  <2>4. QED
    BY <1>0, <2>2, <2>3
<1>4. QED
  BY <1>0, <1>1, <1>2, <1>3

LEMMA OffWrap ==
  ASSUME NEW n \in Nat \ {0}, NEW u \in 0 .. n - 1, NEW k \in 0 .. n, NEW i \in 0 .. n - 1
  PROVE  Off(Wrap(u + k, n), i, n) = IF Off(u, i, n) >= k THEN Off(u, i, n) - k
                                     ELSE Off(u, i, n) + n - k
BY DEF Off, Wrap

LEMMA BitsReclaim ==
  ASSUME NEW tx, NEW u, NEW s, NEW n, TxBits(tx, u, s, n), NEW k \in 0 .. s, NEW tx2 \in TxRing,
         \A i \in 0 .. NTx - 1 :
           tx2[i].own = tx[i].own /\ tx2[i].skb = IF Off(u, i, NTx) < k THEN NBufs ELSE tx[i].skb
  PROVE  TxBits(tx2, Wrap(u + k, NTx), s - k, n - k)
<1>0. /\ tx \in TxRing /\ u \in 0 .. NTx - 1 /\ s \in 0 .. NTx /\ n \in 0 .. NTx /\ s <= n
      /\ s \in Nat /\ n \in Nat
  BY Sizes DEF TxBits
<1>a. /\ Wrap(u + k, NTx) \in 0 .. NTx - 1 /\ s - k \in 0 .. NTx /\ n - k \in 0 .. NTx
      /\ s - k <= n - k /\ k \in Nat
  BY <1>0, Sizes DEF Wrap
<1> SUFFICES ASSUME NEW i \in 0 .. NTx - 1
             PROVE  LET o2 == Off(Wrap(u + k, NTx), i, NTx)
                    IN  /\ tx2[i].own <=> s - k <= o2 /\ o2 < n - k
                        /\ tx2[i].skb # NBufs <=> o2 < n - k
  BY <1>0, <1>a DEF TxBits
<1>1. PICK o \in 0 .. NTx - 1 : o = Off(u, i, NTx)
  BY <1>0, OffIn, Sizes
<1>2. PICK o2 \in 0 .. NTx - 1 : o2 = Off(Wrap(u + k, NTx), i, NTx)
  BY <1>a, OffIn, Sizes
<1>3. o2 = IF o >= k THEN o - k ELSE o + NTx - k
  <2>1. k \in 0 .. NTx /\ NTx \in Nat \ {0}
    BY <1>0, Sizes
  <2>2. QED
    BY <1>0, <1>1, <1>2, <2>1, OffWrap, Zenon
<1>4. (tx[i].own <=> s <= o /\ o < n) /\ (tx[i].skb # NBufs <=> o < n)
  BY <1>0, <1>1 DEF TxBits
<1>5. tx2[i].own = tx[i].own /\ tx2[i].skb = IF o < k THEN NBufs ELSE tx[i].skb
  BY <1>0, <1>1
<1>6. (s <= o /\ o < n) <=> (s - k <= o2 /\ o2 < n - k)
  BY <1>0, <1>3, Sizes
<1>7. (o2 < n - k) <=> (o >= k /\ o < n)
  BY <1>0, <1>3, Sizes
<1>8. CASE o < k
  <2>1. ~(o2 < n - k) /\ tx2[i].skb = NBufs
    BY <1>0, <1>5, <1>7, <1>8, Sizes
  <2>2. QED
    BY <1>0, <1>2, <1>4, <1>5, <1>6, <2>1
<1>9. CASE ~(o < k)
  <2>0. o >= k
    BY <1>0, <1>9, Sizes
  <2>1. o2 < n - k <=> o < n
    BY <1>0, <1>7, <2>0, Zenon
  <2>2. QED
    BY <1>0, <1>2, <1>4, <1>5, <1>6, <1>9, <2>1
<1>10. QED
  BY <1>0, <1>8, <1>9

LEMMA BitsSend ==
  ASSUME NEW tx, NEW u, NEW s, NEW n, TxBits(tx, u, s, n), s < n,
         NEW x \in 0 .. NTx - 1, Off(u, x, NTx) = s
  PROVE  /\ tx[x].own
         /\ TxBits([tx EXCEPT ![x].own = FALSE], u, s + 1, n)
<1>0. /\ tx \in TxRing /\ u \in 0 .. NTx - 1 /\ s \in 0 .. NTx /\ n \in 0 .. NTx /\ s <= n
      /\ s \in Nat /\ n \in Nat
  BY Sizes DEF TxBits
<1> DEFINE tx2 == [tx EXCEPT ![x].own = FALSE]
<1>a. NTx \in Nat \ {0} /\ s + 1 \in 0 .. NTx /\ s + 1 <= n
  BY <1>0, Sizes
<1>1. tx2 \in TxRing
  BY <1>0, Sizes DEF TxRing
<1>2. TxBits(tx2, u, s + 1, n)
  <2> SUFFICES ASSUME NEW i \in 0 .. NTx - 1
               PROVE  /\ tx2[i].own <=> s + 1 <= Off(u, i, NTx) /\ Off(u, i, NTx) < n
                      /\ tx2[i].skb # NBufs <=> Off(u, i, NTx) < n
    <3> HIDE DEF tx2
    <3>1. QED
      BY <1>0, <1>a, <1>1 DEF TxBits
  <2>1. PICK o \in 0 .. NTx - 1 : o = Off(u, i, NTx)
    BY <1>0, <1>a, OffIn
  <2>2. (tx[i].own <=> s <= o /\ o < n) /\ (tx[i].skb # NBufs <=> o < n)
    BY <1>0, <2>1 DEF TxBits
  <2>3. tx2[i].skb = tx[i].skb /\ tx2[i].own = IF i = x THEN FALSE ELSE tx[i].own
    BY <1>0 DEF TxRing
  <2>4. i = x <=> o = s
    BY <1>0, <2>1, OffApart, Sizes
  <2>5. (s + 1 <= o /\ o < n) <=> (s <= o /\ o < n /\ o # s)
    BY <1>0, Sizes
  <2>6. QED
    BY <1>0, <2>1, <2>2, <2>3, <2>4, <2>5
<1>3. tx[x].own
  BY <1>0, Sizes DEF TxBits
<1>4. QED
  BY <1>2, <1>3

(* What is sent is what is not the hardware's any more, oldest first. *)
LEMMA SentIs ==
  ASSUME NEW m \in R!RingMacs, NEW d \in RingDev, NEW s \in 0 .. NTx, RingTx(m, d, s)
  PROVE  /\ \A i \in 0 .. NTx : R!TxAt(d, i) = Wrap(d.txUnReleasedDescp + i, NTx)
         /\ R!Sent(d) = 0 .. s
         /\ R!Released(m, d) = IF m = "mac" /\ s > 1 THEN 1 ELSE s
         /\ R!Released(m, d) \in 0 .. s
<1>1. /\ d.tx \in TxRing /\ d.txUnReleasedDescp \in 0 .. NTx - 1
      /\ d.txUnReleasedBufCnt \in 0 .. NTx
  BY RingFields
<1>2. PICK u \in 0 .. NTx - 1 : u = d.txUnReleasedDescp
  BY <1>1
<1>3. PICK n \in 0 .. NTx : n = d.txUnReleasedBufCnt
  BY <1>1
<1>4. s <= n /\ TxBits(d.tx, u, s, n)
  BY <1>2, <1>3 DEF RingTx, TxPlace
<1>5. \A i \in 0 .. NTx : R!TxAt(d, i) = Wrap(u + i, NTx)
  <2> SUFFICES ASSUME NEW i \in 0 .. NTx PROVE R!TxAt(d, i) = Wrap(u + i, NTx)
    OBVIOUS
  <2>1. u + i \in 0 .. 2 * NTx - 1 /\ NTx \in Nat \ {0}
    BY Sizes
  <2>2. (u + i) % NTx = Wrap(u + i, NTx)
    BY <2>1, WrapMod
  <2>3. QED
    BY <1>2, <2>2 DEF R!TxAt
<1>6. \A i \in 0 .. n - 1 : d.tx[R!TxAt(d, i)].own <=> s <= i
  <2> SUFFICES ASSUME NEW i \in 0 .. n - 1 PROVE d.tx[R!TxAt(d, i)].own <=> s <= i
    OBVIOUS
  <2>1. /\ R!TxAt(d, i) = Wrap(u + i, NTx) /\ Wrap(u + i, NTx) \in 0 .. NTx - 1
        /\ Off(u, Wrap(u + i, NTx), NTx) = i
    <3>1. i \in 0 .. NTx - 1
      BY Sizes
    <3>2. QED
      BY <1>5, <3>1, Sizes DEF Wrap, Off
  <2>2. d.tx[Wrap(u + i, NTx)].own <=> s <= i /\ i < n
    BY <1>4, <2>1 DEF TxBits
  <2>3. QED
    BY <2>1, <2>2
<1>7. R!Sent(d) = {k \in 0 .. n : \A i \in 0 .. k - 1 : ~d.tx[R!TxAt(d, i)].own}
  BY <1>3 DEF R!Sent
<1>8. R!Sent(d) = 0 .. s
  <2>1. \A k \in 0 .. n : (\A i \in 0 .. k - 1 : ~d.tx[R!TxAt(d, i)].own) <=> k <= s
    <3> SUFFICES ASSUME NEW k \in 0 .. n
                 PROVE  (\A i \in 0 .. k - 1 : ~d.tx[R!TxAt(d, i)].own) <=> k <= s
      OBVIOUS
    <3>1. ASSUME k <= s, NEW i \in 0 .. k - 1 PROVE ~d.tx[R!TxAt(d, i)].own
      <4>1. i \in 0 .. n - 1 /\ ~(s <= i)
        BY <3>1, Sizes
      <4>2. QED
        BY <1>6, <4>1
    <3>2. ASSUME ~(k <= s) PROVE \E i \in 0 .. k - 1 : d.tx[R!TxAt(d, i)].own
      <4>1. s \in 0 .. k - 1 /\ s \in 0 .. n - 1 /\ s <= s
        BY <3>2, Sizes
      <4>2. QED
        BY <1>6, <4>1
    <3>3. QED
      BY <3>1, <3>2
  <2>2. {k \in 0 .. n : k <= s} = 0 .. s
    BY <1>4, Sizes
  <2>3. QED
    BY <1>7, <2>1, <2>2
<1>9. R!Released(m, d) = IF m = "mac" /\ s > 1 THEN 1 ELSE s
  <2>1. (CHOOSE k \in 0 .. s : \A l \in 0 .. s : l <= k) = s
    BY Sizes
  <2>2. QED
    BY <1>8, <2>1 DEF R!Released, R!ReclaimsOne
<1>10. QED
  BY <1>2, <1>5, <1>8, <1>9, Sizes

-----------------------------------------------------------------------------
(* The receive ring: a descriptor gets its new buffer, or a frame.          *)
LEMMA PlaceRepost ==
  ASSUME NEW m, NEW r, NEW q, NEW head, NEW door, RxPlace(m, r, q, head, door), q > 0,
         NEW door2 \in 0 .. 2 * NRx - 1,
         m = "gmac" => door2 = Wrap(door + 1, 2 * NRx), m = "femac" => door2 = r
  PROVE  RxPlace(m, Wrap(r + 1, NRx), q - 1, head, door2)
BY Sizes DEF RxPlace, Wrap

LEMMA PlaceArrive ==
  ASSUME NEW m, NEW r, NEW q, NEW head, NEW door, RxPlace(m, r, q, head, door),
         q < NRx, m = "femac" => q < NRx - 1
  PROVE  /\ Wrap(head, NRx) \in 0 .. NRx - 1 /\ Off(r, Wrap(head, NRx), NRx) = q
         /\ RxPlace(m, r, q + 1, Wrap(head + 1, 2 * NRx), door)
BY Sizes DEF RxPlace, Wrap, Off

LEMMA OffSelf ==
  ASSUME NEW n \in Nat \ {0}, NEW u \in 0 .. n - 1, NEW i \in 0 .. n - 1
  PROVE  Off(u, i, n) = 0 <=> i = u
BY DEF Off

LEMMA BitsTake ==
  ASSUME NEW rx, NEW r, NEW q, RxBits(rx, r, q, FALSE)
  PROVE  /\ rx[r].skb # NBufs
         /\ RxBits([rx EXCEPT ![r].skb = NBufs], r, q, TRUE)
<1>0. rx \in RxRing /\ r \in 0 .. NRx - 1 /\ q \in 0 .. NRx /\ q \in Nat
  BY Sizes DEF RxBits
<1> DEFINE rx2 == [rx EXCEPT ![r].skb = NBufs]
<1>1. rx2 \in RxRing
  <2>1. NBufs \in Held
    BY Sizes DEF Held
  <2>2. QED
    BY <1>0, <2>1 DEF RxRing
<1>3. rx[r].skb # NBufs
  BY <1>0, Sizes DEF RxBits
<1>2. \A i \in 0 .. NRx - 1 : rx2[i].own = rx[i].own
                              /\ rx2[i].skb = IF i = r THEN NBufs ELSE rx[i].skb
  BY <1>0 DEF RxRing
<1>4. QED
  BY <1>0, <1>1, <1>2, <1>3 DEF RxBits

LEMMA BitsRepost ==
  ASSUME NEW rx, NEW r, NEW q, NEW busy \in BOOLEAN, RxBits(rx, r, q, busy), q > 0, NEW b \in R!Bufs
  PROVE  LET rx2 == [rx EXCEPT ![r] = [own |-> TRUE, skb |-> b, frame |-> "noise"]]
         IN  RxBits(rx2, Wrap(r + 1, NRx), q - 1, FALSE)
<1>0. rx \in RxRing /\ r \in 0 .. NRx - 1 /\ q \in 0 .. NRx /\ q \in Nat
  BY Sizes DEF RxBits
<1> DEFINE rx2 == [rx EXCEPT ![r] = [own |-> TRUE, skb |-> b, frame |-> "noise"]]
<1>1. rx2 \in RxRing
  BY <1>0, Sizes DEF RxRing, Held, Frames
<1>2. \A i \in 0 .. NRx - 1 : /\ rx2[i].own = IF i = r THEN TRUE ELSE rx[i].own
                              /\ rx2[i].skb = IF i = r THEN b ELSE rx[i].skb
  BY <1>0 DEF RxRing
<1>3. ASSUME NEW i \in 0 .. NRx - 1
      PROVE  /\ rx2[i].own <=> q - 1 <= Off(Wrap(r + 1, NRx), i, NRx)
             /\ rx2[i].skb # NBufs
  <2>1. PICK o \in 0 .. NRx - 1 : o = Off(r, i, NRx)
    BY <1>0, OffIn, Sizes
  <2>2. Off(Wrap(r + 1, NRx), i, NRx) = IF o >= 1 THEN o - 1 ELSE o + NRx - 1
    <3>1. 1 \in 0 .. NRx /\ NRx \in Nat \ {0}
      BY <1>0, Sizes
    <3>2. QED
      BY <1>0, <2>1, <3>1, OffWrap, Zenon
  <2>3. o = 0 <=> i = r
    BY <1>0, <2>1, OffSelf, Sizes
  <2>4. (rx[i].own <=> q <= o) /\ (rx[i].skb # NBufs <=> ~(busy /\ i = r))
    BY <1>0, <2>1 DEF RxBits
  <2>5. CASE i = r
    <3>1. q - 1 <= o + NRx - 1 /\ ~(o >= 1)
      BY <1>0, <2>3, <2>5, Sizes
    <3>2. QED
      BY <1>0, <1>2, <2>2, <2>5, <3>1, Sizes
  <2>6. CASE i # r
    <3>1. o >= 1 /\ (q <= o <=> q - 1 <= o - 1)
      BY <1>0, <2>3, <2>6, Sizes
    <3>2. QED
      BY <1>0, <1>2, <2>2, <2>4, <2>6, <3>1
  <2>7. QED
    BY <1>0, <2>5, <2>6
<1>4. Wrap(r + 1, NRx) \in 0 .. NRx - 1 /\ q - 1 \in 0 .. NRx
  BY <1>0, Sizes DEF Wrap
<1>5. QED
  BY <1>1, <1>3, <1>4 DEF RxBits

LEMMA BitsArrive ==
  ASSUME NEW rx, NEW r, NEW q, NEW busy \in BOOLEAN, RxBits(rx, r, q, busy), q < NRx,
         NEW x \in 0 .. NRx - 1, Off(r, x, NRx) = q, NEW rx2 \in RxRing,
         \A i \in 0 .. NRx - 1 : rx2[i].own <=> i # x /\ rx[i].own,
         \A i \in 0 .. NRx - 1 : rx2[i].skb = rx[i].skb
  PROVE  RxBits(rx2, r, q + 1, busy)
<1>0. rx \in RxRing /\ r \in 0 .. NRx - 1 /\ q \in 0 .. NRx /\ q \in Nat
  BY Sizes DEF RxBits
<1>1. ASSUME NEW i \in 0 .. NRx - 1
      PROVE  rx2[i].own <=> q + 1 <= Off(r, i, NRx)
  <2>1. PICK o \in 0 .. NRx - 1 : o = Off(r, i, NRx)
    BY <1>0, OffIn, Sizes
  <2>2. o = q <=> i = x
    BY <1>0, <2>1, OffApart, Sizes
  <2>3. rx[i].own <=> q <= o
    BY <1>0, <2>1 DEF RxBits
  <2>4. (q + 1 <= o) <=> (q <= o /\ o # q)
    BY <1>0
  <2>5. QED
    BY <1>0, <2>1, <2>2, <2>3, <2>4
<1>2. q + 1 \in 0 .. NRx
  BY <1>0, Sizes
<1>3. QED
  BY <1>0, <1>1, <1>2 DEF RxBits

-----------------------------------------------------------------------------
(* The operations of the older MACs. *)
LEMMA RingInitOK ==
  ASSUME NEW m \in R!RingMacs
  PROVE  /\ RingOK(m, R!RingInit(m), FALSE)
         /\ R!RingInit(m).tx = R!EmptyTx /\ R!RingInit(m).rx = R!PostedRx
<1> DEFINE d == R!RingInit(m)
<1>1. R!FirstRxDoor(m) = IF R!Polled(m) THEN 1 ELSE IF m = "gmac" THEN NRx ELSE NRx - 1
  BY DEF R!FirstRxDoor, R!Polled
<1>2. R!FirstRxDoor(m) \in 0 .. 2 * NRx - 1
  BY <1>1, Sizes
<1>3. R!EmptyTx \in TxRing
  BY Sizes DEF R!EmptyTx, Held, TxRing
<1>4. R!PostedRx \in RxRing
  BY Sizes DEF R!PostedRx, Held, Frames, RxRing
<1>5. d \in RingDev
  BY <1>2, <1>3, <1>4, Sizes DEF RingDev, R!RingInit
<1>6. /\ d.txUnReleasedDescp = 0 /\ d.txUnReleasedBufCnt = 0 /\ d.txCurrentDescp = 0
      /\ d.txHead = 0 /\ d.txDoor = 0 /\ d.rxCurrentDescp = 0 /\ d.rxHead = 0
      /\ d.rxDoor = R!FirstRxDoor(m) /\ d.tx = R!EmptyTx /\ d.rx = R!PostedRx
  BY DEF R!RingInit
<1> HIDE DEF d
<1>7. RingTx(m, d, 0)
  <2>1. R!TxLimit(m) >= 0
    BY Sizes DEF R!TxLimit
  <2>2. TxPlace(m, 0, 0, 0, 0, 0, 0)
    BY <2>1, Sizes DEF TxPlace, Wrap
  <2>3. TxBits(R!EmptyTx, 0, 0, 0)
    <3>1. \A i \in 0 .. NTx - 1 : Off(0, i, NTx) = i
      BY DEF Off
    <3>2. \A i \in 0 .. NTx - 1 : R!EmptyTx[i] = [own |-> FALSE, skb |-> NBufs]
      BY Sizes DEF R!EmptyTx
    <3>3. QED
      BY <1>3, <3>1, <3>2, Sizes DEF TxBits
  <2>4. QED
    BY <1>6, <2>2, <2>3 DEF RingTx
<1>8. RingRx(m, d, FALSE, 0)
  <2>1. RxPlace(m, 0, 0, 0, R!FirstRxDoor(m))
    BY <1>1, <1>2, Sizes DEF RxPlace, Wrap, R!Polled
  <2>2. RxBits(R!PostedRx, 0, 0, FALSE)
    <3>1. \A i \in 0 .. NRx - 1 : Off(0, i, NRx) = i
      BY DEF Off
    <3>2. \A i \in 0 .. NRx - 1 : R!PostedRx[i].own = TRUE /\ R!PostedRx[i].skb = i
      BY Sizes DEF R!PostedRx
    <3>3. QED
      BY <1>4, <3>1, <3>2, Sizes DEF RxBits
  <2>3. QED
    BY <1>6, <2>1, <2>2 DEF RingRx
<1>9. RingOK(m, d, FALSE)
  <2>1. 0 \in 0 .. NTx /\ 0 \in 0 .. NRx
    BY Sizes
  <2>2. QED
    BY <1>5, <1>7, <1>8, <2>1 DEF RingOK
<1>10. QED
  BY <1>6, <1>9 DEF d

LEMMA RingPostOK ==
  ASSUME NEW m \in R!RingMacs, NEW d, NEW busy \in BOOLEAN, RingOK(m, d, busy),
         NEW b \in R!Bufs, ~R!TxBlocked(m, d)
  PROVE  LET e == R!RingPost(m, d, b)
             k == d.txCurrentDescp
         IN  /\ RingOK(m, e, busy)
             /\ k \in 0 .. NTx - 1 /\ d.tx[k].skb = NBufs
             /\ e.rx = d.rx /\ e.tx = [d.tx EXCEPT ![k] = [own |-> TRUE, skb |-> b]]
             /\ d.tx \in TxRing
<1> DEFINE e == R!RingPost(m, d, b)
           k == d.txCurrentDescp
<1>1. d \in RingDev
  BY DEF RingOK
<1>2. PICK s \in 0 .. NTx : RingTx(m, d, s)
  BY DEF RingOK
<1>3. /\ d.tx \in TxRing /\ k \in 0 .. NTx - 1 /\ d.txUnReleasedDescp \in 0 .. NTx - 1
      /\ d.txUnReleasedBufCnt \in 0 .. NTx
      /\ d.txHead \in 0 .. 2 * NTx - 1 /\ d.txDoor \in 0 .. 2 * NTx - 1
  BY <1>1, RingFields
<1>4. d.txUnReleasedBufCnt # R!TxLimit(m)
  BY DEF R!TxBlocked
<1>5. (k + 1) % NTx = Wrap(k + 1, NTx) /\ (d.txDoor + 1) % (2 * NTx) = Wrap(d.txDoor + 1, 2 * NTx)
  <2>1. NTx \in Nat \ {0} /\ 2 * NTx \in Nat \ {0}
    BY Sizes
  <2>2. (k + 1) % NTx = Wrap(k + 1, NTx)
    BY <1>3, <2>1, NextMod
  <2>3. (d.txDoor + 1) % (2 * NTx) = Wrap(d.txDoor + 1, 2 * NTx)
    BY <1>3, <2>1, NextMod
  <2>4. QED
    BY <2>2, <2>3
<1> DEFINE door2 == IF R!Polled(m) THEN 1 ELSE IF m = "gmac" THEN Wrap(d.txDoor + 1, 2 * NTx)
                    ELSE Wrap(k + 1, NTx)
<1>6. R!TxDoorAfter(m, d) = door2
  BY <1>5 DEF R!TxDoorAfter, R!Polled
<1>7. e.tx = [d.tx EXCEPT ![k] = [own |-> TRUE, skb |-> b]]
  BY <1>1 DEF R!RingPost, RingDev
<1>8. /\ e.txCurrentDescp = Wrap(k + 1, NTx)
      /\ e.txUnReleasedBufCnt = d.txUnReleasedBufCnt + 1
  BY <1>1, <1>5 DEF R!RingPost, RingDev
<1>9. e.txDoor = door2
  BY <1>1, <1>6 DEF R!RingPost, RingDev
<1>10. /\ e.txUnReleasedDescp = d.txUnReleasedDescp /\ e.txHead = d.txHead
       /\ e.rx = d.rx /\ e.rxCurrentDescp = d.rxCurrentDescp /\ e.rxHead = d.rxHead
       /\ e.rxDoor = d.rxDoor
  BY <1>1 DEF R!RingPost, RingDev
<1>11. e = [d EXCEPT !.tx = e.tx, !.txCurrentDescp = e.txCurrentDescp,
                     !.txUnReleasedBufCnt = e.txUnReleasedBufCnt, !.txDoor = e.txDoor]
  <2> DEFINE t == [d.tx EXCEPT ![k] = [own |-> TRUE, skb |-> b]]
             c == (k + 1) % NTx
             n == d.txUnReleasedBufCnt + 1
             o == R!TxDoorAfter(m, d)
  <2>1. e = [d EXCEPT !.tx = t, !.txCurrentDescp = c, !.txUnReleasedBufCnt = n, !.txDoor = o]
    BY DEF R!RingPost
  <2>2. e.tx = t /\ e.txCurrentDescp = c /\ e.txUnReleasedBufCnt = n /\ e.txDoor = o
    BY <1>5, <1>6, <1>7, <1>8, <1>9
  <2> HIDE DEF e, t, c, n, o
  <2>3. QED
    BY <2>1, <2>2
<1>12. m = "gmac" => door2 = Wrap(d.txDoor + 1, 2 * NTx)
  BY DEF R!Polled
<1>13. m = "femac" => door2 = Wrap(k + 1, NTx)
  BY DEF R!Polled
<1>16. door2 \in 0 .. 2 * NTx - 1
  <2>1. Wrap(d.txDoor + 1, 2 * NTx) \in 0 .. 2 * NTx - 1
    <3>1. PICK z \in 0 .. 2 * NTx - 1 : z = d.txDoor
      BY <1>3
    <3>2. Wrap(z + 1, 2 * NTx) \in 0 .. 2 * NTx - 1
      BY Sizes DEF Wrap
    <3>3. QED
      BY <3>1, <3>2
  <2>2. Wrap(k + 1, NTx) \in 0 .. 2 * NTx - 1
    <3>1. PICK z \in 0 .. NTx - 1 : z = k
      BY <1>3
    <3>2. Wrap(z + 1, NTx) \in 0 .. 2 * NTx - 1
      BY Sizes DEF Wrap
    <3>3. QED
      BY <3>1, <3>2
  <2>3. 1 \in 0 .. 2 * NTx - 1
    BY Sizes
  <2>4. QED
    BY <2>1, <2>2, <2>3, Zenon
<1> HIDE DEF e, door2
<1>14. TxPlace(m, d.txUnReleasedDescp, s, d.txUnReleasedBufCnt, k, d.txHead, d.txDoor)
       /\ TxBits(d.tx, d.txUnReleasedDescp, s, d.txUnReleasedBufCnt)
  BY <1>2 DEF RingTx
<1> HIDE DEF k
<1>15. /\ d.txUnReleasedBufCnt + 1 \in 0 .. NTx
       /\ Off(d.txUnReleasedDescp, k, NTx) = d.txUnReleasedBufCnt
       /\ d.txUnReleasedBufCnt < NTx
       /\ TxPlace(m, d.txUnReleasedDescp, s, d.txUnReleasedBufCnt + 1, Wrap(k + 1, NTx),
                  d.txHead, door2)
  BY <1>3, <1>4, <1>12, <1>13, <1>14, <1>16, PlacePost
<1>17. /\ d.tx[k].skb = NBufs
       /\ TxBits(e.tx, d.txUnReleasedDescp, s, d.txUnReleasedBufCnt + 1)
  BY <1>3, <1>7, <1>14, <1>15, BitsPost
<1>18. RingTx(m, e, s)
  BY <1>8, <1>9, <1>10, <1>15, <1>17 DEF RingTx
<1>19. e \in RingDev
  <2>1. /\ e.tx \in TxRing /\ e.txCurrentDescp \in R!TxSlots
        /\ e.txUnReleasedBufCnt \in 0 .. NTx /\ e.txDoor \in 0 .. 2 * NTx - 1
    BY <1>8, <1>9, <1>15, <1>17, Sizes DEF TxPlace, TxBits
  <2>2. QED
    BY <1>1, <1>11, <2>1 DEF RingDev
<1>20. \A q : RingRx(m, d, busy, q) => RingRx(m, e, busy, q)
  BY <1>10 DEF RingRx
<1>21. QED
  BY <1>3, <1>7, <1>10, <1>17, <1>18, <1>19, <1>20 DEF RingOK, e, k

(* What the hardware has sent is given back; mac.c gives back one. *)
LEMMA RingReclaimOK ==
  ASSUME NEW m \in R!RingMacs, NEW d, NEW busy \in BOOLEAN, RingOK(m, d, busy)
  PROVE  LET e == R!macTxRingProc(m, d)
         IN  /\ RingOK(m, e, busy)
             /\ e.rx = d.rx /\ d.tx \in TxRing /\ R!Gone(m, d) \subseteq 0 .. NTx - 1
             /\ \A i \in 0 .. NTx - 1 :
                  e.tx[i].skb = IF i \in R!Gone(m, d) THEN NBufs ELSE d.tx[i].skb
<1> DEFINE e == R!macTxRingProc(m, d)
           u == d.txUnReleasedDescp
           n == d.txUnReleasedBufCnt
           k == R!Released(m, d)
           gone == R!Gone(m, d)
<1>1. d \in RingDev
  BY DEF RingOK
<1>2. PICK s \in 0 .. NTx : RingTx(m, d, s)
  BY DEF RingOK
<1>3. /\ d.tx \in TxRing /\ u \in 0 .. NTx - 1 /\ n \in 0 .. NTx
  BY <1>1, RingFields
<1>4. k \in 0 .. s /\ k \in 0 .. NTx /\ R!TxAt(d, k) = Wrap(u + k, NTx)
      /\ \A i \in 0 .. k - 1 : R!TxAt(d, i) = Wrap(u + i, NTx)
  <2>1. k \in 0 .. s /\ \A i \in 0 .. NTx : R!TxAt(d, i) = Wrap(u + i, NTx)
    BY <1>1, <1>2, SentIs
  <2>2. k \in 0 .. NTx /\ \A i \in 0 .. k - 1 : i \in 0 .. NTx
    BY <2>1, Sizes
  <2>3. QED
    BY <2>1, <2>2
<1>5. gone = {i \in 0 .. NTx - 1 : Off(u, i, NTx) < k}
  <2> HIDE DEF u, k
  <2>1. gone = {Wrap(u + i, NTx) : i \in 0 .. k - 1}
    BY <1>4 DEF R!Gone, k
  <2>2. ASSUME NEW i \in 0 .. k - 1
        PROVE  Wrap(u + i, NTx) \in 0 .. NTx - 1 /\ Off(u, Wrap(u + i, NTx), NTx) = i /\ i < k
    BY <1>3, <1>4, Sizes DEF Wrap, Off
  <2>3. ASSUME NEW i \in 0 .. NTx - 1, Off(u, i, NTx) < k
        PROVE  Off(u, i, NTx) \in 0 .. k - 1 /\ Wrap(u + Off(u, i, NTx), NTx) = i
    BY <1>3, <1>4, <2>3, Sizes DEF Wrap, Off
  <2>4. QED
    BY <2>1, <2>2, <2>3
<1>6. e.tx = [i \in R!TxSlots |-> IF i \in gone THEN [d.tx[i] EXCEPT !.skb = NBufs] ELSE d.tx[i]]
  BY <1>1, Sizes DEF R!macTxRingProc, RingDev
<1>7. e.txUnReleasedDescp = Wrap(u + k, NTx)
  BY <1>1, <1>4 DEF R!macTxRingProc, RingDev
<1>8. e.txUnReleasedBufCnt = n - k
  BY <1>1 DEF R!macTxRingProc, RingDev
<1>9. /\ e.txCurrentDescp = d.txCurrentDescp /\ e.txHead = d.txHead /\ e.txDoor = d.txDoor
      /\ e.rx = d.rx /\ e.rxCurrentDescp = d.rxCurrentDescp /\ e.rxHead = d.rxHead
      /\ e.rxDoor = d.rxDoor
  BY <1>1 DEF R!macTxRingProc, RingDev
<1>10. e = [d EXCEPT !.tx = e.tx, !.txUnReleasedDescp = e.txUnReleasedDescp,
                     !.txUnReleasedBufCnt = e.txUnReleasedBufCnt]
  <2> DEFINE t == [i \in R!TxSlots |-> IF i \in gone THEN [d.tx[i] EXCEPT !.skb = NBufs]
                                        ELSE d.tx[i]]
             v == R!TxAt(d, k)
  <2>1. e = [d EXCEPT !.tx = t, !.txUnReleasedDescp = v, !.txUnReleasedBufCnt = n - k]
    BY DEF R!macTxRingProc, R!NoBuf
  <2>2. e.tx = t /\ e.txUnReleasedDescp = v /\ e.txUnReleasedBufCnt = n - k
    BY <1>4, <1>6, <1>7, <1>8
  <2> HIDE DEF e, t, v
  <2>3. QED
    BY <2>1, <2>2
<1> HIDE DEF e, k, gone
<1>11. e.tx \in TxRing
  <2>1. NBufs \in Held
    BY Sizes DEF Held
  <2>2. \A i \in 0 .. NTx - 1 : d.tx[i] \in [own : BOOLEAN, skb : Held]
    BY <1>3 DEF TxRing
  <2>3. \A i \in 0 .. NTx - 1 : [d.tx[i] EXCEPT !.skb = NBufs] \in [own : BOOLEAN, skb : Held]
    BY <2>1, <2>2
  <2>4. \A i \in 0 .. NTx - 1 : (IF i \in gone THEN [d.tx[i] EXCEPT !.skb = NBufs] ELSE d.tx[i])
                                  \in [own : BOOLEAN, skb : Held]
    BY <2>2, <2>3
  <2>5. R!TxSlots = 0 .. NTx - 1
    BY Sizes
  <2>6. QED
    BY <1>6, <2>4, <2>5 DEF TxRing
<1>12. \A i \in 0 .. NTx - 1 :
         e.tx[i].own = d.tx[i].own /\ e.tx[i].skb = IF i \in gone THEN NBufs ELSE d.tx[i].skb
  BY <1>3, <1>6, Sizes DEF TxRing
<1>13. \A i \in 0 .. NTx - 1 : i \in gone <=> Off(u, i, NTx) < k
  BY <1>5
<1>14. \A i \in 0 .. NTx - 1 :
         /\ e.tx[i].own = d.tx[i].own
         /\ e.tx[i].skb = IF Off(u, i, NTx) < k THEN NBufs ELSE d.tx[i].skb
  BY <1>12, <1>13
<1>15. TxPlace(m, u, s, n, d.txCurrentDescp, d.txHead, d.txDoor) /\ TxBits(d.tx, u, s, n)
  BY <1>2 DEF RingTx
<1> HIDE DEF u, n
<1>16. TxPlace(m, Wrap(u + k, NTx), s - k, n - k, d.txCurrentDescp, d.txHead, d.txDoor)
  BY <1>4, <1>15, PlaceReclaim
<1>17. TxBits(e.tx, Wrap(u + k, NTx), s - k, n - k)
  BY <1>4, <1>11, <1>14, <1>15, BitsReclaim
<1>18. RingTx(m, e, s - k) /\ s - k \in 0 .. NTx
  BY <1>7, <1>8, <1>9, <1>16, <1>17 DEF RingTx, TxPlace
<1>19. e \in RingDev
  <2>1. e.txUnReleasedDescp \in R!TxSlots /\ e.txUnReleasedBufCnt \in 0 .. NTx
    BY <1>7, <1>8, <1>16, Sizes DEF TxPlace
  <2>2. QED
    BY <1>1, <1>10, <1>11, <2>1 DEF RingDev
<1>20. \A q : RingRx(m, d, busy, q) => RingRx(m, e, busy, q)
  BY <1>9 DEF RingRx
<1>21. RingOK(m, e, busy)
  BY <1>18, <1>19, <1>20 DEF RingOK
<1>22. gone \subseteq 0 .. NTx - 1
  BY <1>5
<1>23. QED
  BY <1>3, <1>9, <1>12, <1>21, <1>22 DEF e, gone

LEMMA RingTakeOK ==
  ASSUME NEW m \in R!RingMacs, NEW d, RingOK(m, d, FALSE), R!RingRxReady(d)
  PROVE  LET e == R!RingTake(d)
             r == d.rxCurrentDescp
         IN  /\ RingOK(m, e, TRUE)
             /\ r \in 0 .. NRx - 1 /\ d.rx[r].skb \in R!Bufs
             /\ e.tx = d.tx /\ e.rx = [d.rx EXCEPT ![r].skb = NBufs] /\ d.rx \in RxRing
<1> DEFINE e == R!RingTake(d)
           r == d.rxCurrentDescp
<1>1. d \in RingDev
  BY DEF RingOK
<1>2. PICK q \in 0 .. NRx : RingRx(m, d, FALSE, q)
  BY DEF RingOK
<1>3. d.rx \in RxRing /\ r \in 0 .. NRx - 1
  BY <1>1, RingFields
<1>4. e.rx = [d.rx EXCEPT ![r].skb = NBufs]
  BY <1>1, Sizes DEF R!RingTake, RingDev
<1>5. /\ e.tx = d.tx /\ e.txUnReleasedDescp = d.txUnReleasedDescp
      /\ e.txUnReleasedBufCnt = d.txUnReleasedBufCnt /\ e.txCurrentDescp = d.txCurrentDescp
      /\ e.txHead = d.txHead /\ e.txDoor = d.txDoor
      /\ e.rxCurrentDescp = r /\ e.rxHead = d.rxHead /\ e.rxDoor = d.rxDoor
  BY <1>1 DEF R!RingTake, RingDev
<1>6. e = [d EXCEPT !.rx = e.rx]
  BY <1>1 DEF R!RingTake, RingDev
<1> HIDE DEF e
<1>7. RxPlace(m, r, q, d.rxHead, d.rxDoor) /\ RxBits(d.rx, r, q, FALSE)
  BY <1>2 DEF RingRx
<1>8. q > 0
  <2>1. Off(r, r, NRx) = 0
    BY <1>3, OffSelf, Sizes
  <2>2. ~d.rx[r].own
    BY DEF R!RingRxReady
  <2>3. ~(q <= Off(r, r, NRx))
    BY <1>3, <1>7, <2>2 DEF RxBits
  <2>4. QED
    BY <2>1, <2>3
<1> HIDE DEF r
<1>9. d.rx[r].skb # NBufs /\ RxBits(e.rx, r, q, TRUE)
  <2>1. d.rx[r].skb # NBufs /\ RxBits([d.rx EXCEPT ![r].skb = NBufs], r, q, TRUE)
    BY <1>7, BitsTake, Zenon
  <2>2. QED
    BY <1>4, <2>1, Zenon
<1>10. RingRx(m, e, TRUE, q)
  BY <1>5, <1>7, <1>8, <1>9 DEF RingRx
<1>11. \A s : RingTx(m, d, s) => RingTx(m, e, s)
  BY <1>5 DEF RingTx
<1>12. e \in RingDev
  BY <1>1, <1>6, <1>9 DEF RingDev, RxBits
<1>13. RingOK(m, e, TRUE)
  BY <1>10, <1>11, <1>12 DEF RingOK
<1>14. d.rx[r].skb \in R!Bufs
  <2>1. d.rx[r].skb \in Held
    BY <1>3 DEF RxRing
  <2>2. QED
    BY <1>9, <2>1, Sizes DEF Held
<1>15. QED
  BY <1>3, <1>4, <1>5, <1>13, <1>14 DEF e, r

(* The descriptor at hand gets a buffer: another one after a frame was      *)
(* taken, its own after one was rejected.                                   *)
LEMMA RingRepostOK ==
  ASSUME NEW m \in R!RingMacs, NEW d, NEW busy \in BOOLEAN, RingOK(m, d, busy),
         busy \/ R!RingRxReady(d), NEW b \in R!Bufs
  PROVE  LET e == R!RingRepost(m, d, b)
             r == d.rxCurrentDescp
         IN  /\ RingOK(m, e, FALSE)
             /\ r \in 0 .. NRx - 1 /\ d.rx \in RxRing
             /\ busy => d.rx[r].skb = NBufs
             /\ ~busy => d.rx[r].skb \in R!Bufs
             /\ e.tx = d.tx
             /\ e.rx = [d.rx EXCEPT ![r] = [own |-> TRUE, skb |-> b, frame |-> "noise"]]
<1> DEFINE e == R!RingRepost(m, d, b)
           r == d.rxCurrentDescp
           door2 == R!RxDoorAfter(m, d)
<1>1. d \in RingDev
  BY DEF RingOK
<1>2. PICK q \in 0 .. NRx : RingRx(m, d, busy, q)
  BY DEF RingOK
<1>3. /\ d.rx \in RxRing /\ r \in 0 .. NRx - 1
      /\ d.rxDoor \in 0 .. 2 * NRx - 1 /\ d.rxHead \in 0 .. 2 * NRx - 1
  BY <1>1, RingFields
<1>4. (r + 1) % NRx = Wrap(r + 1, NRx) /\ (d.rxDoor + 1) % (2 * NRx) = Wrap(d.rxDoor + 1, 2 * NRx)
  <2>1. NRx \in Nat \ {0} /\ 2 * NRx \in Nat \ {0}
    BY Sizes
  <2>2. (r + 1) % NRx = Wrap(r + 1, NRx)
    BY <1>3, <2>1, NextMod
  <2>3. (d.rxDoor + 1) % (2 * NRx) = Wrap(d.rxDoor + 1, 2 * NRx)
    BY <1>3, <2>1, NextMod
  <2>4. QED
    BY <2>2, <2>3
<1>5. door2 = IF R!Polled(m) THEN d.rxDoor ELSE IF m = "gmac" THEN Wrap(d.rxDoor + 1, 2 * NRx) ELSE r
  BY <1>4 DEF R!RxDoorAfter, R!Polled
<1>6. /\ door2 \in 0 .. 2 * NRx - 1
      /\ m = "gmac" => door2 = Wrap(d.rxDoor + 1, 2 * NRx)
      /\ m = "femac" => door2 = r
  BY <1>3, <1>5, Sizes DEF Wrap, R!Polled
<1>7. e.rx = [d.rx EXCEPT ![r] = [own |-> TRUE, skb |-> b, frame |-> "noise"]]
  BY <1>1 DEF R!RingRepost, RingDev
<1>8. e.rxCurrentDescp = Wrap(r + 1, NRx) /\ e.rxDoor = door2
  BY <1>1, <1>4 DEF R!RingRepost, RingDev
<1>9. /\ e.tx = d.tx /\ e.txUnReleasedDescp = d.txUnReleasedDescp
      /\ e.txUnReleasedBufCnt = d.txUnReleasedBufCnt /\ e.txCurrentDescp = d.txCurrentDescp
      /\ e.txHead = d.txHead /\ e.txDoor = d.txDoor /\ e.rxHead = d.rxHead
  BY <1>1 DEF R!RingRepost, RingDev
<1>10. e = [d EXCEPT !.rx = e.rx, !.rxCurrentDescp = e.rxCurrentDescp, !.rxDoor = e.rxDoor]
  BY <1>1 DEF R!RingRepost, RingDev
<1> HIDE DEF e, door2
<1>11. /\ RxPlace(m, r, q, d.rxHead, d.rxDoor) /\ RxBits(d.rx, r, q, busy)
       /\ busy => q > 0
  BY <1>2 DEF RingRx
<1>12. q > 0
  <2>1. Off(r, r, NRx) = 0
    BY <1>3, OffSelf, Sizes
  <2>2. ~busy => ~d.rx[r].own
    BY DEF R!RingRxReady
  <2>3. ~busy => ~(q <= Off(r, r, NRx))
    BY <1>3, <1>11, <2>2 DEF RxBits
  <2>4. QED
    BY <1>11, <2>1, <2>3
<1>13. (d.rx[r].skb # NBufs <=> ~busy) /\ d.rx[r].skb \in Held
  BY <1>3, <1>11 DEF RxBits, RxRing
<1> HIDE DEF r
<1>14. RxPlace(m, Wrap(r + 1, NRx), q - 1, d.rxHead, door2)
  BY <1>6, <1>11, <1>12, PlaceRepost
<1>15. RxBits(e.rx, Wrap(r + 1, NRx), q - 1, FALSE)
  <2>1. RxBits([d.rx EXCEPT ![r] = [own |-> TRUE, skb |-> b, frame |-> "noise"]],
               Wrap(r + 1, NRx), q - 1, FALSE)
    BY <1>11, <1>12, BitsRepost, Zenon
  <2>2. QED
    BY <1>7, <2>1, Zenon
<1>16. RingRx(m, e, FALSE, q - 1) /\ q - 1 \in 0 .. NRx
  BY <1>8, <1>9, <1>14, <1>15 DEF RingRx, RxPlace
<1>17. \A s : RingTx(m, d, s) => RingTx(m, e, s)
  BY <1>9 DEF RingTx
<1>18. e \in RingDev
  <2>1. e.rx \in RxRing /\ e.rxCurrentDescp \in R!RxSlots /\ e.rxDoor \in 0 .. 2 * NRx - 1
    BY <1>6, <1>8, <1>14, <1>15, Sizes DEF RxPlace, RxBits
  <2>2. QED
    BY <1>1, <1>10, <2>1 DEF RingDev
<1>19. RingOK(m, e, FALSE)
  BY <1>16, <1>17, <1>18 DEF RingOK
<1>20. (busy => d.rx[r].skb = NBufs) /\ (~busy => d.rx[r].skb \in R!Bufs)
  BY <1>13, Sizes DEF Held
<1>21. QED
  BY <1>3, <1>7, <1>9, <1>19, <1>20 DEF e, r

LEMMA RingPollOK ==
  ASSUME NEW m \in R!RingMacs, NEW d, NEW busy \in BOOLEAN, RingOK(m, d, busy)
  PROVE  LET e == R!RxPollDemand(m, d)
         IN  RingOK(m, e, busy) /\ e.tx = d.tx /\ e.rx = d.rx
<1> DEFINE e == R!RxPollDemand(m, d)
<1>1. d \in RingDev
  BY DEF RingOK
<1>2. CASE ~R!Polled(m)
  BY <1>2 DEF R!RxPollDemand
<1>3. CASE R!Polled(m)
  <2>1. e = [d EXCEPT !.rxDoor = 1] /\ 1 \in 0 .. 2 * NRx - 1
    <3>1. e = [d EXCEPT !.rxDoor = 1]
      BY <1>3 DEF R!RxPollDemand
    <3>2. 1 \in 0 .. 2 * NRx - 1
      BY Sizes
    <3>3. QED
      BY <3>1, <3>2
  <2>2. /\ e.tx = d.tx /\ e.txUnReleasedDescp = d.txUnReleasedDescp
        /\ e.txUnReleasedBufCnt = d.txUnReleasedBufCnt /\ e.txCurrentDescp = d.txCurrentDescp
        /\ e.txHead = d.txHead /\ e.txDoor = d.txDoor /\ e.rx = d.rx
        /\ e.rxCurrentDescp = d.rxCurrentDescp /\ e.rxHead = d.rxHead /\ e.rxDoor = 1
    BY <1>1, <2>1 DEF RingDev
  <2>3. e \in RingDev
    BY <1>1, <2>1 DEF RingDev
  <2> HIDE DEF e
  <2>4. \A s : RingTx(m, d, s) => RingTx(m, e, s)
    BY <2>2 DEF RingTx
  <2>5. \A q : RingRx(m, d, busy, q) => RingRx(m, e, busy, q)
    BY <1>3, <2>1, <2>2 DEF RingRx, RxPlace, R!Polled
  <2>6. QED
    BY <2>2, <2>3, <2>4, <2>5 DEF RingOK, e
<1>4. QED
  BY <1>2, <1>3

LEMMA RingSleepOK ==
  ASSUME NEW m \in R!RingMacs, NEW d, NEW busy \in BOOLEAN, RingOK(m, d, busy), R!TxSleeps(m, d)
  PROVE  LET e == [d EXCEPT !.txDoor = 0]
         IN  RingOK(m, e, busy) /\ e.tx = d.tx /\ e.rx = d.rx
<1> DEFINE e == [d EXCEPT !.txDoor = 0]
<1>1. d \in RingDev /\ R!Polled(m) /\ 0 \in 0 .. 2 * NTx - 1
  BY Sizes DEF RingOK, R!TxSleeps
<1>2. /\ e.tx = d.tx /\ e.txUnReleasedDescp = d.txUnReleasedDescp
      /\ e.txUnReleasedBufCnt = d.txUnReleasedBufCnt /\ e.txCurrentDescp = d.txCurrentDescp
      /\ e.txHead = d.txHead /\ e.rxDoor = d.rxDoor /\ e.rx = d.rx
      /\ e.rxCurrentDescp = d.rxCurrentDescp /\ e.rxHead = d.rxHead /\ e.txDoor = 0
  BY <1>1 DEF RingDev
<1>3. e \in RingDev
  BY <1>1 DEF RingDev
<1> HIDE DEF e
<1>4. \A s : RingTx(m, d, s) => RingTx(m, e, s)
  BY <1>1, <1>2 DEF RingTx, TxPlace, R!Polled
<1>5. \A q : RingRx(m, d, busy, q) => RingRx(m, e, busy, q)
  BY <1>2 DEF RingRx
<1>6. QED
  BY <1>2, <1>3, <1>4, <1>5 DEF RingOK, e

(* The hardware sends only what was given to it. *)
LEMMA RingTransmitOK ==
  ASSUME NEW m \in R!RingMacs, NEW d, NEW busy \in BOOLEAN, RingOK(m, d, busy), R!TxMay(m, d)
  PROVE  LET e == R!RingTransmit(d)
         IN  /\ RingOK(m, e, busy)
             /\ e.rx = d.rx /\ \A i \in 0 .. NTx - 1 : e.tx[i].skb = d.tx[i].skb
             /\ \A s : RingTx(m, d, s) => s < d.txUnReleasedBufCnt /\ RingTx(m, e, s + 1)
<1> DEFINE e == R!RingTransmit(d)
           u == d.txUnReleasedDescp
           n == d.txUnReleasedBufCnt
           x == Wrap(d.txHead, NTx)
<1>1. d \in RingDev
  BY DEF RingOK
<1>2. PICK s0 \in 0 .. NTx : RingTx(m, d, s0)
  BY DEF RingOK
<1>3. /\ d.tx \in TxRing /\ u \in 0 .. NTx - 1 /\ n \in 0 .. NTx
      /\ d.txHead \in 0 .. 2 * NTx - 1 /\ d.txDoor \in 0 .. 2 * NTx - 1
  BY <1>1, RingFields
<1>4. /\ d.txHead % NTx = x /\ (d.txHead + 1) % (2 * NTx) = Wrap(d.txHead + 1, 2 * NTx)
      /\ x \in 0 .. NTx - 1
  <2>1. NTx \in Nat \ {0} /\ 2 * NTx \in Nat \ {0}
    BY Sizes
  <2>2. d.txHead % NTx = x /\ x \in 0 .. NTx - 1
    BY <1>3, <2>1, WrapMod
  <2>3. (d.txHead + 1) % (2 * NTx) = Wrap(d.txHead + 1, 2 * NTx)
    BY <1>3, <2>1, NextMod
  <2>4. QED
    BY <2>2, <2>3
<1>5. e.tx = [d.tx EXCEPT ![x].own = FALSE]
  BY <1>1, <1>4, Sizes DEF R!RingTransmit, R!TxIdx, RingDev
<1>6. e.txHead = Wrap(d.txHead + 1, 2 * NTx)
  BY <1>1, <1>4 DEF R!RingTransmit, RingDev
<1>7. /\ e.txUnReleasedDescp = u /\ e.txUnReleasedBufCnt = n
      /\ e.txCurrentDescp = d.txCurrentDescp /\ e.txDoor = d.txDoor /\ e.rx = d.rx
      /\ e.rxCurrentDescp = d.rxCurrentDescp /\ e.rxHead = d.rxHead /\ e.rxDoor = d.rxDoor
  BY <1>1 DEF R!RingTransmit, RingDev
<1>8. e = [d EXCEPT !.tx = e.tx, !.txHead = e.txHead]
  BY <1>1 DEF R!RingTransmit, RingDev
<1> HIDE DEF e, u, n, x
<1>9. ASSUME NEW s, RingTx(m, d, s)
      PROVE  s < n /\ RingTx(m, e, s + 1) /\ s + 1 \in 0 .. NTx
  <2>1. TxPlace(m, u, s, n, d.txCurrentDescp, d.txHead, d.txDoor) /\ TxBits(d.tx, u, s, n)
    BY <1>9 DEF RingTx, u, n
  <2>2. s \in 0 .. NTx /\ s <= n
    BY <2>1 DEF TxPlace
  <2>3. ASSUME R!Polled(m) PROVE s < n
    <3>1. d.tx[x].own
      BY <1>4, <2>3 DEF R!TxMay, R!TxIdx, R!Polled
    <3>2. s <= Off(u, x, NTx) /\ Off(u, x, NTx) < n
      BY <1>4, <2>1, <3>1 DEF TxBits
    <3>3. Off(u, x, NTx) \in 0 .. NTx - 1
      BY <1>3, <1>4, OffIn, Sizes
    <3>4. QED
      BY <1>3, <2>2, <3>2, <3>3, Sizes
  <2>4. ASSUME m = "gmac" PROVE s < n
    <3>1. d.txHead # d.txDoor
      BY <2>4 DEF R!TxMay, R!Polled
    <3>2. d.txDoor = Wrap(d.txHead + n - s, 2 * NTx)
      BY <2>1, <2>4 DEF TxPlace
    <3>3. s # n
      <4>1. PICK h \in 0 .. 2 * NTx - 1 : h = d.txHead
        BY <1>3
      <4>2. h # Wrap(h + n - s, 2 * NTx)
        BY <3>1, <3>2, <4>1
      <4>3. ASSUME s = n PROVE FALSE
        <5>1. h + n - s = h
          BY <1>3, <4>3
        <5>2. QED
          BY <4>2, <5>1, Sizes DEF Wrap
      <4>4. QED
        BY <4>3
    <3>4. QED
      BY <1>3, <2>2, <3>3, Sizes
  <2>5. ASSUME m = "femac" PROVE s < n
    <3>1. x # d.txDoor
      BY <1>4, <2>5 DEF R!TxMay, R!TxIdx, R!Polled
    <3>2. d.txDoor = Wrap(u + n, NTx) /\ x = Wrap(u + s, NTx)
      BY <2>1, <2>5 DEF TxPlace, x
    <3>3. s # n
      BY <3>1, <3>2
    <3>4. QED
      BY <1>3, <2>2, <3>3, Sizes
  <2>6. s < n
    BY <2>3, <2>4, <2>5 DEF R!RingMacs, R!Polled
  <2>7. /\ Off(u, x, NTx) = s
        /\ TxPlace(m, u, s + 1, n, d.txCurrentDescp, Wrap(d.txHead + 1, 2 * NTx), d.txDoor)
    BY <2>1, <2>6, PlaceSend DEF x
  <2>8. TxBits(e.tx, u, s + 1, n)
    <3>1. TxBits([d.tx EXCEPT ![x].own = FALSE], u, s + 1, n)
      BY <1>4, <2>1, <2>6, <2>7, BitsSend, Zenon
    <3>2. QED
      BY <1>5, <3>1, Zenon
  <2>9. RingTx(m, e, s + 1)
    BY <1>6, <1>7, <2>7, <2>8 DEF RingTx
  <2>10. s + 1 \in 0 .. NTx
    BY <2>7 DEF TxPlace
  <2>11. QED
    BY <2>6, <2>9, <2>10
<1>10. e \in RingDev
  <2>1. e.tx \in TxRing /\ e.txHead \in 0 .. 2 * NTx - 1
    BY <1>2, <1>9 DEF RingTx, TxPlace, TxBits
  <2>2. QED
    BY <1>1, <1>8, <2>1 DEF RingDev
<1>11. \A q : RingRx(m, d, busy, q) => RingRx(m, e, busy, q)
  BY <1>7 DEF RingRx
<1>12. \A i \in 0 .. NTx - 1 : e.tx[i].skb = d.tx[i].skb
  BY <1>3, <1>5 DEF TxRing
<1>13. RingOK(m, e, busy)
  BY <1>2, <1>9, <1>10, <1>11 DEF RingOK
<1>14. QED
  BY <1>7, <1>9, <1>12, <1>13 DEF e, n

LEMMA RingArriveOK ==
  ASSUME NEW m \in R!RingMacs, NEW d, NEW busy \in BOOLEAN, RingOK(m, d, busy), NEW kind \in Kinds
  PROVE  LET e == R!RingArrive(m, d, kind)
         IN  /\ RingOK(m, e, busy)
             /\ e.tx = d.tx /\ \A i \in 0 .. NRx - 1 : e.rx[i].skb = d.rx[i].skb
             /\ \A s : RingTx(m, d, s) => RingTx(m, e, s)
<1> DEFINE e == R!RingArrive(m, d, kind)
           r == d.rxCurrentDescp
           x == Wrap(d.rxHead, NRx)
<1>1. d \in RingDev
  BY DEF RingOK
<1>2. PICK q \in 0 .. NRx : RingRx(m, d, busy, q)
  BY DEF RingOK
<1>3. /\ d.rx \in RxRing /\ r \in 0 .. NRx - 1
      /\ d.rxHead \in 0 .. 2 * NRx - 1 /\ d.rxDoor \in 0 .. 2 * NRx - 1
  BY <1>1, RingFields
<1>4. /\ d.rxHead % NRx = x /\ (d.rxHead + 1) % (2 * NRx) = Wrap(d.rxHead + 1, 2 * NRx)
      /\ x \in 0 .. NRx - 1
  <2>1. NRx \in Nat \ {0} /\ 2 * NRx \in Nat \ {0}
    BY Sizes
  <2>2. d.rxHead % NRx = x /\ x \in 0 .. NRx - 1
    BY <1>3, <2>1, WrapMod
  <2>3. (d.rxHead + 1) % (2 * NRx) = Wrap(d.rxHead + 1, 2 * NRx)
    BY <1>3, <2>1, NextMod
  <2>4. QED
    BY <2>2, <2>3
<1>5. /\ RxPlace(m, r, q, d.rxHead, d.rxDoor) /\ RxBits(d.rx, r, q, busy)
      /\ busy => q > 0
  BY <1>2 DEF RingRx
<1>6. CASE R!RxMay(m, d)
  <2>1. e.rx = [d.rx EXCEPT ![x].own = FALSE, ![x].frame = kind]
    BY <1>1, <1>4, <1>6, Sizes DEF R!RingArrive, R!RxIdx, RingDev
  <2>2. e.rxHead = Wrap(d.rxHead + 1, 2 * NRx)
    BY <1>1, <1>4, <1>6 DEF R!RingArrive, RingDev
  <2>3. /\ e.tx = d.tx /\ e.txUnReleasedDescp = d.txUnReleasedDescp
        /\ e.txUnReleasedBufCnt = d.txUnReleasedBufCnt /\ e.txCurrentDescp = d.txCurrentDescp
        /\ e.txHead = d.txHead /\ e.txDoor = d.txDoor
        /\ e.rxCurrentDescp = r /\ e.rxDoor = d.rxDoor
    BY <1>1, <1>6 DEF R!RingArrive, RingDev
  <2>4. e = [d EXCEPT !.rx = e.rx, !.rxHead = e.rxHead]
    <3> DEFINE f == [d.rx EXCEPT ![x].own = FALSE, ![x].frame = kind]
               h == (d.rxHead + 1) % (2 * NRx)
    <3>1. e = [d EXCEPT !.rx = f, !.rxHead = h]
      BY <1>4, <1>6, ZenonT(60) DEF R!RingArrive, R!RxIdx
    <3>2. e.rx = f /\ e.rxHead = h
      BY <1>4, <2>1, <2>2
    <3> HIDE DEF e, f, h
    <3>3. QED
      BY <3>1, <3>2
  <2> HIDE DEF e
  <2>5. q < NRx /\ (m = "femac" => q < NRx - 1)
    <3>1. x = Wrap(r + q, NRx)
      BY <1>5 DEF RxPlace
    <3>2. CASE R!Polled(m)
      <4>1. d.rx[x].own
        BY <1>4, <1>6, <3>2 DEF R!RxMay, R!RxIdx, R!Polled
      <4>2. q <= Off(r, x, NRx) /\ Off(r, x, NRx) \in 0 .. NRx - 1
        BY <1>3, <1>4, <1>5, <4>1, OffIn, Sizes DEF RxBits
      <4>3. QED
        BY <1>2, <3>2, <4>2, Sizes DEF R!Polled
    <3>3. CASE m = "gmac"
      <4>1. d.rxHead # d.rxDoor
        BY <1>6, <3>3 DEF R!RxMay, R!Polled
      <4>2. d.rxDoor = Wrap(d.rxHead + NRx - q, 2 * NRx)
        BY <1>5, <3>3 DEF RxPlace
      <4>3. q # NRx
        <5>1. PICK h \in 0 .. 2 * NRx - 1 : h = d.rxHead
          BY <1>3
        <5>2. h # Wrap(h + NRx - q, 2 * NRx)
          BY <4>1, <4>2, <5>1
        <5>3. ASSUME q = NRx PROVE FALSE
          <6>1. h + NRx - q = h
            BY <5>3, Sizes
          <6>2. QED
            BY <5>2, <6>1, Sizes DEF Wrap
        <5>4. QED
          BY <5>3
      <4>4. QED
        BY <3>3, <4>3, Sizes
    <3>4. CASE m = "femac"
      <4>1. x # d.rxDoor
        BY <1>4, <1>6, <3>4 DEF R!RxMay, R!RxIdx, R!Polled
      <4>2. q < NRx /\ d.rxDoor = Wrap(r + NRx - 1, NRx)
        BY <1>5, <3>4 DEF RxPlace
      <4>3. q # NRx - 1
        <5>1. ASSUME q = NRx - 1 PROVE FALSE
          <6>1. r + q = r + NRx - 1
            BY <1>3, <5>1, Sizes
          <6>2. QED
            BY <3>1, <4>1, <4>2, <6>1
        <5>2. QED
          BY <5>1
      <4>4. QED
        BY <4>2, <4>3, Sizes
    <3>5. QED
      BY <3>2, <3>3, <3>4 DEF R!RingMacs, R!Polled
  <2> HIDE DEF r, x
  <2>6. /\ Off(r, x, NRx) = q
        /\ RxPlace(m, r, q + 1, Wrap(d.rxHead + 1, 2 * NRx), d.rxDoor)
    BY <1>5, <2>5, PlaceArrive DEF x
  <2>7. RxBits(e.rx, r, q + 1, busy) /\ \A i \in 0 .. NRx - 1 : e.rx[i].skb = d.rx[i].skb
    <3>1. PICK rx \in RxRing : rx = d.rx
      BY <1>3
    <3> DEFINE f == [rx EXCEPT ![x].own = FALSE, ![x].frame = kind]
    <3>2. f \in RxRing
      <4>1. [[rx[x] EXCEPT !.own = FALSE] EXCEPT !.frame = kind]
              \in [own : BOOLEAN, skb : Held, frame : Frames]
        BY <1>4 DEF RxRing, Frames
      <4>2. f = [rx EXCEPT ![x] = [[rx[x] EXCEPT !.own = FALSE] EXCEPT !.frame = kind]]
        BY <1>4 DEF RxRing
      <4> HIDE DEF f
      <4>3. QED
        BY <1>4, <4>1, <4>2 DEF RxRing
    <3>3. \A i \in 0 .. NRx - 1 : f[i].own <=> i # x /\ rx[i].own
      BY <1>4 DEF RxRing
    <3>4. \A i \in 0 .. NRx - 1 : f[i].skb = rx[i].skb
      BY <1>4 DEF RxRing
    <3>5. e.rx = f
      BY <2>1, <3>1
    <3> HIDE DEF f
    <3>6. RxBits(rx, r, q, busy)
      BY <1>5, <3>1
    <3>7. RxBits(f, r, q + 1, busy)
      BY <1>4, <2>5, <2>6, <3>2, <3>3, <3>4, <3>6, BitsArrive
    <3>8. QED
      BY <3>1, <3>4, <3>5, <3>7
  <2>8. RingRx(m, e, busy, q + 1) /\ q + 1 \in 0 .. NRx
    BY <1>5, <2>2, <2>3, <2>6, <2>7 DEF RingRx, RxPlace
  <2>9. \A s : RingTx(m, d, s) => RingTx(m, e, s)
    BY <2>3 DEF RingTx
  <2>10. e \in RingDev
    <3>1. e.rx \in RxRing /\ e.rxHead \in 0 .. 2 * NRx - 1
      BY <2>2, <2>6, <2>7 DEF RxPlace, RxBits
    <3>2. QED
      BY <1>1, <2>4, <3>1 DEF RingDev
  <2>11. RingOK(m, e, busy)
    BY <2>8, <2>9, <2>10 DEF RingOK
  <2>12. QED
    BY <2>3, <2>7, <2>9, <2>11 DEF e
<1>7. CASE ~R!RxMay(m, d) /\ R!Polled(m)
  <2>1. e = [d EXCEPT !.rxDoor = 0] /\ 0 \in 0 .. 2 * NRx - 1
    <3>1. e = [d EXCEPT !.rxDoor = 0]
      BY <1>7 DEF R!RingArrive
    <3>2. 0 \in 0 .. 2 * NRx - 1
      BY Sizes
    <3>3. QED
      BY <3>1, <3>2
  <2>2. /\ e.tx = d.tx /\ e.txUnReleasedDescp = d.txUnReleasedDescp
        /\ e.txUnReleasedBufCnt = d.txUnReleasedBufCnt /\ e.txCurrentDescp = d.txCurrentDescp
        /\ e.txHead = d.txHead /\ e.txDoor = d.txDoor /\ e.rx = d.rx
        /\ e.rxCurrentDescp = d.rxCurrentDescp /\ e.rxHead = d.rxHead /\ e.rxDoor = 0
    BY <1>1, <2>1 DEF RingDev
  <2>3. e \in RingDev
    BY <1>1, <2>1 DEF RingDev
  <2> HIDE DEF e
  <2>4. \A s : RingTx(m, d, s) => RingTx(m, e, s)
    BY <2>2 DEF RingTx
  <2>5. RingRx(m, e, busy, q)
    BY <1>2, <1>7, <2>1, <2>2 DEF RingRx, RxPlace, R!Polled
  <2>6. QED
    BY <2>2, <2>3, <2>4, <2>5 DEF RingOK, e
<1>8. CASE ~R!RxMay(m, d) /\ ~R!Polled(m)
  BY <1>8 DEF R!RingArrive
<1>9. QED
  BY <1>6, <1>7, <1>8

-----------------------------------------------------------------------------
(* Sequences by their elements. *)
LEMMA TailIs ==
  ASSUME NEW S, NEW s \in Seq(S), Len(s) > 0
  PROVE  /\ Tail(s) \in Seq(S) /\ Len(Tail(s)) = Len(s) - 1
         /\ \A k \in 1 .. Len(s) - 1 : Tail(s)[k] = s[k + 1]
OBVIOUS

LEMMA AppendIs ==
  ASSUME NEW S, NEW s \in Seq(S), NEW x \in S
  PROVE  /\ Append(s, x) \in Seq(S) /\ Len(Append(s, x)) = Len(s) + 1
         /\ \A k \in 1 .. Len(s) : Append(s, x)[k] = s[k]
         /\ Append(s, x)[Len(s) + 1] = x
OBVIOUS

LEMMA SubIs ==
  ASSUME NEW S, NEW s \in Seq(S), NEW a \in 1 .. Len(s) + 1, NEW b \in 0 .. Len(s), a <= b + 1
  PROVE  /\ SubSeq(s, a, b) \in Seq(S) /\ Len(SubSeq(s, a, b)) = b + 1 - a
         /\ \A k \in 1 .. b + 1 - a : SubSeq(s, a, b)[k] = s[k + a - 1]
OBVIOUS

LEMMA DropIs ==
  ASSUME NEW S, NEW s \in Seq(S), NEW w \in 0 .. Len(s)
  PROVE  /\ Len(SubSeq(s, w + 1, Len(s))) = Len(s) - w
         /\ \A l \in 1 .. Len(s) - w : SubSeq(s, w + 1, Len(s))[l] = s[l + w]
<1>1. PICK n \in Nat : n = Len(s)
  OBVIOUS
<1>2. w + 1 \in 1 .. n + 1 /\ n \in 0 .. n /\ w + 1 <= n + 1 /\ n + 1 - (w + 1) = n - w
  BY <1>1
<1>3. \A l \in 1 .. n - w : l + (w + 1) - 1 = l + w
  BY <1>1
<1>4. /\ Len(SubSeq(s, w + 1, n)) = n + 1 - (w + 1)
      /\ \A l \in 1 .. n + 1 - (w + 1) : SubSeq(s, w + 1, n)[l] = s[l + (w + 1) - 1]
  BY <1>1, <1>2, SubIs
<1>5. QED
  BY <1>1, <1>2, <1>3, <1>4

LEMMA CatIs ==
  ASSUME NEW S, NEW s \in Seq(S), NEW t \in Seq(S)
  PROVE  /\ s \o t \in Seq(S) /\ Len(s \o t) = Len(s) + Len(t)
         /\ \A k \in 1 .. Len(s) : (s \o t)[k] = s[k]
         /\ \A k \in 1 .. Len(t) : (s \o t)[k + Len(s)] = t[k]
OBVIOUS

LEMMA LenIs == ASSUME NEW S, NEW s \in Seq(S) PROVE Len(s) \in Nat /\ DOMAIN s = 1 .. Len(s)
OBVIOUS

-----------------------------------------------------------------------------
(* The three ways a descriptor of the QDMA goes: from the unused ones to    *)
(* the driver's end of the chain, from the hardware's end into the          *)
(* interrupt queue, and from there to the unused ones.                      *)
LEMMA PartitionPost ==
  ASSUME NEW c, NEW unused, NEW irq, Partition(c, unused, irq), Len(unused) > 0
  PROVE  Partition(Append(c, unused[1]), Tail(unused), irq)
<1> DEFINE c2 == Append(c, unused[1])
           u2 == Tail(unused)
<1>1. c \in Seq(Dscps) /\ unused \in Seq(Dscps) /\ irq \in Seq(Dscps) /\ unused[1] \in Dscps
  BY DEF Partition
<1>2. PICK n \in Nat : n = Len(c)
  BY <1>1
<1>3. PICK m \in Nat : m = Len(unused) /\ m > 0
  BY <1>1
<1>4. /\ c2 \in Seq(Dscps) /\ Len(c2) = n + 1 /\ c2[n + 1] = unused[1]
      /\ \A k \in 1 .. n : c2[k] = c[k]
  BY <1>1, <1>2, AppendIs
<1>5. u2 \in Seq(Dscps) /\ Len(u2) = m - 1 /\ \A k \in 1 .. m - 1 : u2[k] = unused[k + 1]
  BY <1>1, <1>3, TailIs
<1> HIDE DEF c2, u2
<1>6. \A k \in 1 .. n + 1 : k \in 1 .. n \/ k = n + 1
  BY <1>2
<1>7. \A k \in 1 .. m - 1 : k + 1 \in 1 .. m /\ k + 1 # 1
  BY <1>3
<1>8. \A k \in 1 .. m : k = 1 \/ (k - 1 \in 1 .. m - 1 /\ k = (k - 1) + 1)
  BY <1>3
<1>9. /\ Once(c) /\ Once(unused) /\ Once(irq)
      /\ Disjoint(c, unused) /\ Disjoint(c, irq) /\ Disjoint(unused, irq)
  BY DEF Partition
<1>10. 1 \in 1 .. m
  BY <1>3
<1>11. Once(c2)
  BY <1>2, <1>3, <1>4, <1>6, <1>9, <1>10 DEF Once, Disjoint
<1>12. Once(u2)
  <2> SUFFICES ASSUME NEW k \in 1 .. m - 1, NEW l \in 1 .. m - 1, u2[k] = u2[l] PROVE k = l
    BY <1>5 DEF Once
  <2>1. unused[k + 1] = unused[l + 1] /\ k + 1 \in 1 .. m /\ l + 1 \in 1 .. m
    BY <1>5, <1>7
  <2>2. k + 1 = l + 1
    BY <1>3, <1>9, <2>1 DEF Once
  <2>3. QED
    BY <2>2
<1>13. Disjoint(c2, u2)
  <2> SUFFICES ASSUME NEW k \in 1 .. n + 1, NEW l \in 1 .. m - 1 PROVE c2[k] # u2[l]
    BY <1>4, <1>5 DEF Disjoint
  <2>1. u2[l] = unused[l + 1] /\ l + 1 \in 1 .. m /\ l + 1 # 1
    BY <1>5, <1>7
  <2>2. CASE k \in 1 .. n
    BY <1>2, <1>3, <1>4, <1>9, <2>1, <2>2 DEF Disjoint
  <2>3. CASE k = n + 1
    <3>1. unused[1] # unused[l + 1]
      BY <1>3, <1>9, <1>10, <2>1 DEF Once
    <3>2. QED
      BY <1>4, <2>1, <2>3, <3>1
  <2>4. QED
    BY <1>6, <2>2, <2>3
<1>14. Disjoint(c2, irq)
  BY <1>2, <1>3, <1>4, <1>6, <1>9, <1>10 DEF Disjoint
<1>15. Disjoint(u2, irq)
  BY <1>3, <1>5, <1>7, <1>9 DEF Disjoint
<1>16. ASSUME NEW i \in Dscps PROVE In(i, c2) \/ In(i, u2) \/ In(i, irq)
  <2>1. In(i, c) \/ In(i, unused) \/ In(i, irq)
    BY DEF Partition
  <2>2. ASSUME In(i, c) PROVE In(i, c2)
    <3>1. PICK k \in 1 .. n : c[k] = i
      BY <1>2, <2>2 DEF In
    <3>2. c2[k] = i /\ k \in 1 .. n + 1
      BY <1>4, <3>1
    <3>3. QED
      BY <1>4, <3>2 DEF In
  <2>3. ASSUME In(i, unused) PROVE In(i, c2) \/ In(i, u2)
    <3>1. PICK k \in 1 .. m : unused[k] = i
      BY <1>3, <2>3 DEF In
    <3>2. CASE k = 1
      <4>1. c2[n + 1] = i /\ n + 1 \in 1 .. n + 1
        BY <1>4, <3>1, <3>2
      <4>2. QED
        BY <1>4, <4>1 DEF In
    <3>3. CASE k # 1
      <4>1. k - 1 \in 1 .. m - 1 /\ u2[k - 1] = i
        BY <1>5, <1>8, <3>1, <3>3
      <4>2. QED
        BY <1>5, <4>1 DEF In
    <3>4. QED
      BY <3>2, <3>3
  <2>4. QED
    BY <2>1, <2>2, <2>3
<1>17. QED
  BY <1>1, <1>4, <1>5, <1>9, <1>11, <1>12, <1>13, <1>14, <1>15, <1>16 DEF Partition, c2, u2

LEMMA PartitionSend ==
  ASSUME NEW c, NEW unused, NEW irq, Partition(c, unused, irq), Len(c) > 0
  PROVE  Partition(Tail(c), unused, Append(irq, c[1]))
<1> DEFINE c2 == Tail(c)
           q2 == Append(irq, c[1])
<1>1. c \in Seq(Dscps) /\ unused \in Seq(Dscps) /\ irq \in Seq(Dscps) /\ c[1] \in Dscps
  BY DEF Partition
<1>2. PICK n \in Nat : n = Len(irq)
  BY <1>1
<1>3. PICK m \in Nat : m = Len(c) /\ m > 0
  BY <1>1
<1>4. /\ q2 \in Seq(Dscps) /\ Len(q2) = n + 1 /\ q2[n + 1] = c[1]
      /\ \A k \in 1 .. n : q2[k] = irq[k]
  BY <1>1, <1>2, AppendIs
<1>5. c2 \in Seq(Dscps) /\ Len(c2) = m - 1 /\ \A k \in 1 .. m - 1 : c2[k] = c[k + 1]
  BY <1>1, <1>3, TailIs
<1> HIDE DEF c2, q2
<1>6. \A k \in 1 .. n + 1 : k \in 1 .. n \/ k = n + 1
  BY <1>2
<1>7. \A k \in 1 .. m - 1 : k + 1 \in 1 .. m /\ k + 1 # 1
  BY <1>3
<1>8. \A k \in 1 .. m : k = 1 \/ (k - 1 \in 1 .. m - 1 /\ k = (k - 1) + 1)
  BY <1>3
<1>9. /\ Once(c) /\ Once(unused) /\ Once(irq)
      /\ Disjoint(c, unused) /\ Disjoint(c, irq) /\ Disjoint(unused, irq)
  BY DEF Partition
<1>10. 1 \in 1 .. m
  BY <1>3
<1>11. Once(q2)
  BY <1>2, <1>3, <1>4, <1>6, <1>9, <1>10 DEF Once, Disjoint
<1>12. Once(c2)
  <2> SUFFICES ASSUME NEW k \in 1 .. m - 1, NEW l \in 1 .. m - 1, c2[k] = c2[l] PROVE k = l
    BY <1>5 DEF Once
  <2>1. c[k + 1] = c[l + 1] /\ k + 1 \in 1 .. m /\ l + 1 \in 1 .. m
    BY <1>5, <1>7
  <2>2. k + 1 = l + 1
    BY <1>3, <1>9, <2>1 DEF Once
  <2>3. QED
    BY <2>2
<1>13. Disjoint(c2, q2)
  <2> SUFFICES ASSUME NEW k \in 1 .. m - 1, NEW l \in 1 .. n + 1 PROVE c2[k] # q2[l]
    BY <1>4, <1>5 DEF Disjoint
  <2>1. c2[k] = c[k + 1] /\ k + 1 \in 1 .. m /\ k + 1 # 1
    BY <1>5, <1>7
  <2>2. CASE l \in 1 .. n
    BY <1>2, <1>3, <1>4, <1>9, <2>1, <2>2 DEF Disjoint
  <2>3. CASE l = n + 1
    <3>1. c[1] # c[k + 1]
      BY <1>3, <1>9, <1>10, <2>1 DEF Once
    <3>2. QED
      BY <1>4, <2>1, <2>3, <3>1
  <2>4. QED
    BY <1>6, <2>2, <2>3
<1>14. Disjoint(c2, unused)
  BY <1>3, <1>5, <1>7, <1>9 DEF Disjoint
<1>15. Disjoint(unused, q2)
  BY <1>2, <1>3, <1>4, <1>6, <1>9, <1>10 DEF Disjoint
<1>16. ASSUME NEW i \in Dscps PROVE In(i, c2) \/ In(i, unused) \/ In(i, q2)
  <2>1. In(i, c) \/ In(i, unused) \/ In(i, irq)
    BY DEF Partition
  <2>2. ASSUME In(i, irq) PROVE In(i, q2)
    <3>1. PICK k \in 1 .. n : irq[k] = i
      BY <1>2, <2>2 DEF In
    <3>2. q2[k] = i /\ k \in 1 .. n + 1
      BY <1>4, <3>1
    <3>3. QED
      BY <1>4, <3>2 DEF In
  <2>3. ASSUME In(i, c) PROVE In(i, c2) \/ In(i, q2)
    <3>1. PICK k \in 1 .. m : c[k] = i
      BY <1>3, <2>3 DEF In
    <3>2. CASE k = 1
      <4>1. q2[n + 1] = i /\ n + 1 \in 1 .. n + 1
        BY <1>4, <3>1, <3>2
      <4>2. QED
        BY <1>4, <4>1 DEF In
    <3>3. CASE k # 1
      <4>1. k - 1 \in 1 .. m - 1 /\ c2[k - 1] = i
        BY <1>5, <1>8, <3>1, <3>3
      <4>2. QED
        BY <1>5, <4>1 DEF In
    <3>4. QED
      BY <3>2, <3>3
  <2>4. QED
    BY <2>1, <2>2, <2>3
<1>17. QED
  BY <1>1, <1>4, <1>5, <1>9, <1>11, <1>12, <1>13, <1>14, <1>15, <1>16 DEF Partition, c2, q2

LEMMA PartitionDone ==
  ASSUME NEW c, NEW unused, NEW irq, Partition(c, unused, irq), NEW w \in 0 .. Len(irq)
  PROVE  Partition(c, unused \o SubSeq(irq, 1, w), SubSeq(irq, w + 1, Len(irq)))
<1> DEFINE u2 == unused \o SubSeq(irq, 1, w)
           q2 == SubSeq(irq, w + 1, Len(irq))
<1>1. c \in Seq(Dscps) /\ unused \in Seq(Dscps) /\ irq \in Seq(Dscps)
  BY DEF Partition
<1>2. PICK n \in Nat : n = Len(irq)
  BY <1>1
<1>3. PICK m \in Nat : m = Len(unused)
  BY <1>1
<1>4. /\ SubSeq(irq, 1, w) \in Seq(Dscps) /\ Len(SubSeq(irq, 1, w)) = w
      /\ \A k \in 1 .. w : SubSeq(irq, 1, w)[k] = irq[k]
  <2>1. 1 \in 1 .. n + 1 /\ w \in 0 .. n /\ 1 <= w + 1 /\ w + 1 - 1 = w
        /\ \A k \in 1 .. w : k + 1 - 1 = k
    BY <1>2
  <2>2. QED
    BY <1>1, <1>2, <2>1, SubIs
<1>5. /\ q2 \in Seq(Dscps) /\ Len(q2) = n - w
      /\ \A k \in 1 .. n - w : q2[k] = irq[k + w]
  <2>1. w + 1 \in 1 .. n + 1 /\ n \in 0 .. n /\ w + 1 <= n + 1 /\ n + 1 - (w + 1) = n - w
        /\ \A k \in 1 .. n - w : k + (w + 1) - 1 = k + w
    BY <1>2
  <2>2. QED
    BY <1>1, <1>2, <2>1, SubIs
<1>6. /\ u2 \in Seq(Dscps) /\ Len(u2) = m + w
      /\ \A k \in 1 .. m : u2[k] = unused[k]
      /\ \A k \in 1 .. w : u2[k + m] = irq[k]
  BY <1>1, <1>3, <1>4, CatIs
<1> HIDE DEF u2, q2
<1>7. /\ Once(c) /\ Once(unused) /\ Once(irq)
      /\ Disjoint(c, unused) /\ Disjoint(c, irq) /\ Disjoint(unused, irq)
  BY DEF Partition
<1>8. \A k \in 1 .. m + w : k \in 1 .. m \/ (k - m \in 1 .. w /\ k = (k - m) + m)
  BY <1>2, <1>3
<1>9. \A k \in 1 .. m + w : /\ k \in 1 .. m => u2[k] = unused[k]
                            /\ k \notin 1 .. m => k - m \in 1 .. n /\ k - m <= w /\ u2[k] = irq[k - m]
  BY <1>2, <1>3, <1>6, <1>8
<1>10. \A k \in 1 .. n - w : k + w \in 1 .. n /\ k + w > w
  BY <1>2
<1>11. Once(u2)
  <2> SUFFICES ASSUME NEW k \in 1 .. m + w, NEW l \in 1 .. m + w, u2[k] = u2[l] PROVE k = l
    BY <1>6 DEF Once
  <2>1. CASE k \in 1 .. m /\ l \in 1 .. m
    <3>1. unused[k] = unused[l]
      BY <1>9, <2>1
    <3>2. QED
      BY <1>3, <1>7, <2>1, <3>1 DEF Once
  <2>2. CASE k \in 1 .. m /\ l \notin 1 .. m
    <3>1. unused[k] = irq[l - m] /\ l - m \in 1 .. n
      BY <1>9, <2>2
    <3>2. QED
      BY <1>2, <1>3, <1>7, <2>2, <3>1 DEF Disjoint
  <2>3. CASE k \notin 1 .. m /\ l \in 1 .. m
    <3>1. unused[l] = irq[k - m] /\ k - m \in 1 .. n
      BY <1>9, <2>3
    <3>2. QED
      BY <1>2, <1>3, <1>7, <2>3, <3>1 DEF Disjoint
  <2>4. CASE k \notin 1 .. m /\ l \notin 1 .. m
    <3>1. irq[k - m] = irq[l - m] /\ k - m \in 1 .. n /\ l - m \in 1 .. n
      BY <1>9, <2>4
    <3>2. k - m = l - m
      BY <1>2, <1>7, <3>1 DEF Once
    <3>3. QED
      BY <1>2, <1>3, <3>2
  <2>5. QED
    BY <2>1, <2>2, <2>3, <2>4
<1>12. Once(q2)
  <2> SUFFICES ASSUME NEW k \in 1 .. n - w, NEW l \in 1 .. n - w, q2[k] = q2[l] PROVE k = l
    BY <1>5 DEF Once
  <2>1. irq[k + w] = irq[l + w] /\ k + w \in 1 .. n /\ l + w \in 1 .. n
    BY <1>5, <1>10
  <2>2. k + w = l + w
    BY <1>2, <1>7, <2>1 DEF Once
  <2>3. QED
    BY <1>2, <2>2
<1>13. Disjoint(c, u2)
  <2> SUFFICES ASSUME NEW k \in 1 .. Len(c), NEW l \in 1 .. m + w PROVE c[k] # u2[l]
    BY <1>6 DEF Disjoint
  <2>1. CASE l \in 1 .. m
    <3>1. u2[l] = unused[l]
      BY <1>9, <2>1
    <3>2. QED
      BY <1>3, <1>7, <2>1, <3>1 DEF Disjoint
  <2>2. CASE l \notin 1 .. m
    <3>1. u2[l] = irq[l - m] /\ l - m \in 1 .. n
      BY <1>9, <2>2
    <3>2. QED
      BY <1>2, <1>7, <3>1 DEF Disjoint
  <2>3. QED
    BY <2>1, <2>2
<1>14. Disjoint(c, q2)
  BY <1>2, <1>5, <1>7, <1>10 DEF Disjoint
<1>15. Disjoint(u2, q2)
  <2> SUFFICES ASSUME NEW k \in 1 .. m + w, NEW l \in 1 .. n - w PROVE u2[k] # q2[l]
    BY <1>5, <1>6 DEF Disjoint
  <2>1. q2[l] = irq[l + w] /\ l + w \in 1 .. n /\ l + w > w
    BY <1>5, <1>10
  <2>2. CASE k \in 1 .. m
    <3>1. u2[k] = unused[k]
      BY <1>9, <2>2
    <3>2. QED
      BY <1>2, <1>3, <1>7, <2>1, <2>2, <3>1 DEF Disjoint
  <2>3. CASE k \notin 1 .. m
    <3>1. k - m \in 1 .. n /\ k - m <= w /\ u2[k] = irq[k - m]
      BY <1>9, <2>3
    <3>2. k - m # l + w
      BY <1>2, <1>3, <2>1, <3>1
    <3>3. QED
      BY <1>2, <1>7, <2>1, <3>1, <3>2 DEF Once
  <2>4. QED
    BY <2>2, <2>3
<1>16. ASSUME NEW i \in Dscps PROVE In(i, c) \/ In(i, u2) \/ In(i, q2)
  <2>1. In(i, c) \/ In(i, unused) \/ In(i, irq)
    BY DEF Partition
  <2>2. ASSUME In(i, unused) PROVE In(i, u2)
    <3>1. PICK k \in 1 .. m : unused[k] = i
      BY <1>3, <2>2 DEF In
    <3>2. u2[k] = i /\ k \in 1 .. m + w
      BY <1>2, <1>3, <1>6, <3>1
    <3>3. QED
      BY <1>6, <3>2 DEF In
  <2>3. ASSUME In(i, irq) PROVE In(i, u2) \/ In(i, q2)
    <3>1. PICK k \in 1 .. n : irq[k] = i
      BY <1>2, <2>3 DEF In
    <3>2. CASE k <= w
      <4>1. k + m \in 1 .. m + w /\ k \in 1 .. w
        BY <1>2, <1>3, <3>2
      <4>2. u2[k + m] = i
        BY <1>6, <3>1, <4>1
      <4>3. QED
        BY <1>6, <4>1, <4>2 DEF In
    <3>3. CASE ~(k <= w)
      <4>1. k - w \in 1 .. n - w /\ (k - w) + w = k
        BY <1>2, <3>3
      <4>2. q2[k - w] = i
        BY <1>5, <3>1, <4>1
      <4>3. QED
        BY <1>5, <4>1, <4>2 DEF In
    <3>4. QED
      BY <3>2, <3>3
  <2>4. QED
    BY <2>1, <2>2, <2>3
<1>17. QED
  BY <1>1, <1>5, <1>6, <1>7, <1>11, <1>12, <1>13, <1>14, <1>15, <1>16 DEF Partition, u2, q2

-----------------------------------------------------------------------------
(* Every entry that has reached memory is taken: none is refused, for no    *)
(* descriptor is unused and sent at once.                                   *)
LEMMA ReadableIs ==
  ASSUME NEW d \in ChainDev, NEW c, ChainTx(d, c)
  PROVE  Q!Readable(d) = SubSeq(d.irq, 1, d.irqWritten)
<1> DEFINE w == d.irqWritten
           Body(f) == [n \in 0 .. w |->
                         IF n = 0 THEN <<>>
                         ELSE IF Q!Refused(d, d.irq[n]) THEN f[n - 1]
                         ELSE Append(f[n - 1], d.irq[n])]
           g == CHOOSE f : f = Body(f)
           h == [n \in 0 .. w |-> SubSeq(d.irq, 1, n)]
<1>1. Q!Readable(d) = g[w]
  BY DEF Q!Readable
<1>2. /\ d.irq \in Seq(Dscps) /\ d.unused \in Seq(Dscps) /\ w \in Nat /\ w <= Len(d.irq)
      /\ Disjoint(d.unused, d.irq)
  BY DEF ChainDev, ChainTx, Partition
<1>3. \A n \in 1 .. w : ~Q!Refused(d, d.irq[n])
  <2> SUFFICES ASSUME NEW n \in 1 .. w, NEW k \in 1 .. Len(d.unused) - 1, d.unused[k] = d.irq[n]
               PROVE  FALSE
    BY DEF Q!Refused
  <2>1. n \in 1 .. Len(d.irq) /\ k \in 1 .. Len(d.unused)
    BY <1>2
  <2>2. QED
    BY <1>2, <2>1 DEF Disjoint
<1>4. \A n \in 1 .. w : n \in 0 .. w /\ n # 0 /\ n - 1 \in 0 .. w
                        /\ SubSeq(d.irq, 1, n) = Append(SubSeq(d.irq, 1, n - 1), d.irq[n])
  <2> SUFFICES ASSUME NEW n \in 1 .. w
               PROVE  SubSeq(d.irq, 1, n) = Append(SubSeq(d.irq, 1, n - 1), d.irq[n])
    BY <1>2
  <2>1. n \in 1 .. Len(d.irq)
    BY <1>2
  <2>2. QED
    BY <1>2, <2>1
<1>5. SubSeq(d.irq, 1, 0) = <<>>
  BY <1>2
<1>6. \A n \in 0 .. w : n = 0 \/ n \in 1 .. w
  BY <1>2
<1> HIDE DEF w
<1>7. h = Body(h)
  <2> SUFFICES ASSUME NEW n \in 0 .. w PROVE h[n] = Body(h)[n]
    OBVIOUS
  <2>1. CASE n = 0
    BY <1>5, <2>1
  <2>2. CASE n # 0
    <3>1. n \in 1 .. w
      BY <1>6, <2>2
    <3>2. Body(h)[n] = Append(h[n - 1], d.irq[n])
      <4>1. Body(h)[n] = IF n = 0 THEN <<>>
                         ELSE IF Q!Refused(d, d.irq[n]) THEN h[n - 1]
                         ELSE Append(h[n - 1], d.irq[n])
        <5> HIDE DEF h
        <5>1. QED
          OBVIOUS
      <4>2. ~Q!Refused(d, d.irq[n])
        BY <1>3, <3>1
      <4> HIDE DEF Body, h
      <4>3. QED
        BY <2>2, <4>1, <4>2
    <3>3. QED
      BY <1>4, <3>1, <3>2
  <2>3. QED
    BY <2>1, <2>2
<1>8. g = Body(g)
  <2> HIDE DEF Body, h
  <2>1. \E f : f = Body(f)
    BY <1>7
  <2>2. QED
    BY <2>1
<1> HIDE DEF g
<1>9. \A n \in 0 .. w : g[n] = h[n]
  <2> DEFINE T == {n \in 0 .. w : g[n] # h[n]}
             Less == OpToRel(<, Nat)
  <2>1. SUFFICES ASSUME T # {} PROVE FALSE
    OBVIOUS
  <2>2. IsWellFoundedOn(Less, Nat)
    BY NatLessThanWellFounded
  <2>3. \A x, y \in Nat : <<y, x>> \in Less <=> y < x
    BY DEF OpToRel
  <2>4. T \in SUBSET Nat
    OBVIOUS
  <2> HIDE DEF Less, T
  <2>5. PICK n \in T : \A y \in T : ~(<<y, n>> \in Less)
    BY <2>1, <2>2, <2>4, WFMin
  <2>6. n \in 0 .. w /\ g[n] # h[n]
    BY <2>5 DEF T
  <2>7. n # 0
    <3>1. g[0] = <<>> /\ h[0] = <<>> /\ 0 \in 0 .. w
      BY <1>2, <1>5, <1>8 DEF w
    <3>2. QED
      BY <2>6, <3>1
  <2>8. n \in 1 .. w /\ n - 1 \in 0 .. w /\ n - 1 < n /\ n - 1 \in Nat /\ n \in Nat
    BY <1>4, <1>6, <2>6, <2>7
  <2>9. n - 1 \notin T
    BY <2>3, <2>5, <2>8
  <2>10. g[n - 1] = h[n - 1]
    BY <2>8, <2>9 DEF T
  <2>11. g[n] = Append(g[n - 1], d.irq[n])
    BY <1>3, <1>8, <2>6, <2>7, <2>8
  <2>12. h[n] = Append(h[n - 1], d.irq[n])
    BY <1>4, <2>6, <2>8
  <2>13. QED
    BY <2>6, <2>10, <2>11, <2>12
<1>10. w \in 0 .. w
  BY <1>2 DEF w
<1>11. QED
  BY <1>1, <1>9, <1>10 DEF w

LEMMA ChainFields ==
  ASSUME NEW d \in ChainDev
  PROVE  /\ d.tx \in TxChain /\ d.unused \in Seq(Dscps) /\ d.txUsing \in Dscps /\ d.txDma \in Dscps
         /\ d.irq \in Seq(Dscps) /\ d.irqWritten \in Nat /\ d.rx \in RxChain
         /\ d.rxStart \in 0 .. NRx - 1 /\ d.rxEnd \in 0 .. NRx - 1 /\ d.rxDma \in 0 .. NRx - 1
BY DEF ChainDev

(* The operations of the QDMA. *)
LEMMA ChainReclaimOK ==
  ASSUME NEW d, NEW busy \in BOOLEAN, ChainOK(d, busy)
  PROVE  LET e == Q!ChainReclaim(d)
             gone == IF Q!Recycles(d) THEN {d.irq[k] : k \in 1 .. d.irqWritten} ELSE {}
         IN  /\ ChainOK(e, busy)
             /\ \A c : ChainTx(d, c) => ChainTx(e, c)
             /\ e.rx = d.rx /\ d.tx \in TxChain /\ gone \subseteq 0 .. NTx - 1
             /\ Q!ChainFreed(d) = {d.tx[i].skb : i \in gone}
             /\ \A i \in 0 .. NTx - 1 : e.tx[i].skb = IF i \in gone THEN NBufs ELSE d.tx[i].skb
<1> DEFINE e == Q!ChainReclaim(d)
           w == d.irqWritten
           gone == {d.irq[k] : k \in 1 .. w}
           read == SubSeq(d.irq, 1, w)
<1>1. d \in ChainDev
  BY DEF ChainOK
<1>2. /\ d.tx \in TxChain /\ d.unused \in Seq(Dscps) /\ d.irq \in Seq(Dscps) /\ w \in Nat
      /\ d.rx \in RxChain
  BY <1>1, ChainFields
<1>3. CASE ~Q!Recycles(d)
  <2>1. Q!ChainReclaim(d) = d /\ Q!ChainFreed(d) = {}
    BY <1>3 DEF Q!ChainReclaim, Q!ChainFreed
  <2>2. QED
    BY <1>2, <1>3, <2>1
<1>4. CASE Q!Recycles(d)
  <2>1. PICK c0 : ChainTx(d, c0)
    BY DEF ChainOK
  <2>2. /\ Q!Readable(d) = read /\ w <= Len(d.irq)
    BY <1>1, <2>1, ReadableIs DEF ChainTx
  <2>3. read \in Seq(Dscps) /\ Len(read) = w /\ \A k \in 1 .. w : read[k] = d.irq[k]
    <3>1. /\ 1 \in 1 .. Len(d.irq) + 1 /\ w \in 0 .. Len(d.irq) /\ 1 <= w + 1 /\ w + 1 - 1 = w
          /\ \A k \in 1 .. w : k + 1 - 1 = k
      BY <1>2, <2>2
    <3>2. QED
      BY <1>2, <3>1, SubIs
  <2> HIDE DEF read
  <2>4. Q!ToSet(read) = gone
    <3>1. DOMAIN read = 1 .. w
      BY <2>3
    <3>2. QED
      BY <2>3, <3>1 DEF Q!ToSet
  <2>5. gone \subseteq 0 .. NTx - 1
    <3>1. \A k \in 1 .. w : d.irq[k] \in Dscps
      BY <1>2, <2>2
    <3>2. QED
      BY <3>1 DEF Dscps
  <2>6. Q!ChainFreed(d) = {d.tx[i].skb : i \in gone}
    BY <1>4, <2>2, <2>4 DEF Q!ChainFreed
  <2>7. /\ e.tx = [i \in 0 .. NTx - 1 |-> IF i \in gone THEN [d.tx[i] EXCEPT !.skb = NBufs] ELSE d.tx[i]]
        /\ e.unused = d.unused \o read
        /\ e.irq = SubSeq(d.irq, w + 1, Len(d.irq))
        /\ e.irqWritten = 0
    BY <1>1, <1>4, <2>2, <2>4, Sizes DEF Q!ChainReclaim, Q!qdma_bm_transmit_done, ChainDev
  <2>8. /\ e.txUsing = d.txUsing /\ e.txDma = d.txDma /\ e.rx = d.rx
        /\ e.rxStart = d.rxStart /\ e.rxEnd = d.rxEnd /\ e.rxDma = d.rxDma
    BY <1>1, <1>4 DEF Q!ChainReclaim, Q!qdma_bm_transmit_done, ChainDev
  <2>9. e = [d EXCEPT !.tx = e.tx, !.unused = e.unused, !.irq = e.irq, !.irqWritten = e.irqWritten]
    BY <1>1, <1>4 DEF Q!ChainReclaim, Q!qdma_bm_transmit_done, ChainDev
  <2> HIDE DEF e, gone
  <2>10. e.tx \in TxChain
    <3>1. NBufs \in Held
      BY Sizes DEF Held
    <3>2. \A i \in Dscps : d.tx[i] \in [skb : Held, next_idx : Dscps]
      BY <1>2 DEF TxChain
    <3>3. \A i \in Dscps : [d.tx[i] EXCEPT !.skb = NBufs] \in [skb : Held, next_idx : Dscps]
      BY <3>1, <3>2
    <3>4. \A i \in Dscps : (IF i \in gone THEN [d.tx[i] EXCEPT !.skb = NBufs] ELSE d.tx[i])
                              \in [skb : Held, next_idx : Dscps]
      BY <3>2, <3>3
    <3>5. QED
      BY <2>7, <3>4 DEF TxChain, Dscps
  <2>11. \A i \in 0 .. NTx - 1 : /\ e.tx[i].skb = IF i \in gone THEN NBufs ELSE d.tx[i].skb
                                 /\ e.tx[i].next_idx = d.tx[i].next_idx
    BY <1>2, <2>7 DEF TxChain, Dscps
  <2>12. ASSUME NEW c, ChainTx(d, c) PROVE ChainTx(e, c)
    <3>1. /\ Links(d.tx, d.txDma, d.txUsing, c) /\ Partition(c, d.unused, d.irq)
          /\ Filled(d.tx, c, d.unused, d.irq)
      BY <2>12 DEF ChainTx
    <3>2. Partition(c, e.unused, e.irq)
      <4>1. w \in 0 .. Len(d.irq)
        BY <1>2, <2>2
      <4>2. QED
        BY <2>7, <3>1, <4>1, PartitionDone DEF read
    <3>3. c \in Seq(Dscps) /\ \A k \in 1 .. Len(c) : c[k] \in 0 .. NTx - 1
      <4>1. c \in Seq(Dscps)
        BY <3>1 DEF Links
      <4>2. \A k \in 1 .. Len(c) : c[k] \in Dscps
        BY <4>1
      <4>3. QED
        BY <4>1, <4>2 DEF Dscps
    <3>4. Links(e.tx, e.txDma, e.txUsing, c)
      <4>1. \A k \in 1 .. Len(c) - 1 : k \in 1 .. Len(c)
        BY <3>3
      <4>2. QED
        BY <2>8, <2>10, <2>11, <3>1, <3>3, <4>1 DEF Links
    <3>5. \A k \in 1 .. Len(c) : c[k] \notin gone
      <4>1. \A k \in 1 .. w : k \in 1 .. Len(d.irq)
        BY <1>2, <2>2
      <4>2. QED
        BY <3>1, <4>1 DEF Partition, Disjoint, gone
    <3>6. \A k \in 1 .. Len(c) : e.tx[c[k]].skb # NBufs <=> k < Len(c)
      BY <2>11, <3>1, <3>3, <3>5 DEF Filled
    <3>7. \A k \in 1 .. Len(e.unused) : e.tx[e.unused[k]].skb = NBufs
      <4> SUFFICES ASSUME NEW k \in 1 .. Len(e.unused) PROVE e.tx[e.unused[k]].skb = NBufs
        OBVIOUS
      <4>1. /\ Len(d.unused \o read) = Len(d.unused) + w
            /\ \A l \in 1 .. Len(d.unused) : (d.unused \o read)[l] = d.unused[l]
            /\ \A l \in 1 .. w : (d.unused \o read)[l + Len(d.unused)] = read[l]
        <5>1. /\ Len(d.unused \o read) = Len(d.unused) + Len(read)
              /\ \A l \in 1 .. Len(d.unused) : (d.unused \o read)[l] = d.unused[l]
              /\ \A l \in 1 .. Len(read) : (d.unused \o read)[l + Len(d.unused)] = read[l]
          <6>1. read \in Seq(Dscps) /\ d.unused \in Seq(Dscps)
            BY <1>2, <2>3
          <6>2. \A t, r \in Seq(Dscps) :
                  /\ Len(t \o r) = Len(t) + Len(r)
                  /\ \A l \in 1 .. Len(t) : (t \o r)[l] = t[l]
                  /\ \A l \in 1 .. Len(r) : (t \o r)[l + Len(t)] = r[l]
            BY CatIs
          <6>3. QED
            BY <6>1, <6>2, Zenon
        <5>2. QED
          BY <2>3, <5>1
      <4>2. k \in 1 .. Len(d.unused) + w
        BY <2>7, <4>1
      <4>3. CASE k \in 1 .. Len(d.unused)
        <5>1. e.unused[k] = d.unused[k] /\ d.unused[k] \in 0 .. NTx - 1
          <6>1. d.unused[k] \in Dscps
            BY <1>2, <4>3
          <6>2. QED
            BY <2>7, <4>1, <4>3, <6>1 DEF Dscps
        <5>2. d.tx[d.unused[k]].skb = NBufs
          BY <3>1, <4>3 DEF Filled
        <5>3. QED
          BY <2>11, <5>1, <5>2
      <4>4. CASE k \notin 1 .. Len(d.unused)
        <5>1. k - Len(d.unused) \in 1 .. w /\ (k - Len(d.unused)) + Len(d.unused) = k
          BY <1>2, <4>2, <4>4
        <5>2. e.unused[k] = d.irq[k - Len(d.unused)]
          BY <2>3, <2>7, <4>1, <5>1
        <5>3. e.unused[k] \in gone
          BY <5>1, <5>2 DEF gone
        <5>4. QED
          BY <2>5, <2>11, <5>3
      <4>5. QED
        BY <4>3, <4>4
    <3>8. \A k \in 1 .. Len(e.irq) : e.tx[e.irq[k]].skb # NBufs
      <4> SUFFICES ASSUME NEW k \in 1 .. Len(e.irq) PROVE e.tx[e.irq[k]].skb # NBufs
        OBVIOUS
      <4>1. PICK n \in Nat : n = Len(d.irq)
        BY <1>2
      <4>2. w \in 0 .. Len(d.irq)
        BY <1>2, <2>2, <4>1
      <4>3. /\ Len(SubSeq(d.irq, w + 1, n)) = n - w
            /\ \A l \in 1 .. n - w : SubSeq(d.irq, w + 1, n)[l] = d.irq[l + w]
        BY <1>2, <4>1, <4>2, DropIs
      <4>4. k \in 1 .. n - w /\ e.irq[k] = d.irq[k + w]
        BY <2>7, <4>1, <4>3
      <4>5. k + w \in 1 .. n /\ d.irq[k + w] \in 0 .. NTx - 1
        <5>1. k + w \in 1 .. n
          BY <1>2, <2>2, <4>1, <4>4
        <5>2. d.irq[k + w] \in Dscps
          BY <1>2, <4>1, <5>1
        <5>3. QED
          BY <5>1, <5>2 DEF Dscps
      <4>6. d.irq[k + w] \notin gone
        <5>1. SUFFICES ASSUME NEW l \in 1 .. w, d.irq[l] = d.irq[k + w] PROVE FALSE
          BY DEF gone
        <5>2. l \in 1 .. n /\ l # k + w
          BY <1>2, <2>2, <4>1, <4>4
        <5>3. QED
          BY <3>1, <4>1, <4>5, <5>1, <5>2 DEF Partition, Once
      <4>7. d.tx[d.irq[k + w]].skb # NBufs
        BY <3>1, <4>1, <4>5 DEF Filled
      <4>8. QED
        BY <2>11, <4>4, <4>5, <4>6, <4>7
    <3>9. 0 <= Len(e.irq)
      <4>1. e.irq \in Seq(Dscps)
        BY <3>2 DEF Partition
      <4>2. QED
        BY <4>1
    <3>10. QED
      BY <2>7, <3>2, <3>4, <3>6, <3>7, <3>8, <3>9 DEF ChainTx, Filled
  <2>13. e \in ChainDev
    <3>1. e.unused \in Seq(Dscps) /\ e.irq \in Seq(Dscps) /\ e.irqWritten \in Nat
      <4>1. ChainTx(e, c0)
        BY <2>1, <2>12
      <4>2. QED
        BY <2>7, <4>1 DEF ChainTx, Partition
    <3>2. QED
      BY <1>1, <2>9, <2>10, <3>1 DEF ChainDev
  <2>14. ChainRx(e, busy)
    BY <2>8 DEF ChainOK, ChainRx
  <2>15. ChainOK(e, busy)
    <3>1. c0 \in Seq(Dscps)
      BY <2>1 DEF ChainTx, Links
    <3>2. QED
      BY <2>1, <2>12, <2>13, <2>14, <3>1 DEF ChainOK
  <2>16. QED
    BY <1>2, <1>4, <2>5, <2>6, <2>8, <2>11, <2>12, <2>15 DEF e, gone
<1>5. QED
  BY <1>3, <1>4

LEMMA ChainPostOK ==
  ASSUME NEW d, NEW busy \in BOOLEAN, ChainOK(d, busy), ~Q!ChainBlocked(d), NEW b \in R!Bufs
  PROVE  LET e == Q!ChainPost(d, b)
             k == d.txUsing
         IN  /\ ChainOK(e, busy)
             /\ \A c : ChainTx(d, c) => ChainTx(e, Append(c, Head(d.unused)))
             /\ k \in 0 .. NTx - 1 /\ d.tx[k].skb = NBufs /\ d.tx \in TxChain
             /\ e.rx = d.rx /\ e.tx = [d.tx EXCEPT ![k] = [skb |-> b, next_idx |-> Head(d.unused)]]
<1> DEFINE e == Q!ChainPost(d, b)
           k == d.txUsing
           x == d.unused[1]
<1>1. d \in ChainDev
  BY DEF ChainOK
<1>2. /\ d.tx \in TxChain /\ d.unused \in Seq(Dscps) /\ d.irq \in Seq(Dscps) /\ k \in Dscps
      /\ d.irqWritten \in Nat
  BY <1>1, ChainFields
<1>3. /\ Len(d.unused) > 0 /\ Head(d.unused) = x /\ x \in Dscps
  <2>1. d.unused # <<>>
    BY DEF Q!ChainBlocked
  <2>2. QED
    BY <1>2, <2>1
<1>4. /\ e.tx = [d.tx EXCEPT ![k] = [skb |-> b, next_idx |-> x]]
      /\ e.txUsing = x /\ e.unused = Tail(d.unused)
  BY <1>1, <1>3 DEF Q!ChainPost, ChainDev
<1>5. /\ e.irq = d.irq /\ e.irqWritten = d.irqWritten /\ e.txDma = d.txDma /\ e.rx = d.rx
      /\ e.rxStart = d.rxStart /\ e.rxEnd = d.rxEnd /\ e.rxDma = d.rxDma
  BY <1>1 DEF Q!ChainPost, ChainDev
<1>6. e = [d EXCEPT !.tx = e.tx, !.txUsing = e.txUsing, !.unused = e.unused]
  BY <1>1 DEF Q!ChainPost, ChainDev
<1> HIDE DEF e
<1>7. /\ e.tx \in TxChain
      /\ \A i \in Dscps : e.tx[i] = IF i = k THEN [skb |-> b, next_idx |-> x] ELSE d.tx[i]
  <2>1. b \in Held
    BY Sizes DEF Held
  <2>2. QED
    BY <1>2, <1>3, <1>4, <2>1 DEF TxChain
<1> HIDE DEF k, x
<1>8. ASSUME NEW c, ChainTx(d, c) PROVE ChainTx(e, Append(c, x)) /\ d.tx[k].skb = NBufs
  <2> DEFINE c2 == Append(c, x)
  <2>1. /\ Links(d.tx, d.txDma, k, c) /\ Partition(c, d.unused, d.irq)
        /\ Filled(d.tx, c, d.unused, d.irq) /\ d.irqWritten <= Len(d.irq)
    BY <1>8 DEF ChainTx, k
  <2>2. PICK n \in Nat : n = Len(c) /\ n > 0
    BY <2>1 DEF Links
  <2>3. c \in Seq(Dscps) /\ c[n] = k /\ c[1] = d.txDma
    BY <2>1, <2>2 DEF Links
  <2>4. c2 \in Seq(Dscps) /\ Len(c2) = n + 1 /\ c2[n + 1] = x /\ \A l \in 1 .. n : c2[l] = c[l]
    BY <1>3, <2>2, <2>3, AppendIs
  <2> HIDE DEF c2
  <2>5. \A l \in 1 .. n : c[l] \in Dscps /\ (c[l] = k <=> l = n)
    <3>1. \A l \in 1 .. n : c[l] \in Dscps
      BY <2>2, <2>3
    <3>2. n \in 1 .. n
      BY <2>2
    <3>3. QED
      BY <2>1, <2>2, <2>3, <3>1, <3>2 DEF Partition, Once
  <2>6. Partition(c2, e.unused, e.irq)
    BY <1>3, <1>4, <1>5, <2>1, PartitionPost DEF x, c2
  <2>7. Links(e.tx, e.txDma, e.txUsing, c2)
    <3>1. \A l \in 1 .. n : e.tx[c2[l]].next_idx = c2[l + 1]
      <4> SUFFICES ASSUME NEW l \in 1 .. n PROVE e.tx[c2[l]].next_idx = c2[l + 1]
        OBVIOUS
      <4>1. c2[l] = c[l]
        BY <2>4
      <4>2. CASE l = n
        BY <1>7, <2>3, <2>4, <2>5, <4>1, <4>2
      <4>3. CASE l # n
        <5>1. e.tx[c[l]] = d.tx[c[l]]
          BY <1>7, <2>5, <4>3
        <5>2. l \in 1 .. n - 1 /\ l + 1 \in 1 .. n
          BY <2>2, <4>3
        <5>3. d.tx[c[l]].next_idx = c[l + 1]
          BY <2>1, <2>2, <5>2 DEF Links
        <5>4. QED
          BY <2>4, <4>1, <5>1, <5>2, <5>3
      <4>4. QED
        BY <4>2, <4>3
    <3>2. 1 \in 1 .. n /\ (n + 1) - 1 = n
      BY <2>2
    <3>3. c2[1] = c[1]
      BY <2>4, <3>2
    <3>4. QED
      BY <1>4, <1>5, <1>7, <2>2, <2>3, <2>4, <3>1, <3>2, <3>3 DEF Links
  <2>8. \A l \in 1 .. Len(c2) : e.tx[c2[l]].skb # NBufs <=> l < Len(c2)
    <3> SUFFICES ASSUME NEW l \in 1 .. n + 1 PROVE e.tx[c2[l]].skb # NBufs <=> l < n + 1
      BY <2>4
    <3>1. CASE l = n + 1
      <4>1. x # k
        <5>1. n \in 1 .. n /\ 1 \in 1 .. Len(d.unused)
          BY <1>2, <1>3, <2>2
        <5>2. QED
          BY <2>1, <2>2, <2>3, <5>1 DEF Partition, Disjoint, x
      <4>2. d.tx[x].skb = NBufs
        <5>1. 1 \in 1 .. Len(d.unused)
          BY <1>2, <1>3
        <5>2. QED
          BY <2>1, <5>1 DEF Filled, x
      <4>3. QED
        BY <1>3, <1>7, <2>2, <2>4, <3>1, <4>1, <4>2
    <3>2. CASE l # n + 1
      <4>1. l \in 1 .. n /\ c2[l] = c[l] /\ l < n + 1
        BY <2>2, <2>4, <3>2
      <4>2. CASE l = n
        <5>1. e.tx[c[l]].skb = b /\ b # NBufs
          BY <1>7, <2>5, <4>1, <4>2, Sizes
        <5>2. QED
          BY <4>1, <5>1
      <4>3. CASE l # n
        <5>1. e.tx[c[l]] = d.tx[c[l]] /\ l < n
          BY <1>7, <2>2, <2>5, <4>1, <4>3
        <5>2. d.tx[c[l]].skb # NBufs
          BY <2>1, <2>2, <4>1, <5>1 DEF Filled
        <5>3. QED
          BY <4>1, <5>1, <5>2
      <4>4. QED
        BY <4>2, <4>3
    <3>3. QED
      BY <3>1, <3>2
  <2>9. \A l \in 1 .. Len(e.unused) : e.tx[e.unused[l]].skb = NBufs
    <3> SUFFICES ASSUME NEW l \in 1 .. Len(e.unused) PROVE e.tx[e.unused[l]].skb = NBufs
      OBVIOUS
    <3>1. e.unused[l] = d.unused[l + 1] /\ l + 1 \in 1 .. Len(d.unused) /\ d.unused[l + 1] \in Dscps
      <4>1. l \in 1 .. Len(d.unused) - 1 /\ e.unused[l] = d.unused[l + 1]
        BY <1>2, <1>3, <1>4, TailIs
      <4>2. l + 1 \in 1 .. Len(d.unused)
        BY <1>2, <4>1
      <4>3. QED
        BY <1>2, <4>1, <4>2
    <3>2. d.unused[l + 1] # k /\ d.tx[d.unused[l + 1]].skb = NBufs
      <4>1. n \in 1 .. n
        BY <2>2
      <4>2. QED
        BY <2>1, <2>2, <2>3, <3>1, <4>1 DEF Partition, Disjoint, Filled
    <3>3. QED
      BY <1>7, <3>1, <3>2
  <2>10. \A l \in 1 .. Len(e.irq) : e.tx[e.irq[l]].skb # NBufs
    <3> SUFFICES ASSUME NEW l \in 1 .. Len(d.irq) PROVE e.tx[d.irq[l]].skb # NBufs
      BY <1>5
    <3>1. d.irq[l] \in Dscps
      BY <1>2
    <3>2. d.irq[l] # k /\ d.tx[d.irq[l]].skb # NBufs
      <4>1. n \in 1 .. n
        BY <2>2
      <4>2. QED
        BY <2>1, <2>2, <2>3, <4>1 DEF Partition, Disjoint, Filled
    <3>3. QED
      BY <1>7, <3>1, <3>2
  <2>11. ChainTx(e, c2)
    BY <1>5, <2>1, <2>6, <2>7, <2>8, <2>9, <2>10 DEF ChainTx, Filled
  <2>12. d.tx[k].skb = NBufs
    <3>1. n \in 1 .. n /\ ~(n < n)
      BY <2>2
    <3>2. QED
      BY <2>1, <2>2, <2>3, <3>1 DEF Filled
  <2>13. QED
    BY <2>11, <2>12 DEF c2
<1>9. PICK c0 : ChainTx(d, c0)
  BY DEF ChainOK
<1>10. ChainTx(e, Append(c0, x)) /\ d.tx[k].skb = NBufs
  BY <1>8, <1>9
<1>11. e \in ChainDev
  <2>1. e.unused \in Seq(Dscps)
    BY <1>10 DEF ChainTx, Partition
  <2>2. QED
    BY <1>1, <1>3, <1>4, <1>6, <1>7, <2>1 DEF ChainDev
<1>12. ChainRx(e, busy)
  BY <1>5 DEF ChainOK, ChainRx
<1>13. ChainOK(e, busy)
  <2>1. Append(c0, x) \in Seq(Dscps)
    BY <1>10 DEF ChainTx, Links
  <2>2. QED
    BY <1>10, <1>11, <1>12, <2>1 DEF ChainOK
<1>14. k \in 0 .. NTx - 1
  BY <1>2 DEF Dscps
<1>15. QED
  BY <1>2, <1>3, <1>4, <1>5, <1>8, <1>10, <1>13, <1>14 DEF e, k, x

LEMMA ChainTransmitOK ==
  ASSUME NEW d, NEW busy \in BOOLEAN, ChainOK(d, busy), Q!ChainTxMay(d)
  PROVE  LET e == Q!ChainTransmit(d)
         IN  /\ ChainOK(e, busy)
             /\ \A c : ChainTx(d, c) => Len(c) > 1 /\ ChainTx(e, Tail(c))
             /\ e.tx = d.tx /\ e.rx = d.rx
             /\ e.irq = Append(d.irq, d.txDma)
<1> DEFINE e == Q!ChainTransmit(d)
<1>1. d \in ChainDev
  BY DEF ChainOK
<1>2. /\ d.tx \in TxChain /\ d.irq \in Seq(Dscps) /\ d.txDma \in Dscps /\ d.irqWritten \in Nat
  BY <1>1, ChainFields
<1>3. e.txDma = d.tx[d.txDma].next_idx /\ e.irq = Append(d.irq, d.txDma)
  BY <1>1 DEF Q!ChainTransmit, ChainDev
<1>4. /\ e.tx = d.tx /\ e.unused = d.unused /\ e.txUsing = d.txUsing
      /\ e.irqWritten = d.irqWritten /\ e.rx = d.rx
      /\ e.rxStart = d.rxStart /\ e.rxEnd = d.rxEnd /\ e.rxDma = d.rxDma
  BY <1>1 DEF Q!ChainTransmit, ChainDev
<1>5. e = [d EXCEPT !.txDma = e.txDma, !.irq = e.irq]
  BY <1>1 DEF Q!ChainTransmit, ChainDev
<1> HIDE DEF e
<1>6. e.irq \in Seq(Dscps) /\ Len(e.irq) = Len(d.irq) + 1 /\ e.irq[Len(d.irq) + 1] = d.txDma
      /\ \A l \in 1 .. Len(d.irq) : e.irq[l] = d.irq[l]
  BY <1>2, <1>3, AppendIs
<1>7. ASSUME NEW c, ChainTx(d, c) PROVE Len(c) > 1 /\ ChainTx(e, Tail(c))
  <2> DEFINE c2 == Tail(c)
  <2>1. /\ Links(d.tx, d.txDma, d.txUsing, c) /\ Partition(c, d.unused, d.irq)
        /\ Filled(d.tx, c, d.unused, d.irq) /\ d.irqWritten <= Len(d.irq)
    BY <1>7 DEF ChainTx
  <2>2. PICK n \in Nat : n = Len(c) /\ n > 0
    BY <2>1 DEF Links
  <2>3. c \in Seq(Dscps) /\ c[n] = d.txUsing /\ c[1] = d.txDma
    BY <2>1, <2>2 DEF Links
  <2>4. n > 1
    <3>1. n # 1
      BY <2>3 DEF Q!ChainTxMay
    <3>2. QED
      BY <2>2, <3>1
  <2>5. c2 \in Seq(Dscps) /\ Len(c2) = n - 1 /\ \A l \in 1 .. n - 1 : c2[l] = c[l + 1]
    BY <2>2, <2>3, TailIs
  <2> HIDE DEF c2
  <2>6. Partition(c2, e.unused, e.irq)
    BY <1>3, <1>4, <2>1, <2>2, <2>3, PartitionSend DEF c2
  <2>7. Links(e.tx, e.txDma, e.txUsing, c2)
    <3>1. 1 \in 1 .. n - 1 /\ n - 1 \in 1 .. n - 1 /\ n - 1 + 1 = n /\ 1 + 1 = 2 /\ n - 1 > 0
      BY <2>4
    <3>2. d.tx[c[1]].next_idx = c[1 + 1] /\ c2[1] = c[1 + 1] /\ c2[n - 1] = c[n - 1 + 1]
      BY <2>1, <2>2, <2>5, <3>1 DEF Links
    <3>3. \A l \in 1 .. (n - 1) - 1 : e.tx[c2[l]].next_idx = c2[l + 1]
      <4> SUFFICES ASSUME NEW l \in 1 .. (n - 1) - 1 PROVE e.tx[c2[l]].next_idx = c2[l + 1]
        OBVIOUS
      <4>1. l \in 1 .. n - 1 /\ l + 1 \in 1 .. n - 1
        BY <2>4
      <4>2. c2[l] = c[l + 1] /\ c2[l + 1] = c[(l + 1) + 1]
        BY <2>5, <4>1
      <4>3. d.tx[c[l + 1]].next_idx = c[(l + 1) + 1]
        BY <2>1, <2>2, <4>1 DEF Links
      <4>4. QED
        BY <1>4, <4>2, <4>3
    <3>4. c2[1] = e.txDma /\ c2[n - 1] = e.txUsing
      BY <1>3, <1>4, <2>3, <3>1, <3>2
    <3>5. QED
      BY <1>2, <1>4, <2>5, <3>1, <3>3, <3>4 DEF Links
  <2>8. \A l \in 1 .. Len(c2) : e.tx[c2[l]].skb # NBufs <=> l < Len(c2)
    <3> SUFFICES ASSUME NEW l \in 1 .. n - 1 PROVE e.tx[c2[l]].skb # NBufs <=> l < n - 1
      BY <2>5
    <3>1. l + 1 \in 1 .. n /\ (l < n - 1 <=> l + 1 < n)
      BY <2>4
    <3>2. d.tx[c[l + 1]].skb # NBufs <=> l + 1 < n
      BY <2>1, <2>2, <3>1 DEF Filled
    <3>3. QED
      BY <1>4, <2>5, <3>1, <3>2
  <2>9. \A l \in 1 .. Len(e.irq) : e.tx[e.irq[l]].skb # NBufs
    <3> SUFFICES ASSUME NEW l \in 1 .. Len(d.irq) + 1 PROVE e.tx[e.irq[l]].skb # NBufs
      BY <1>6
    <3>1. CASE l = Len(d.irq) + 1
      <4>1. 1 \in 1 .. n /\ 1 < n
        BY <2>4
      <4>2. d.tx[c[1]].skb # NBufs
        BY <2>1, <2>2, <4>1 DEF Filled
      <4>3. QED
        BY <1>4, <1>6, <2>3, <3>1, <4>2
    <3>2. CASE l # Len(d.irq) + 1
      <4>1. l \in 1 .. Len(d.irq)
        BY <1>2, <3>2
      <4>2. d.tx[d.irq[l]].skb # NBufs
        BY <2>1, <4>1 DEF Filled
      <4>3. QED
        BY <1>4, <1>6, <4>1, <4>2
    <3>3. QED
      BY <3>1, <3>2
  <2>10. \A l \in 1 .. Len(e.unused) : e.tx[e.unused[l]].skb = NBufs
    BY <1>4, <2>1 DEF Filled
  <2>11. e.irqWritten <= Len(e.irq)
    <3>1. Len(d.irq) \in Nat
      BY <1>2
    <3>2. QED
      BY <1>2, <1>4, <1>6, <2>1, <3>1
  <2>12. ChainTx(e, c2)
    BY <2>6, <2>7, <2>8, <2>9, <2>10, <2>11 DEF ChainTx, Filled
  <2>13. QED
    BY <2>2, <2>4, <2>12 DEF c2
<1>8. PICK c0 : ChainTx(d, c0)
  BY DEF ChainOK
<1>9. ChainTx(e, Tail(c0))
  BY <1>7, <1>8
<1>10. e \in ChainDev
  <2>1. e.txDma \in Dscps
    BY <1>2, <1>3 DEF TxChain
  <2>2. QED
    BY <1>1, <1>5, <1>6, <2>1 DEF ChainDev
<1>11. ChainRx(e, busy)
  BY <1>4 DEF ChainOK, ChainRx
<1>12. ChainOK(e, busy)
  <2>1. Tail(c0) \in Seq(Dscps)
    BY <1>9 DEF ChainTx, Links
  <2>2. QED
    BY <1>9, <1>10, <1>11, <2>1 DEF ChainOK
<1>13. QED
  BY <1>3, <1>4, <1>7, <1>12 DEF e

LEMMA IrqWriteOK ==
  ASSUME NEW d, NEW busy \in BOOLEAN, ChainOK(d, busy), Q!IrqLate(d)
  PROVE  LET e == Q!IrqWrite(d)
         IN  /\ ChainOK(e, busy) /\ e.tx = d.tx /\ e.rx = d.rx
             /\ e.irq = d.irq /\ \A c : ChainTx(d, c) => ChainTx(e, c)
<1> DEFINE e == Q!IrqWrite(d)
<1>1. d \in ChainDev /\ d.irqWritten \in Nat /\ Len(d.irq) \in Nat
  <2>1. d \in ChainDev
    BY DEF ChainOK
  <2>2. QED
    BY <2>1, ChainFields, LenIs
<1>2. /\ e.irqWritten = d.irqWritten + 1
      /\ e.tx = d.tx /\ e.unused = d.unused /\ e.txUsing = d.txUsing /\ e.irq = d.irq
      /\ e.txDma = d.txDma /\ e.rx = d.rx
      /\ e.rxStart = d.rxStart /\ e.rxEnd = d.rxEnd /\ e.rxDma = d.rxDma
  BY <1>1 DEF Q!IrqWrite, ChainDev
<1>3. e \in ChainDev
  <2>1. d.irqWritten + 1 \in Nat
    BY <1>1
  <2>2. e = [d EXCEPT !.irqWritten = d.irqWritten + 1]
    BY DEF Q!IrqWrite
  <2> HIDE DEF e
  <2>3. QED
    BY <1>1, <2>1, <2>2 DEF ChainDev
<1>4. e.irqWritten <= Len(e.irq)
  BY <1>1, <1>2 DEF Q!IrqLate
<1> HIDE DEF e
<1>5. \A c : ChainTx(d, c) => ChainTx(e, c)
  BY <1>2, <1>4 DEF ChainTx
<1>6. ChainRx(e, busy)
  BY <1>2 DEF ChainOK, ChainRx
<1>7. QED
  BY <1>2, <1>3, <1>5, <1>6 DEF ChainOK, e

-----------------------------------------------------------------------------
(* The receive ring of the QDMA. *)
LEMMA SpanTake ==
  ASSUME NEW start, NEW end, NEW dma, Span(start, end, dma, FALSE), dma # start
  PROVE  Span(Wrap(start + 1, NRx), end, dma, TRUE)
BY Sizes DEF Span, Off, Wrap

LEMMA SpanHook ==
  ASSUME NEW start, NEW end, NEW dma, Span(start, end, dma, TRUE)
  PROVE  /\ Wrap(end + 1, NRx) # start
         /\ Span(start, Wrap(end + 1, NRx), dma, FALSE)
BY Sizes DEF Span, Off, Wrap

LEMMA SpanArrive ==
  ASSUME NEW start, NEW end, NEW dma, NEW busy \in BOOLEAN, Span(start, end, dma, busy), dma # end
  PROVE  /\ Off(start, dma, NRx) < Off(start, end, NRx)
         /\ Off(start, Wrap(dma + 1, NRx), NRx) = Off(start, dma, NRx) + 1
         /\ Span(start, end, Wrap(dma + 1, NRx), busy)
<1>1. start \in 0 .. NRx - 1 /\ end \in 0 .. NRx - 1 /\ dma \in 0 .. NRx - 1
  BY DEF Span
<1>2. PICK o \in 0 .. NRx - 1 : o = Off(start, dma, NRx)
  BY <1>1, OffIn, Sizes
<1>3. PICK l \in 0 .. NRx - 1 : l = Off(start, end, NRx)
  BY <1>1, OffIn, Sizes
<1>4. o # l
  BY <1>1, <1>2, <1>3, OffApart, Sizes
<1>5. o < l /\ o + 1 <= l /\ o + 1 <= NRx - 1
  BY <1>2, <1>3, <1>4, Sizes DEF Span
<1>6. Off(start, Wrap(dma + 1, NRx), NRx) = o + 1 /\ Wrap(dma + 1, NRx) \in 0 .. NRx - 1
  BY <1>1, <1>2, <1>5, Sizes DEF Off, Wrap
<1>7. QED
  BY <1>1, <1>2, <1>3, <1>5, <1>6 DEF Span

LEMMA SlotsTake ==
  ASSUME NEW rx, NEW start, NEW end, NEW dma, Span(start, end, dma, FALSE),
         Slots(rx, start, end, dma), dma # start, NEW rx2 \in RxChain,
         \A i \in 0 .. NRx - 1 : rx2[i].done = rx[i].done,
         \A i \in 0 .. NRx - 1 : rx2[i].skb = IF i = start THEN NBufs ELSE rx[i].skb
  PROVE  Slots(rx2, Wrap(start + 1, NRx), end, dma)
<1> DEFINE st2 == Wrap(start + 1, NRx)
<1>1. start \in 0 .. NRx - 1 /\ end \in 0 .. NRx - 1 /\ dma \in 0 .. NRx - 1
  BY DEF Span
<1>2. \A i \in 0 .. NRx - 1 :
        /\ Off(start, i, NRx) \in 0 .. NRx - 1
        /\ Off(start, i, NRx) = 0 <=> i = start
        /\ Off(st2, i, NRx) = IF Off(start, i, NRx) >= 1 THEN Off(start, i, NRx) - 1 ELSE NRx - 1
  BY <1>1, Sizes DEF Off, Wrap
<1>3. PICK m \in 0 .. NRx - 1 : m = Off(start, dma, NRx) /\ m >= 1 /\ Off(st2, dma, NRx) = m - 1
  <2> HIDE DEF st2
  <2>1. Off(start, dma, NRx) \in 0 .. NRx - 1 /\ Off(start, dma, NRx) # 0
    BY <1>1, <1>2
  <2>2. Off(start, dma, NRx) >= 1
    BY <2>1, Sizes
  <2>3. Off(st2, dma, NRx) = Off(start, dma, NRx) - 1
    BY <1>1, <1>2, <2>2
  <2>4. QED
    BY <2>1, <2>2, <2>3
<1>4. Off(start, end, NRx) = NRx - 1 /\ Off(st2, end, NRx) = NRx - 2
  <2>1. Off(start, end, NRx) = NRx - 1 /\ NRx - 1 >= 1 /\ (NRx - 1) - 1 = NRx - 2
    BY Sizes DEF Span
  <2> HIDE DEF st2
  <2>2. QED
    BY <1>1, <1>2, <2>1
<1> HIDE DEF st2
<1> SUFFICES ASSUME NEW i \in 0 .. NRx - 1
             PROVE  /\ Off(st2, i, NRx) < NRx - 2 => (rx2[i].done <=> Off(st2, i, NRx) < m - 1)
                    /\ rx2[i].skb # NBufs <=> Off(st2, i, NRx) < NRx - 2
  <2>1. Off(st2, dma, NRx) = m - 1 /\ Off(st2, end, NRx) = NRx - 2
    BY <1>3, <1>4
  <2>2. QED
    BY <2>1 DEF Slots, st2
<1>5. PICK o \in 0 .. NRx - 1 : o = Off(start, i, NRx)
  BY <1>2
<1>6. (o < NRx - 1 => (rx[i].done <=> o < m)) /\ (rx[i].skb # NBufs <=> o < NRx - 1)
  BY <1>3, <1>4, <1>5 DEF Slots
<1>7. CASE i = start
  <2>1. Off(st2, i, NRx) = NRx - 1 /\ rx2[i].skb = NBufs
    BY <1>2, <1>7, Sizes
  <2>2. QED
    BY <2>1, Sizes
<1>8. CASE i # start
  <2>1. Off(st2, i, NRx) = o - 1 /\ rx2[i].skb = rx[i].skb /\ rx2[i].done = rx[i].done /\ o >= 1
    BY <1>2, <1>5, <1>8, Sizes
  <2>2. (o - 1 < NRx - 2 <=> o < NRx - 1) /\ (o - 1 < m - 1 <=> o < m)
    <3>1. NRx \in Nat
      BY Sizes
    <3>2. m \in Int /\ o \in Int
      BY <1>3, <1>5
    <3>3. QED
      BY <3>1, <3>2
  <2>3. QED
    BY <1>6, <2>1, <2>2
<1>9. QED
  BY <1>7, <1>8

LEMMA SlotsHook ==
  ASSUME NEW rx, NEW start, NEW end, NEW dma, Span(start, end, dma, TRUE),
         Slots(rx, start, end, dma), NEW b \in R!Bufs
  PROVE  /\ rx[end].skb = NBufs
         /\ Slots([rx EXCEPT ![end] = [skb |-> b, done |-> FALSE, frame |-> "noise"]],
                  start, Wrap(end + 1, NRx), dma)
<1> DEFINE rx2 == [rx EXCEPT ![end] = [skb |-> b, done |-> FALSE, frame |-> "noise"]]
           end2 == Wrap(end + 1, NRx)
<1>1. start \in 0 .. NRx - 1 /\ end \in 0 .. NRx - 1 /\ dma \in 0 .. NRx - 1 /\ rx \in RxChain
  BY DEF Span, Slots
<1>2. rx2 \in RxChain
  BY <1>1, Sizes DEF RxChain, Held, Frames
<1>3. \A i \in 0 .. NRx - 1 :
        /\ i = end => rx2[i].skb = b /\ rx2[i].done = FALSE
        /\ i # end => rx2[i] = rx[i]
  BY <1>1 DEF RxChain
<1>4. PICK m \in 0 .. NRx - 1 : m = Off(start, dma, NRx) /\ m <= NRx - 2
  BY <1>1, OffIn, Sizes DEF Span
<1>5. Off(start, end, NRx) = NRx - 2 /\ Off(start, end2, NRx) = NRx - 1
  <2>1. Span(start, end2, dma, FALSE)
    BY SpanHook
  <2>2. QED
    BY <2>1 DEF Span
<1>6. rx[end].skb = NBufs
  BY <1>1, <1>5, Sizes DEF Slots
<1> HIDE DEF rx2, end2
<1>7. ASSUME NEW i \in 0 .. NRx - 1
      PROVE  /\ Off(start, i, NRx) < NRx - 1 => (rx2[i].done <=> Off(start, i, NRx) < m)
             /\ rx2[i].skb # NBufs <=> Off(start, i, NRx) < NRx - 1
  <2>1. PICK o \in 0 .. NRx - 1 : o = Off(start, i, NRx)
    BY <1>1, OffIn, Sizes
  <2>2. (o < NRx - 2 => (rx[i].done <=> o < m)) /\ (rx[i].skb # NBufs <=> o < NRx - 2)
    BY <1>4, <1>5, <2>1 DEF Slots
  <2>3. CASE i = end
    <3>1. o = NRx - 2 /\ ~(o < m) /\ o < NRx - 1
      BY <1>4, <1>5, <2>1, <2>3, Sizes
    <3>2. rx2[i].skb # NBufs /\ ~rx2[i].done
      BY <1>3, <2>3, Sizes
    <3>3. QED
      BY <2>1, <3>1, <3>2
  <2>4. CASE i # end
    <3>1. o # NRx - 2
      BY <1>1, <1>5, <2>1, <2>4, OffApart, Sizes
    <3>2. o < NRx - 1 <=> o < NRx - 2
      BY <3>1, Sizes
    <3>3. QED
      BY <1>3, <2>1, <2>2, <2>4, <3>2
  <2>5. QED
    BY <2>3, <2>4
<1>8. Slots(rx2, start, end2, dma)
  BY <1>2, <1>4, <1>5, <1>7 DEF Slots
<1>9. QED
  BY <1>6, <1>8 DEF rx2, end2

LEMMA SlotsArrive ==
  ASSUME NEW rx, NEW start, NEW end, NEW dma, NEW busy \in BOOLEAN, Span(start, end, dma, busy),
         Slots(rx, start, end, dma), dma # end, NEW rx2 \in RxChain,
         \A i \in 0 .. NRx - 1 : rx2[i].done <=> i = dma \/ rx[i].done,
         \A i \in 0 .. NRx - 1 : rx2[i].skb = rx[i].skb
  PROVE  Slots(rx2, start, end, Wrap(dma + 1, NRx))
<1>1. start \in 0 .. NRx - 1 /\ end \in 0 .. NRx - 1 /\ dma \in 0 .. NRx - 1
  BY DEF Span
<1>2. PICK m \in 0 .. NRx - 1 : m = Off(start, dma, NRx)
  BY <1>1, OffIn, Sizes
<1>3. Off(start, Wrap(dma + 1, NRx), NRx) = m + 1
  BY <1>2, SpanArrive
<1>4. PICK l \in 0 .. NRx - 1 : l = Off(start, end, NRx)
  BY <1>1, OffIn, Sizes
<1> SUFFICES ASSUME NEW i \in 0 .. NRx - 1
             PROVE  /\ Off(start, i, NRx) < l => (rx2[i].done <=> Off(start, i, NRx) < m + 1)
                    /\ rx2[i].skb # NBufs <=> Off(start, i, NRx) < l
  BY <1>3, <1>4 DEF Slots
<1>5. PICK o \in 0 .. NRx - 1 : o = Off(start, i, NRx)
  BY <1>1, OffIn, Sizes
<1>6. (o < l => (rx[i].done <=> o < m)) /\ (rx[i].skb # NBufs <=> o < l)
  BY <1>2, <1>4, <1>5 DEF Slots
<1>7. i = dma <=> o = m
  BY <1>1, <1>2, <1>5, OffApart, Sizes
<1>8. o < m + 1 <=> o < m \/ o = m
  OBVIOUS
<1>9. QED
  BY <1>5, <1>6, <1>7, <1>8

LEMMA AfterIs ==
  ASSUME NEW i \in 0 .. NRx - 1
  PROVE  Q!After(i) = Wrap(i + 1, NRx) /\ Q!After(i) \in 0 .. NRx - 1
<1>1. i + 1 \in 0 .. 2 * NRx - 1 /\ NRx \in Nat \ {0}
  BY Sizes
<1>2. QED
  BY <1>1, WrapMod DEF Q!After

LEMMA ChainTakeOK ==
  ASSUME NEW d, ChainOK(d, FALSE), Q!ChainRxReady(d)
  PROVE  LET e == Q!ChainTake(d)
             r == d.rxStart
         IN  /\ ChainOK(e, TRUE)
             /\ \A c : ChainTx(d, c) => ChainTx(e, c)
             /\ r \in 0 .. NRx - 1 /\ d.rx[r].skb \in R!Bufs
             /\ e.tx = d.tx /\ e.irq = d.irq /\ d.rx \in RxChain
             /\ \A i \in 0 .. NRx - 1 : e.rx[i].skb = IF i = r THEN NBufs ELSE d.rx[i].skb
<1> DEFINE e == Q!ChainTake(d)
           r == d.rxStart
<1>1. d \in ChainDev
  BY DEF ChainOK
<1>2. /\ d.rx \in RxChain /\ r \in 0 .. NRx - 1 /\ d.rxEnd \in 0 .. NRx - 1
      /\ d.rxDma \in 0 .. NRx - 1
  BY <1>1, ChainFields
<1>3. e.rx = [d.rx EXCEPT ![r].skb = NBufs]
  BY <1>1, Sizes DEF Q!ChainTake, ChainDev
<1>4. e.rxStart = Wrap(r + 1, NRx)
  BY <1>1, <1>2, AfterIs DEF Q!ChainTake, ChainDev
<1>5. /\ e.tx = d.tx /\ e.unused = d.unused /\ e.txUsing = d.txUsing /\ e.txDma = d.txDma
      /\ e.irq = d.irq /\ e.irqWritten = d.irqWritten /\ e.rxEnd = d.rxEnd /\ e.rxDma = d.rxDma
  BY <1>1 DEF Q!ChainTake, ChainDev
<1>6. e = [d EXCEPT !.rx = e.rx, !.rxStart = e.rxStart]
  BY <1>1 DEF Q!ChainTake, ChainDev
<1> HIDE DEF e
<1>7. Span(r, d.rxEnd, d.rxDma, FALSE) /\ Slots(d.rx, r, d.rxEnd, d.rxDma)
  BY DEF ChainOK, ChainRx
<1>8. d.rxDma # r /\ d.rx[r].skb # NBufs
  <2>1. Off(r, r, NRx) = 0
    BY <1>2, OffSelf, Sizes
  <2>2. Off(r, d.rxEnd, NRx) = NRx - 1 /\ 0 < NRx - 1
    BY <1>7, Sizes DEF Span
  <2>3. d.rx[r].done
    BY DEF Q!ChainRxReady
  <2>4. 0 < Off(r, d.rxDma, NRx) /\ d.rx[r].skb # NBufs
    BY <1>2, <1>7, <2>1, <2>2, <2>3 DEF Slots
  <2>5. QED
    BY <2>1, <2>4
<1>9. e.rx \in RxChain /\ \A i \in 0 .. NRx - 1 :
         e.rx[i].done = d.rx[i].done /\ e.rx[i].skb = IF i = r THEN NBufs ELSE d.rx[i].skb
  <2>1. NBufs \in Held
    BY Sizes DEF Held
  <2>2. PICK rx \in RxChain : rx = d.rx
    BY <1>2
  <2> DEFINE f == [rx EXCEPT ![r].skb = NBufs]
  <2>3. f \in RxChain
    BY <1>2, <2>1 DEF RxChain
  <2>4. \A i \in 0 .. NRx - 1 : f[i].done = rx[i].done
    BY <1>2 DEF RxChain
  <2>5. \A i \in 0 .. NRx - 1 : f[i].skb = IF i = r THEN NBufs ELSE rx[i].skb
    BY <1>2 DEF RxChain
  <2>6. e.rx = f
    BY <1>3, <2>2
  <2> HIDE DEF f
  <2>7. QED
    BY <2>2, <2>3, <2>4, <2>5, <2>6
<1> HIDE DEF r
<1>10. Span(Wrap(r + 1, NRx), d.rxEnd, d.rxDma, TRUE)
  BY <1>7, <1>8, SpanTake
<1>11. Slots(e.rx, Wrap(r + 1, NRx), d.rxEnd, d.rxDma)
  BY <1>7, <1>8, <1>9, SlotsTake, ZenonT(60)
<1>12. ChainRx(e, TRUE)
  BY <1>4, <1>5, <1>10, <1>11 DEF ChainRx
<1>13. \A c : ChainTx(d, c) => ChainTx(e, c)
  BY <1>5 DEF ChainTx
<1>14. e \in ChainDev
  <2>1. e.rxStart \in 0 .. NRx - 1
    BY <1>4, <1>10 DEF Span
  <2>2. QED
    BY <1>1, <1>6, <1>9, <2>1 DEF ChainDev
<1>15. ChainOK(e, TRUE)
  BY <1>12, <1>13, <1>14 DEF ChainOK
<1>16. d.rx[r].skb \in R!Bufs
  <2>1. d.rx[r].skb \in Held
    BY <1>2 DEF RxChain
  <2>2. QED
    BY <1>8, <2>1, Sizes DEF Held
<1>17. QED
  BY <1>2, <1>5, <1>9, <1>13, <1>15, <1>16 DEF e, r

LEMMA ChainHookOK ==
  ASSUME NEW d, ChainOK(d, TRUE), NEW b \in R!Bufs
  PROVE  LET e == Q!qdma_bm_hook_receive_buffer(d, b)
             r == d.rxEnd
         IN  /\ ChainOK(e, FALSE)
             /\ \A c : ChainTx(d, c) => ChainTx(e, c)
             /\ r \in 0 .. NRx - 1 /\ d.rx[r].skb = NBufs
             /\ e.tx = d.tx /\ e.irq = d.irq /\ d.rx \in RxChain
             /\ e.rx = [d.rx EXCEPT ![r] = [skb |-> b, done |-> FALSE, frame |-> "noise"]]
<1> DEFINE e == Q!qdma_bm_hook_receive_buffer(d, b)
           r == d.rxEnd
<1>1. d \in ChainDev
  BY DEF ChainOK
<1>2. /\ d.rx \in RxChain /\ r \in 0 .. NRx - 1 /\ d.rxStart \in 0 .. NRx - 1
      /\ d.rxDma \in 0 .. NRx - 1
  BY <1>1, ChainFields
<1>3. Span(d.rxStart, r, d.rxDma, TRUE) /\ Slots(d.rx, d.rxStart, r, d.rxDma)
  BY DEF ChainOK, ChainRx
<1>4. Q!After(r) = Wrap(r + 1, NRx)
  BY <1>2, AfterIs
<1>5. Wrap(r + 1, NRx) # d.rxStart /\ Span(d.rxStart, Wrap(r + 1, NRx), d.rxDma, FALSE)
  BY <1>3, SpanHook
<1>6. e = [d EXCEPT !.rx[r] = [skb |-> b, done |-> FALSE, frame |-> "noise"], !.rxEnd = Q!After(r)]
  BY <1>4, <1>5 DEF Q!qdma_bm_hook_receive_buffer
<1>7. /\ e.rx = [d.rx EXCEPT ![r] = [skb |-> b, done |-> FALSE, frame |-> "noise"]]
      /\ e.rxEnd = Wrap(r + 1, NRx)
  BY <1>1, <1>4, <1>6 DEF ChainDev
<1>8. /\ e.tx = d.tx /\ e.unused = d.unused /\ e.txUsing = d.txUsing /\ e.txDma = d.txDma
      /\ e.irq = d.irq /\ e.irqWritten = d.irqWritten /\ e.rxStart = d.rxStart
      /\ e.rxDma = d.rxDma
  BY <1>1, <1>6 DEF ChainDev
<1>9. e = [d EXCEPT !.rx = e.rx, !.rxEnd = e.rxEnd]
  BY <1>1, <1>6 DEF ChainDev
<1> HIDE DEF e, r
<1>10. d.rx[r].skb = NBufs /\ Slots(e.rx, d.rxStart, Wrap(r + 1, NRx), d.rxDma)
  <2>1. /\ d.rx[r].skb = NBufs
        /\ Slots([d.rx EXCEPT ![r] = [skb |-> b, done |-> FALSE, frame |-> "noise"]],
                 d.rxStart, Wrap(r + 1, NRx), d.rxDma)
    BY <1>3, SlotsHook, Zenon
  <2>2. QED
    BY <1>7, <2>1, Zenon
<1>11. ChainRx(e, FALSE)
  BY <1>5, <1>7, <1>8, <1>10 DEF ChainRx
<1>12. \A c : ChainTx(d, c) => ChainTx(e, c)
  BY <1>8 DEF ChainTx
<1>13. e \in ChainDev
  <2>1. e.rx \in RxChain /\ e.rxEnd \in 0 .. NRx - 1
    BY <1>5, <1>7, <1>10 DEF Span, Slots
  <2>2. QED
    BY <1>1, <1>9, <2>1 DEF ChainDev
<1>14. ChainOK(e, FALSE)
  BY <1>11, <1>12, <1>13 DEF ChainOK
<1>15. QED
  BY <1>2, <1>7, <1>8, <1>10, <1>12, <1>14 DEF e, r

LEMMA ChainArriveOK ==
  ASSUME NEW d, NEW busy \in BOOLEAN, ChainOK(d, busy), NEW kind \in Kinds
  PROVE  LET e == Q!ChainArrive(d, kind)
         IN  /\ ChainOK(e, busy)
             /\ \A c : ChainTx(d, c) => ChainTx(e, c)
             /\ e.tx = d.tx /\ e.irq = d.irq
             /\ \A i \in 0 .. NRx - 1 : e.rx[i].skb = d.rx[i].skb
<1> DEFINE e == Q!ChainArrive(d, kind)
           x == d.rxDma
<1>1. d \in ChainDev
  BY DEF ChainOK
<1>2. /\ d.rx \in RxChain /\ x \in 0 .. NRx - 1
  BY <1>1, ChainFields
<1>3. CASE ~Q!ChainRxMay(d)
  BY <1>3 DEF Q!ChainArrive
<1>4. CASE Q!ChainRxMay(d)
  <2>1. /\ e.rx = [d.rx EXCEPT ![x].done = TRUE, ![x].frame = kind]
        /\ e.rxDma = Wrap(x + 1, NRx)
    BY <1>1, <1>2, <1>4, AfterIs DEF Q!ChainArrive, ChainDev
  <2>2. /\ e.tx = d.tx /\ e.unused = d.unused /\ e.txUsing = d.txUsing /\ e.txDma = d.txDma
        /\ e.irq = d.irq /\ e.irqWritten = d.irqWritten /\ e.rxStart = d.rxStart
        /\ e.rxEnd = d.rxEnd
    BY <1>1, <1>4 DEF Q!ChainArrive, ChainDev
  <2>3. e = [d EXCEPT !.rx = e.rx, !.rxDma = e.rxDma]
    <3> DEFINE f == [d.rx EXCEPT ![x].done = TRUE, ![x].frame = kind]
               y == Q!After(x)
    <3>1. e = [d EXCEPT !.rx = f, !.rxDma = y]
      BY <1>4, ZenonT(60) DEF Q!ChainArrive
    <3>2. e.rx = f /\ e.rxDma = y
      BY <1>2, <2>1, AfterIs
    <3> HIDE DEF e, f, y
    <3>3. QED
      BY <3>1, <3>2
  <2> HIDE DEF e
  <2>4. /\ Span(d.rxStart, d.rxEnd, x, busy) /\ Slots(d.rx, d.rxStart, d.rxEnd, x)
        /\ x # d.rxEnd
    BY <1>4 DEF ChainOK, ChainRx, Q!ChainRxMay
  <2>5. PICK rx \in RxChain : rx = d.rx
    BY <1>2
  <2> DEFINE f == [rx EXCEPT ![x].done = TRUE, ![x].frame = kind]
  <2> HIDE DEF x
  <2>6. f \in RxChain
    BY <1>2 DEF RxChain, Frames
  <2>7. \A i \in 0 .. NRx - 1 : f[i].done <=> i = x \/ rx[i].done
    BY <1>2 DEF RxChain
  <2>8. \A i \in 0 .. NRx - 1 : f[i].skb = rx[i].skb
    BY <1>2 DEF RxChain
  <2>9. e.rx = f
    BY <2>1, <2>5
  <2> HIDE DEF f
  <2>10. Span(d.rxStart, d.rxEnd, Wrap(x + 1, NRx), busy)
    BY <2>4, SpanArrive
  <2>11. Slots(f, d.rxStart, d.rxEnd, Wrap(x + 1, NRx))
    BY <2>4, <2>5, <2>6, <2>7, <2>8, SlotsArrive
  <2>12. ChainRx(e, busy)
    BY <2>1, <2>2, <2>9, <2>10, <2>11 DEF ChainRx
  <2>13. \A c : ChainTx(d, c) => ChainTx(e, c)
    BY <2>2 DEF ChainTx
  <2>14. e \in ChainDev
    <3>1. e.rxDma \in 0 .. NRx - 1
      BY <2>1, <2>10 DEF Span
    <3>2. QED
      BY <1>1, <2>3, <2>6, <2>9, <3>1 DEF ChainDev
  <2>15. ChainOK(e, busy)
    BY <2>12, <2>13, <2>14 DEF ChainOK
  <2>16. QED
    BY <2>2, <2>5, <2>8, <2>9, <2>13, <2>15 DEF e
<1>5. QED
  BY <1>3, <1>4

LEMMA ChainInitOK ==
  /\ ChainOK(Q!ChainInit, FALSE) /\ ChainTx(Q!ChainInit, <<0>>)
  /\ Q!ChainInit.irq = <<>>
  /\ \A i \in 0 .. NTx - 1 : Q!ChainInit.tx[i].skb = NBufs
  /\ \A i \in 0 .. NRx - 1 : Q!ChainInit.rx[i].skb = IF i = NRx - 2 THEN NBufs ELSE Wrap(i + 1, NRx)
<1> DEFINE d == Q!ChainInit
           c == <<0>>
<1>0. 0 \in Dscps /\ Dscps = 0 .. NTx - 1 /\ NBufs \in Held
  BY Sizes DEF Dscps, Held
<1>1. /\ d.tx = [i \in Dscps |-> [skb |-> NBufs, next_idx |-> 0]]
      /\ d.unused = [i \in 1 .. NTx - 1 |-> i] /\ d.txUsing = 0 /\ d.txDma = 0
      /\ d.irq = <<>> /\ d.irqWritten = 0
  BY Sizes DEF Q!ChainInit, Dscps
<1>2. /\ d.rx = [i \in 0 .. NRx - 1 |-> [skb |-> IF i = NRx - 2 THEN NBufs ELSE Q!After(i),
                                        done |-> FALSE, frame |-> "noise"]]
      /\ d.rxStart = NRx - 1 /\ d.rxEnd = NRx - 2 /\ d.rxDma = NRx - 1
  BY Sizes DEF Q!ChainInit
<1>3. d = [tx |-> d.tx, unused |-> d.unused, txUsing |-> 0, txDma |-> 0, irq |-> <<>>,
           irqWritten |-> 0, rx |-> d.rx, rxStart |-> NRx - 1, rxEnd |-> NRx - 2, rxDma |-> NRx - 1]
  BY DEF Q!ChainInit
<1> HIDE DEF d
<1>4. d.tx \in TxChain /\ \A i \in Dscps : d.tx[i].skb = NBufs
  BY <1>0, <1>1 DEF TxChain
<1>5. d.unused \in Seq(Dscps) /\ Len(d.unused) = NTx - 1 /\ \A k \in 1 .. NTx - 1 : d.unused[k] = k
  <2>1. NTx - 1 \in Nat /\ \A k \in 1 .. NTx - 1 : k \in Dscps
    BY Sizes DEF Dscps
  <2>2. QED
    BY <1>1, <2>1
<1>6. \A i \in 0 .. NRx - 1 : Q!After(i) = Wrap(i + 1, NRx) /\ Q!After(i) \in 0 .. NRx - 1
  BY AfterIs
<1>7. /\ d.rx \in RxChain
      /\ \A i \in 0 .. NRx - 1 : /\ ~d.rx[i].done
                                 /\ d.rx[i].skb = IF i = NRx - 2 THEN NBufs ELSE Wrap(i + 1, NRx)
  <2>1. \A i \in 0 .. NRx - 1 : Q!After(i) \in Held
    BY <1>6, Sizes DEF Held
  <2>2. "noise" \in Frames
    BY DEF Frames
  <2>3. d.rx \in RxChain
    BY <1>0, <1>2, <2>1, <2>2 DEF RxChain
  <2>4. QED
    BY <1>2, <1>6, <2>3
<1>8. <<>> \in Seq(Dscps) /\ Len(<<>>) = 0
  OBVIOUS
<1>9. d \in ChainDev
  <2>1. NRx - 1 \in 0 .. NRx - 1 /\ NRx - 2 \in 0 .. NRx - 1
    BY Sizes
  <2>2. d.tx \in TxChain /\ d.unused \in Seq(Dscps) /\ d.rx \in RxChain /\ 0 \in Dscps
        /\ <<>> \in Seq(Dscps)
    BY <1>0, <1>4, <1>5, <1>7, <1>8
  <2>3. [tx |-> d.tx, unused |-> d.unused, txUsing |-> 0, txDma |-> 0, irq |-> <<>>,
         irqWritten |-> 0, rx |-> d.rx, rxStart |-> NRx - 1, rxEnd |-> NRx - 2, rxDma |-> NRx - 1]
        \in ChainDev
    BY <2>1, <2>2, Zenon DEF ChainDev
  <2>4. QED
    BY <1>3, <2>3, Zenon
<1>10. c \in Seq(Dscps) /\ Len(c) = 1 /\ c[1] = 0
  BY <1>0
<1> HIDE DEF c
<1>11. Links(d.tx, d.txDma, d.txUsing, c)
  BY <1>1, <1>4, <1>10 DEF Links
<1>12. Partition(c, d.unused, d.irq)
  <2>1. Once(c) /\ Disjoint(c, d.unused)
    BY <1>5, <1>10, Sizes DEF Once, Disjoint
  <2>2. Once(d.unused)
    BY <1>5 DEF Once
  <2>3. Once(d.irq) /\ Disjoint(c, d.irq) /\ Disjoint(d.unused, d.irq)
    <3>1. \A k \in 1 .. Len(d.irq) : FALSE
      BY <1>1, <1>8
    <3>2. QED
      BY <3>1 DEF Once, Disjoint
  <2>4. ASSUME NEW i \in Dscps PROVE In(i, c) \/ In(i, d.unused)
    <3>1. CASE i = 0
      BY <1>10, <3>1 DEF In
    <3>2. CASE i # 0
      <4>1. i \in 1 .. NTx - 1
        BY <1>0, <3>2, Sizes
      <4>2. QED
        BY <1>5, <4>1 DEF In
    <3>3. QED
      BY <3>1, <3>2
  <2>5. QED
    BY <1>1, <1>5, <1>8, <1>10, <2>1, <2>2, <2>3, <2>4 DEF Partition
<1>13. Filled(d.tx, c, d.unused, d.irq)
  <2>1. \A k \in 1 .. NTx - 1 : k \in Dscps
    BY <1>0, Sizes
  <2>2. \A k \in 1 .. Len(c) : d.tx[c[k]].skb # NBufs <=> k < Len(c)
    BY <1>0, <1>4, <1>10
  <2>3. \A k \in 1 .. Len(d.irq) : FALSE
    BY <1>1, <1>8
  <2>4. QED
    BY <1>4, <1>5, <2>1, <2>2, <2>3 DEF Filled
<1>14. ChainTx(d, c)
  <2>1. d.irqWritten <= Len(d.irq)
    BY <1>1, <1>8
  <2>2. QED
    BY <1>11, <1>12, <1>13, <2>1 DEF ChainTx
<1>15. ChainRx(d, FALSE)
  <2>1. Span(NRx - 1, NRx - 2, NRx - 1, FALSE)
    BY Sizes DEF Span, Off
  <2>2. Off(NRx - 1, NRx - 2, NRx) = NRx - 1 /\ Off(NRx - 1, NRx - 1, NRx) = 0
    BY Sizes DEF Off
  <2>3. \A i \in 0 .. NRx - 1 : /\ ~(Off(NRx - 1, i, NRx) < 0)
                                /\ Off(NRx - 1, i, NRx) < NRx - 1 <=> i # NRx - 2
                                /\ Wrap(i + 1, NRx) # NBufs
    BY Sizes DEF Off, Wrap
  <2>4. Slots(d.rx, NRx - 1, NRx - 2, NRx - 1)
    BY <1>7, <2>2, <2>3 DEF Slots
  <2>5. QED
    BY <1>2, <2>1, <2>4 DEF ChainRx
<1>16. ChainOK(d, FALSE)
  BY <1>9, <1>10, <1>14, <1>15 DEF ChainOK
<1>17. QED
  BY <1>0, <1>1, <1>4, <1>7, <1>14, <1>16 DEF c, d

-----------------------------------------------------------------------------
(* alloc_skb when nothing interrupts it finds a buffer that is not used. *)
LEMMA SameCount == \A S : R!Cardinality(S) = Cardinality(S)
BY DEF R!Cardinality, Cardinality

LEMMA FoundIs ==
  ASSUME NEW p \in R!Pools, R!CanAlloc(p, 1)
  PROVE  /\ R!Found(p) \in R!Bufs /\ R!Found(p) \notin p.used
         /\ R!Alloc(p) \in R!Pools /\ R!Alloc(p).used = p.used \cup {R!Found(p)}
<1> DEFINE free == R!Bufs \ p.used
           T == {R!Ahead(p, b) : b \in free}
           Less == OpToRel(<, Nat)
<1>1. p.used \subseteq R!Bufs /\ p.cur \in R!Bufs
  BY DEF R!Pools
<1>2. free # {}
  <2>1. Cardinality(free) >= 1
    BY SameCount DEF R!CanAlloc
  <2>2. Cardinality({}) = 0
    BY FS_EmptySet
  <2>3. QED
    BY <2>1, <2>2
<1>3. \A b \in R!Bufs : R!Ahead(p, b) \in Nat
  BY <1>1, Sizes DEF R!Ahead
<1>4. T \in SUBSET Nat /\ T # {}
  BY <1>2, <1>3
<1>5. IsWellFoundedOn(Less, Nat)
  BY NatLessThanWellFounded
<1>6. \A x, y \in Nat : <<y, x>> \in Less <=> y < x
  BY DEF OpToRel
<1> HIDE DEF Less, T
<1>7. PICK n \in T : \A y \in T : ~(<<y, n>> \in Less)
  BY <1>4, <1>5, WFMin
<1>8. PICK b \in free : R!Ahead(p, b) = n
  BY <1>7 DEF T
<1>9. \A c \in free : R!Ahead(p, b) <= R!Ahead(p, c)
  <2> SUFFICES ASSUME NEW c \in free PROVE R!Ahead(p, b) <= R!Ahead(p, c)
    OBVIOUS
  <2>1. R!Ahead(p, c) \in T /\ R!Ahead(p, c) \in Nat /\ n \in Nat
    BY <1>3, <1>4, <1>7 DEF T
  <2>2. ~(R!Ahead(p, c) < n)
    BY <1>6, <1>7, <2>1, Zenon
  <2>3. QED
    BY <1>8, <2>1, <2>2
<1>10. R!Found(p) \in free
  BY <1>8, <1>9 DEF R!Found
<1>11. R!NextBuf(R!Found(p)) \in R!Bufs
  <2>1. PICK f \in 0 .. NBufs - 1 : f = R!Found(p)
    BY <1>10, Sizes
  <2>2. f + 1 \in 0 .. 2 * NBufs - 1 /\ NBufs \in Nat \ {0}
    BY Sizes
  <2>3. (f + 1) % NBufs \in 0 .. NBufs - 1
    BY <2>2, WrapMod
  <2>4. QED
    BY <2>1, <2>3, Sizes DEF R!NextBuf
<1>12. QED
  BY <1>1, <1>10, <1>11 DEF R!Alloc, R!Pools

LEMMA TwoFree ==
  ASSUME NEW p \in R!Pools, R!CanAlloc(p, 2)
  PROVE  R!CanAlloc(p, 1) /\ R!CanAlloc(R!Alloc(p), 1)
<1> DEFINE free == R!Bufs \ p.used
           b == R!Found(p)
<1>1. IsFiniteSet(R!Bufs)
  <2>1. 0 \in Int /\ NBufs - 1 \in Int
    BY Sizes
  <2>2. QED
    BY <2>1, Sizes, FS_Interval
<1>2. IsFiniteSet(free) /\ Cardinality(free) \in Nat
  <2>1. free \subseteq R!Bufs
    OBVIOUS
  <2>2. IsFiniteSet(free)
    BY <1>1, <2>1, FS_Subset
  <2>3. QED
    BY <2>2, FS_CardinalityType
<1>3. Cardinality(free) >= 2
  BY SameCount DEF R!CanAlloc
<1>4. R!CanAlloc(p, 1)
  BY <1>2, <1>3, SameCount DEF R!CanAlloc
<1>5. b \in free /\ R!Alloc(p).used = p.used \cup {b}
  BY <1>4, FoundIs
<1>6. Cardinality(free \ {b}) = Cardinality(free) - 1
  BY <1>2, <1>5, FS_RemoveElement
<1>7. R!Bufs \ R!Alloc(p).used = free \ {b}
  BY <1>5
<1>8. QED
  BY <1>2, <1>3, <1>4, <1>6, <1>7, SameCount DEF R!CanAlloc

-----------------------------------------------------------------------------
(* The inductive invariant is kept. *)
LEMMA MacIs == ASSUME TypeOK PROVE (~IsQdma => mac \in R!RingMacs) /\ mac \in Macs
BY LoaderNetAssumption DEF TypeOK, IsQdma

LEMMA BusyType == Busy \in BOOLEAN
BY DEF Busy

LEMMA InitOK == ASSUME Init PROVE IInv
<1>0. mac \in Macs /\ (~IsQdma => mac \in R!RingMacs)
  BY LoaderNetAssumption DEF Init, IsQdma
<1>1. job = NoJob /\ out = <<>> /\ handler = <<>> /\ held = <<>> /\ ~Busy /\ Len(held) = 0
  BY DEF Init, Busy
<1>2. pool \in R!Pools
  <2>1. CASE IsQdma
    <3>1. pool = [used |-> 0 .. NRx - 2, cur |-> (NRx - 1) % NBufs]
      BY <2>1 DEF Init, Q!ChainPool
    <3>2. NRx - 1 \in 0 .. 2 * NBufs - 1 /\ NBufs \in Nat \ {0}
      BY Sizes
    <3>3. (NRx - 1) % NBufs \in 0 .. NBufs - 1
      BY <3>2, WrapMod
    <3>4. 0 .. NRx - 2 \subseteq 0 .. NBufs - 1
      BY Sizes
    <3>5. QED
      BY <3>1, <3>3, <3>4, Sizes DEF R!Pools
  <2>2. CASE ~IsQdma
    <3>1. pool = [used |-> 0 .. NRx - 1, cur |-> NRx % NBufs]
      BY <2>2, Sizes DEF Init, R!RingPool
    <3>2. NRx \in 0 .. 2 * NBufs - 1 /\ NBufs \in Nat \ {0}
      BY Sizes
    <3>3. NRx % NBufs \in 0 .. NBufs - 1
      BY <3>2, WrapMod
    <3>4. 0 .. NRx - 1 \subseteq 0 .. NBufs - 1
      BY Sizes
    <3>5. QED
      BY <3>1, <3>3, <3>4, Sizes DEF R!Pools
  <2>3. QED
    BY <2>1, <2>2
<1>3. DevOK
  <2>1. CASE IsQdma
    <3>1. dev = Q!ChainInit /\ Busy = FALSE
      BY <1>1, <2>1, BusyType DEF Init
    <3>2. QED
      BY <2>1, <3>1, ChainInitOK DEF DevOK
  <2>2. CASE ~IsQdma
    <3>1. dev = R!RingInit(mac) /\ Busy = FALSE
      BY <1>1, <2>2, BusyType DEF Init
    <3>2. QED
      BY <1>0, <2>2, <3>1, RingInitOK DEF DevOK
  <2>3. QED
    BY <2>1, <2>2
<1>4. TypeOK
  <2>1. /\ known \in BOOLEAN /\ ie \in BOOLEAN /\ imr \in BOOLEAN /\ isr \in BOOLEAN
        /\ budget \in 0 .. MaxPkts /\ cand \in R!Bufs /\ pc \in MainLabels
        /\ frames \in 0 .. MaxFrames /\ sends \in 0 .. MaxSends
    <3>1. /\ known = FALSE /\ ie = TRUE /\ imr = TRUE /\ isr = FALSE /\ budget = 0 /\ cand = 0
          /\ pc = "idle" /\ frames = 0 /\ sends = 0
      BY DEF Init
    <3>2. known \in BOOLEAN /\ ie \in BOOLEAN /\ imr \in BOOLEAN /\ isr \in BOOLEAN
      BY <3>1
    <3>3. 0 \in 0 .. MaxPkts /\ 0 \in R!Bufs /\ 0 \in 0 .. MaxFrames /\ 0 \in 0 .. MaxSends
      BY Sizes
    <3>4. QED
      BY <3>1, <3>2, <3>3, Zenon DEF MainLabels
  <2>2. job.skb \in R!Bufs \cup {R!NoBuf} /\ job.new \in R!Bufs \cup {R!NoBuf}
    BY <1>1 DEF NoJob
  <2>3. handler \in Seq(HandlerLabels) /\ out \in Seq(R!Bufs) /\ Len(out) <= 2
        /\ held \in Seq(R!Bufs) /\ Len(held) <= 2
    BY <1>1
  <2>4. QED
    BY <1>0, <1>2, <2>1, <2>2, <2>3 DEF TypeOK
<1>5. HandlerControl
  BY <1>1 DEF HandlerControl, Innermost
<1>6. MainControl
  BY <1>1 DEF MainControl, Init
<1>7. QED
  BY <1>3, <1>4, <1>5, <1>6 DEF IInv

LEMMA DevSame == ASSUME DevOK, UNCHANGED <<mac, dev, job>> PROVE DevOK'
BY DEF DevOK, IsQdma, Busy, NoJob

LEMMA HandlerSame ==
  ASSUME HandlerControl, UNCHANGED <<handler, imr, job, out>> PROVE HandlerControl'
BY DEF HandlerControl, Innermost, Busy, NoJob

LEMMA MainSame == ASSUME MainControl, UNCHANGED <<pc, held>> PROVE MainControl'
BY DEF MainControl

LEMMA ReclaimOK ==
  ASSUME TypeOK, DevOK, Reclaim, UNCHANGED <<mac, job>>
  PROVE  DevOK' /\ pool' \in R!Pools
<1>1. pool' \in R!Pools
  BY DEF Reclaim, TypeOK, R!Pools
<1>2. Busy' = Busy /\ IsQdma' = IsQdma /\ mac' = mac
  BY DEF Busy, IsQdma, NoJob
<1>3. CASE IsQdma
  <2>1. dev' = Q!ChainReclaim(dev) /\ ChainOK(dev, Busy)
    BY <1>3 DEF Reclaim, DevOK
  <2>2. ChainOK(Q!ChainReclaim(dev), Busy)
    BY <2>1, BusyType, ChainReclaimOK
  <2>3. QED
    BY <1>1, <1>2, <1>3, <2>1, <2>2 DEF DevOK
<1>4. CASE ~IsQdma
  <2>1. dev' = R!macTxRingProc(mac, dev) /\ RingOK(mac, dev, Busy) /\ mac \in R!RingMacs
    BY <1>4, MacIs DEF Reclaim, DevOK
  <2>2. RingOK(mac, R!macTxRingProc(mac, dev), Busy)
    BY <2>1, BusyType, RingReclaimOK
  <2>3. QED
    BY <1>1, <1>2, <1>4, <2>1, <2>2 DEF DevOK
<1>5. QED
  BY <1>3, <1>4

LEMMA PostOK ==
  ASSUME TypeOK, DevOK, NEW b \in R!Bufs, NEW done, Post(b, done), UNCHANGED <<mac, job>>
  PROVE  DevOK' /\ pool' \in R!Pools
<1>1. pool' \in R!Pools
  BY DEF Post, TypeOK, R!Pools
<1>2. Busy' = Busy /\ IsQdma' = IsQdma /\ mac' = mac
  BY DEF Busy, IsQdma, NoJob
<1>3. CASE Blocked
  BY <1>1, <1>3, DevSame DEF Post
<1>4. CASE ~Blocked /\ IsQdma
  <2>1. dev' = Q!ChainPost(dev, b) /\ ChainOK(dev, Busy) /\ ~Q!ChainBlocked(dev)
    BY <1>4 DEF Post, DevOK, Blocked
  <2>2. ChainOK(Q!ChainPost(dev, b), Busy)
    BY <2>1, BusyType, ChainPostOK
  <2>3. QED
    BY <1>1, <1>2, <1>4, <2>1, <2>2 DEF DevOK
<1>5. CASE ~Blocked /\ ~IsQdma
  <2>1. /\ dev' = R!RingPost(mac, dev, b) /\ RingOK(mac, dev, Busy) /\ mac \in R!RingMacs
        /\ ~R!TxBlocked(mac, dev)
    BY <1>5, MacIs DEF Post, DevOK, Blocked
  <2>2. RingOK(mac, R!RingPost(mac, dev, b), Busy)
    BY <2>1, BusyType, RingPostOK
  <2>3. QED
    BY <1>1, <1>2, <1>5, <2>1, <2>2 DEF DevOK
<1>6. QED
  BY <1>3, <1>4, <1>5

LEMMA FrontIs ==
  ASSUME NEW S, NEW s \in Seq(S), Len(s) > 0
  PROVE  /\ Front(s) \in Seq(S) /\ Len(Front(s)) = Len(s) - 1
         /\ \A k \in 1 .. Len(s) - 1 : Front(s)[k] = s[k]
         /\ Last(s) = s[Len(s)] /\ Last(s) \in S
<1>0. PICK n \in Nat : n = Len(s) /\ n > 0
  OBVIOUS
<1>1. Front(s) = SubSeq(s, 1, n - 1)
  BY <1>0 DEF Front
<1>2. 1 \in 1 .. n + 1 /\ n - 1 \in 0 .. n /\ 1 <= (n - 1) + 1
  BY <1>0
<1>3. /\ (n - 1) + 1 - 1 = n - 1 /\ \A k \in 1 .. n - 1 : k + 1 - 1 = k
      /\ n \in 1 .. n
  BY <1>0
<1>4. /\ Front(s) \in Seq(S) /\ Len(Front(s)) = (n - 1) + 1 - 1
      /\ \A k \in 1 .. (n - 1) + 1 - 1 : Front(s)[k] = s[k + 1 - 1]
  BY <1>0, <1>1, <1>2, SubIs
<1>5. s[n] \in S
  BY <1>0, <1>3
<1>6. QED
  BY <1>0, <1>3, <1>4, <1>5 DEF Last

(* The main program. *)
LEMMA MainOK ==
  ASSUME IInv, Main
  PROVE  IInv'
<1>0. TypeOK /\ DevOK /\ HandlerControl /\ MainControl
  BY DEF IInv
<1>1. /\ held \in Seq(R!Bufs) /\ Len(held) \in Nat /\ Len(held) <= 2 /\ cand \in R!Bufs
      /\ pool \in R!Pools
  BY <1>0 DEF TypeOK
<1>2. CASE Start
  <2>1. TypeOK'
    <3>1. sends' \in 0 .. MaxSends
      BY <1>0, <1>2, Sizes DEF Start, TypeOK
    <3>2. QED
      BY <1>0, <1>2, <3>1 DEF Start, TypeOK, Goto, MainLabels
  <2>2. DevOK' /\ HandlerControl'
    BY <1>0, <1>2, DevSame, HandlerSame DEF Start
  <2>3. MainControl'
    BY <1>0, <1>2 DEF Start, At, Goto, MainControl
  <2>4. QED
    BY <2>1, <2>2, <2>3 DEF IInv
<1>3. CASE Pick
  <2>1. TypeOK'
    BY <1>0, <1>3 DEF Pick, TypeOK, Goto, MainLabels, R!Pools
  <2>2. DevOK' /\ HandlerControl'
    BY <1>0, <1>3, DevSame, HandlerSame DEF Pick
  <2>3. MainControl'
    BY <1>0, <1>3 DEF Pick, At, Goto, MainControl
  <2>4. QED
    BY <2>1, <2>2, <2>3 DEF IInv
<1>4. CASE Advance
  <2>1. pool' \in R!Pools
    <3>1. pool.cur \in 0 .. NBufs - 1
      BY <1>1, Sizes DEF R!Pools
    <3>2. pool.cur + 1 \in 0 .. 2 * NBufs - 1 /\ NBufs \in Nat \ {0}
      BY <3>1, Sizes
    <3>3. R!NextBuf(pool.cur) \in R!Bufs
      BY <3>2, WrapMod, Sizes DEF R!NextBuf
    <3>4. QED
      BY <1>1, <1>4, <3>3 DEF Advance, R!Pools
  <2>2. TypeOK'
    BY <1>0, <1>4, <2>1 DEF Advance, TypeOK, Goto, MainLabels
  <2>3. DevOK' /\ HandlerControl'
    BY <1>0, <1>4, DevSame, HandlerSame DEF Advance
  <2>4. MainControl'
    BY <1>0, <1>4 DEF Advance, At, Goto, MainControl
  <2>5. QED
    BY <2>2, <2>3, <2>4 DEF IInv
<1>5. CASE Test
  <2>1. TypeOK'
    BY <1>0, <1>5 DEF Test, TypeOK, Goto, MainLabels
  <2>2. DevOK' /\ HandlerControl'
    BY <1>0, <1>5, DevSame, HandlerSame DEF Test
  <2>3. MainControl'
    BY <1>0, <1>5 DEF Test, At, Goto, MainControl
  <2>4. QED
    BY <2>1, <2>2, <2>3 DEF IInv
<1>6. CASE Claim
  <2>1. pool' \in R!Pools
    BY <1>1, <1>6 DEF Claim, R!Pools
  <2>2. Len(held) <= 1
    BY <1>0, <1>6 DEF Claim, At, MainControl
  <2>3. held' \in Seq(R!Bufs) /\ Len(held') = Len(held) + 1
    BY <1>1, <1>6, AppendIs DEF Claim
  <2>4. held = <<>> => Len(held) = 0
    OBVIOUS
  <2>5. Len(held') <= 2
    BY <1>1, <2>2, <2>3
  <2>6. TypeOK'
    BY <1>0, <1>6, <2>1, <2>3, <2>5 DEF Claim, TypeOK, Goto, MainLabels
  <2>7. DevOK' /\ HandlerControl'
    BY <1>0, <1>6, DevSame, HandlerSame DEF Claim
  <2>8. MainControl'
    <3>1. pc' = IF held = <<>> THEN "lookup" ELSE "cli"
      BY <1>6 DEF Claim, Goto
    <3>2. Len(held') > 0 /\ (held = <<>> => Len(held') = 1)
      BY <1>1, <2>3, <2>4
    <3>3. QED
      BY <3>1, <3>2 DEF MainControl
  <2>9. QED
    BY <2>6, <2>7, <2>8 DEF IInv
<1>7. CASE Lookup
  <2>1. TypeOK'
    BY <1>0, <1>7 DEF Lookup, TypeOK, Goto, MainLabels
  <2>2. DevOK' /\ HandlerControl'
    BY <1>0, <1>7, DevSame, HandlerSame DEF Lookup
  <2>3. MainControl'
    <3>1. Len(held') = 1 /\ pc' \in {"cli", "pick"}
      BY <1>0, <1>7 DEF Lookup, At, Goto, MainControl
    <3>2. QED
      BY <3>1 DEF MainControl
  <2>4. QED
    BY <2>1, <2>2, <2>3 DEF IInv
<1>8. CASE Cli
  <2>1. DevOK' /\ pool' \in R!Pools /\ HandlerControl'
    BY <1>0, <1>8, ReclaimOK, HandlerSame DEF Cli
  <2>2. TypeOK'
    BY <1>0, <1>8, <2>1 DEF Cli, TypeOK, Goto, MainLabels
  <2>3. MainControl'
    BY <1>0, <1>8 DEF Cli, At, Goto, MainControl
  <2>4. QED
    BY <2>1, <2>2, <2>3 DEF IInv
<1>9. CASE PostSti
  <2>1. Len(held) > 0
    BY <1>0, <1>9 DEF PostSti, At, MainControl
  <2>2. Last(held) \in R!Bufs
    BY <1>1, <2>1 DEF Last
  <2>3. DevOK' /\ pool' \in R!Pools /\ HandlerControl'
    BY <1>0, <1>9, <2>2, PostOK, HandlerSame DEF PostSti
  <2>4. held' \in Seq(R!Bufs) /\ Len(held') = Len(held) - 1
    BY <1>1, <1>9, <2>1, FrontIs DEF PostSti
  <2>5. TypeOK'
    BY <1>0, <1>1, <1>9, <2>1, <2>3, <2>4 DEF PostSti, TypeOK, Goto, MainLabels
  <2>6. MainControl'
    <3>1. pc' = IF Len(held) = 1 THEN "idle" ELSE "drop"
      BY <1>9 DEF PostSti, Goto
    <3>2. (Len(held) = 1 => Len(held') = 0) /\ (Len(held) # 1 => Len(held') = 1)
      BY <1>1, <2>1, <2>4
    <3>3. QED
      BY <3>1, <3>2 DEF MainControl
  <2>7. QED
    BY <2>3, <2>5, <2>6 DEF IInv
<1>10. CASE Drop
  <2>1. pool' \in R!Pools /\ held' = <<>>
    BY <1>1, <1>10 DEF Drop, R!Free, R!Pools
  <2>2. TypeOK'
    BY <1>0, <1>10, <2>1 DEF Drop, TypeOK, Goto, MainLabels
  <2>3. DevOK' /\ HandlerControl'
    BY <1>0, <1>10, DevSame, HandlerSame DEF Drop
  <2>4. MainControl'
    BY <1>10, <2>1 DEF Drop, Goto, MainControl
  <2>5. QED
    BY <2>2, <2>3, <2>4 DEF IInv
<1>11. QED
  BY <1>2, <1>3, <1>4, <1>5, <1>6, <1>7, <1>8, <1>9, <1>10 DEF Main

(* The interrupt handler. *)
LEMMA ThenIs ==
  ASSUME TypeOK, HandlerControl, InHandler, NEW l \in HandlerLabels, Then(l)
  PROVE  /\ handler' \in Seq(HandlerLabels) /\ Innermost = handler[1] /\ Innermost' = l
         /\ \A n \in DOMAIN handler' : n > 1 => handler'[n] = "tail"
<1>1. handler \in Seq(HandlerLabels) /\ handler # <<>> /\ Len(handler) > 0
  BY DEF TypeOK, InHandler
<1>2. Tail(handler) \in Seq(HandlerLabels) /\ Len(Tail(handler)) = Len(handler) - 1
      /\ \A n \in 1 .. Len(handler) - 1 : Tail(handler)[n] = handler[n + 1]
  BY <1>1, TailIs
<1>3. handler' = <<l>> \o Tail(handler)
  BY DEF Then
<1>4. <<l>> \in Seq(HandlerLabels) /\ Len(<<l>>) = 1 /\ <<l>>[1] = l
  OBVIOUS
<1>5. /\ handler' \in Seq(HandlerLabels) /\ Len(handler') = Len(handler)
      /\ handler'[1] = l /\ \A n \in 1 .. Len(handler) - 1 : handler'[n + 1] = handler[n + 1]
  <2>1. /\ <<l>> \o Tail(handler) \in Seq(HandlerLabels)
        /\ Len(<<l>> \o Tail(handler)) = 1 + (Len(handler) - 1)
        /\ (<<l>> \o Tail(handler))[1] = l
        /\ \A n \in 1 .. Len(handler) - 1 : (<<l>> \o Tail(handler))[n + 1] = Tail(handler)[n]
    BY <1>1, <1>2, <1>4
  <2>2. QED
    BY <1>1, <1>2, <1>3, <2>1
<1>6. handler' # <<>>
  <2>1. Len(handler') > 0
    BY <1>1, <1>5
  <2>2. QED
    BY <2>1
<1>7. ASSUME NEW n \in DOMAIN handler', n > 1 PROVE handler'[n] = "tail"
  <2>1. n \in 1 .. Len(handler) /\ n - 1 \in 1 .. Len(handler) - 1 /\ (n - 1) + 1 = n
    BY <1>1, <1>5, <1>7
  <2>2. handler'[n] = handler[n] /\ n \in DOMAIN handler
    BY <1>1, <1>5, <2>1
  <2>3. QED
    BY <1>7, <2>2 DEF HandlerControl
<1>8. QED
  BY <1>1, <1>5, <1>6, <1>7 DEF Innermost

LEMMA InterruptOK ==
  ASSUME IInv, mac_interrupt
  PROVE  IInv'
<1>0. TypeOK /\ DevOK /\ HandlerControl /\ MainControl
  BY DEF IInv
<1>1. handler \in Seq(HandlerLabels) /\ imr /\ handler' = <<"ring">> \o handler
  BY <1>0 DEF TypeOK, mac_interrupt
<1>2. Innermost \in {"none", "tail"}
  BY <1>0, <1>1 DEF HandlerControl
<1>3. \A n \in 1 .. Len(handler) : handler[n] = "tail"
  <2> SUFFICES ASSUME NEW n \in 1 .. Len(handler) PROVE handler[n] = "tail"
    OBVIOUS
  <2>1. handler # <<>> /\ n \in DOMAIN handler /\ (n = 1 \/ n > 1)
    BY <1>1
  <2>2. handler[1] = "tail"
    <3>1. handler[1] \in HandlerLabels
      BY <1>1, <2>1
    <3>2. QED
      BY <1>2, <2>1, <3>1 DEF Innermost, HandlerLabels
  <2>3. QED
    BY <1>0, <2>1, <2>2 DEF HandlerControl
<1>4. /\ handler' \in Seq(HandlerLabels) /\ Len(handler') = 1 + Len(handler) /\ handler'[1] = "ring"
      /\ \A n \in 1 .. Len(handler) : handler'[n + 1] = handler[n]
  <2>1. <<"ring">> \in Seq(HandlerLabels) /\ Len(<<"ring">>) = 1 /\ <<"ring">>[1] = "ring"
    BY DEF HandlerLabels
  <2>2. QED
    BY <1>1, <2>1
<1>5. Innermost' = "ring"
  <2>1. handler' # <<>>
    BY <1>1, <1>4
  <2>2. QED
    BY <1>4, <2>1 DEF Innermost
<1>6. \A n \in DOMAIN handler' : n > 1 => handler'[n] = "tail"
  <2> SUFFICES ASSUME NEW n \in DOMAIN handler', n > 1 PROVE handler'[n] = "tail"
    OBVIOUS
  <2>1. n - 1 \in 1 .. Len(handler) /\ (n - 1) + 1 = n
    BY <1>1, <1>4
  <2>2. QED
    BY <1>3, <1>4, <2>1
<1>7. HandlerControl'
  <2>1. ~imr' /\ job' = job /\ out' = out
    BY DEF mac_interrupt
  <2>2. ~Busy /\ out = <<>>
    BY <1>0, <1>2 DEF HandlerControl
  <2>3. ~Busy' /\ out' = <<>>
    BY <2>1, <2>2 DEF Busy, NoJob
  <2>4. QED
    BY <1>5, <1>6, <2>1, <2>3 DEF HandlerControl
<1>8. TypeOK'
  <2>1. budget' \in 0 .. MaxPkts
    BY Sizes DEF mac_interrupt
  <2>2. QED
    BY <1>0, <1>4, <2>1 DEF TypeOK, mac_interrupt, main
<1>9. DevOK' /\ MainControl'
  BY <1>0, DevSame, MainSame DEF mac_interrupt, main
<1>10. QED
  BY <1>7, <1>8, <1>9 DEF IInv

(* Where the handler is, and what it then has. *)
LEMMA OnIs ==
  ASSUME IInv, NEW l, On(l)
  PROVE  /\ InHandler /\ Innermost = l
         /\ Busy <=> l \in {"rcv", "reclaim", "post", "repost"}
         /\ l \notin {"none", "tail"} => ~imr
         /\ out # <<>> <=> l \in {"reclaim", "post"}
<1>1. HandlerControl /\ handler \in Seq(HandlerLabels)
  BY DEF IInv, TypeOK
<1>2. InHandler /\ Innermost = l
  BY <1>1 DEF On, InHandler, Innermost
<1>3. QED
  BY <1>1, <1>2, BusyType DEF HandlerControl

LEMMA TakeOK ==
  ASSUME IInv, Take
  PROVE  IInv'
<1>0. TypeOK /\ DevOK /\ HandlerControl /\ MainControl
  BY DEF IInv
<1>1. /\ InHandler /\ Innermost = "ring" /\ Busy = FALSE /\ ~imr /\ out = <<>>
  <2>1. On("ring")
    BY DEF Take
  <2>2. QED
    BY <2>1, OnIs, BusyType
<1>2. /\ handler' \in Seq(HandlerLabels) /\ Innermost' = "rcv"
      /\ \A n \in DOMAIN handler' : n > 1 => handler'[n] = "tail"
  BY <1>0, <1>1, ThenIs DEF Take, HandlerLabels
<1>3. /\ R!Found(pool) \in R!Bufs /\ pool' \in R!Pools
  BY <1>0, FoundIs DEF Take, TypeOK
<1>4. /\ job' = [skb |-> Frame.skb, new |-> R!Found(pool), kind |-> Frame.frame]
      /\ job'.skb = Frame.skb /\ job'.new = R!Found(pool)
  BY DEF Take
<1>5. Frame.skb \in R!Bufs /\ (Frame.skb \in R!Bufs => DevOK')
  <2>0. Frame.skb \in R!Bufs => Busy' = TRUE
    BY <1>4, Sizes DEF Busy, NoJob
  <2>1. CASE IsQdma
    <3>1. /\ dev' = Q!ChainTake(dev) /\ ChainOK(dev, FALSE) /\ Q!ChainRxReady(dev)
          /\ Frame = dev.rx[dev.rxStart] /\ IsQdma'
      BY <1>0, <1>1, <2>1 DEF Take, DevOK, RxReady, Frame, Q!ChainFrame, IsQdma
    <3>2. ChainOK(Q!ChainTake(dev), TRUE) /\ dev.rx[dev.rxStart].skb \in R!Bufs
      BY <3>1, ChainTakeOK
    <3>3. QED
      BY <2>0, <3>1, <3>2 DEF DevOK
  <2>2. CASE ~IsQdma
    <3>1. /\ dev' = R!RingTake(dev) /\ RingOK(mac, dev, FALSE) /\ R!RingRxReady(dev)
          /\ Frame = dev.rx[dev.rxCurrentDescp] /\ ~IsQdma' /\ mac' = mac /\ mac \in R!RingMacs
      BY <1>0, <1>1, <2>2, MacIs DEF Take, DevOK, RxReady, Frame, R!RingFrame, IsQdma
    <3>2. RingOK(mac, R!RingTake(dev), TRUE) /\ dev.rx[dev.rxCurrentDescp].skb \in R!Bufs
      BY <3>1, RingTakeOK
    <3>3. QED
      BY <2>0, <3>1, <3>2 DEF DevOK
  <2>3. QED
    BY <2>1, <2>2
<1>6. TypeOK'
  <2>1. budget' \in 0 .. MaxPkts
    <3>1. budget \in 0 .. MaxPkts
      BY <1>0 DEF TypeOK
    <3>2. CASE IsQdma
      <4>1. budget > 0 /\ budget' = budget - 1
        BY <3>2 DEF Take, RxReady
      <4>2. QED
        BY <3>1, <4>1, Sizes
    <3>3. CASE ~IsQdma
      BY <3>1, <3>3 DEF Take
    <3>4. QED
      BY <3>2, <3>3
  <2>2. job'.skb \in R!Bufs /\ job'.new \in R!Bufs
    BY <1>3, <1>4, <1>5
  <2>3. QED
    BY <1>0, <1>2, <1>3, <2>1, <2>2 DEF TypeOK, Take, main
<1>7. HandlerControl'
  <2>1. Busy'
    BY <1>4, <1>5, Sizes DEF Busy, NoJob
  <2>2. imr' = imr /\ out' = <<>>
    BY <1>1 DEF Take
  <2>3. QED
    BY <1>1, <1>2, <1>3, <1>4, <1>5, <2>1, <2>2 DEF HandlerControl
<1>8. MainControl'
  BY <1>0, MainSame DEF Take, main
<1>9. QED
  BY <1>5, <1>6, <1>7, <1>8 DEF IInv

LEMMA DiscardOK ==
  ASSUME IInv, Discard
  PROVE  IInv'
<1>0. TypeOK /\ DevOK /\ HandlerControl /\ MainControl
  BY DEF IInv
<1>1. Busy = FALSE
  <2>1. On("ring")
    BY DEF Discard
  <2>2. QED
    BY <2>1, OnIs, BusyType
<1>2. /\ dev' = R!RingRepost(mac, dev, Frame.skb) /\ RingOK(mac, dev, FALSE)
      /\ R!RingRxReady(dev) /\ Frame = dev.rx[dev.rxCurrentDescp]
      /\ ~IsQdma /\ ~IsQdma' /\ mac' = mac /\ mac \in R!RingMacs /\ Busy' = FALSE
  BY <1>0, <1>1, MacIs DEF Discard, DevOK, RxReady, Frame, R!RingFrame, IsQdma, Busy, NoJob
<1>3. Frame.skb \in R!Bufs
  BY <1>2, RingTakeOK
<1>4. RingOK(mac, R!RingRepost(mac, dev, Frame.skb), FALSE)
  BY <1>2, <1>3, RingRepostOK
<1>5. DevOK'
  BY <1>2, <1>4 DEF DevOK
<1>6. TypeOK'
  BY <1>0 DEF TypeOK, Discard, main
<1>7. HandlerControl' /\ MainControl'
  BY <1>0, HandlerSame, MainSame DEF Discard, main
<1>8. QED
  BY <1>5, <1>6, <1>7 DEF IInv

LEMMA AnswersIs ==
  ASSUME TypeOK, NEW n \in {1, 2}, Answers(n)
  PROVE  /\ pool' \in R!Pools /\ out' \in Seq(R!Bufs) /\ Len(out') = n
         /\ out'[1] = R!Found(pool) /\ Then("reclaim") /\ R!CanAlloc(pool, 1)
         /\ n = 1 => pool' = R!Alloc(pool) /\ out' = <<R!Found(pool)>>
         /\ n = 2 => /\ pool' = R!Alloc(R!Alloc(pool)) /\ out' = <<R!Found(pool), R!Found(R!Alloc(pool))>>
                     /\ R!CanAlloc(R!Alloc(pool), 1)
<1>1. pool \in R!Pools /\ Then("reclaim")
  BY DEF TypeOK, Answers
<1>2. CASE n = 1
  <2>1. /\ R!CanAlloc(pool, 1) /\ pool' = R!Alloc(pool) /\ out' = <<R!Found(pool)>>
    BY <1>2 DEF Answers
  <2>2. R!Found(pool) \in R!Bufs /\ pool' \in R!Pools
    BY <1>1, <2>1, FoundIs
  <2>3. QED
    BY <1>1, <1>2, <2>1, <2>2
<1>3. CASE n = 2
  <2>1. /\ R!CanAlloc(pool, 2) /\ pool' = R!Alloc(R!Alloc(pool))
        /\ out' = <<R!Found(pool), R!Found(R!Alloc(pool))>>
    BY <1>3 DEF Answers
  <2>2. R!CanAlloc(pool, 1) /\ R!CanAlloc(R!Alloc(pool), 1)
    BY <1>1, <2>1, TwoFree
  <2>3. R!Found(pool) \in R!Bufs /\ R!Alloc(pool) \in R!Pools
    BY <1>1, <2>2, FoundIs
  <2>4. R!Found(R!Alloc(pool)) \in R!Bufs /\ pool' \in R!Pools
    BY <2>1, <2>2, <2>3, FoundIs
  <2>5. QED
    BY <1>1, <1>3, <2>1, <2>2, <2>3, <2>4
<1>4. QED
  BY <1>2, <1>3

LEMMA RcvOK ==
  ASSUME IInv, eth_rcv
  PROVE  IInv'
<1>0. TypeOK /\ DevOK /\ HandlerControl /\ MainControl
  BY DEF IInv
<1>1. InHandler /\ Innermost = "rcv" /\ Busy = TRUE /\ ~imr /\ out = <<>>
  <2>1. On("rcv")
    BY DEF eth_rcv
  <2>2. QED
    BY <2>1, OnIs, BusyType
<1>2. UNCHANGED <<mac, dev, ie, imr, isr, budget, job, pc, cand, held, sends, frames>>
  BY DEF eth_rcv, main
<1>3. Busy' = TRUE /\ DevOK' /\ MainControl'
  BY <1>0, <1>1, <1>2, DevSame, MainSame DEF Busy, NoJob
<1> DEFINE Left == /\ pool' \in R!Pools /\ out' \in Seq(R!Bufs) /\ Len(out') <= 2
                   /\ \E l \in {"reclaim", "repost"} : Then(l) /\ (out' # <<>> <=> l = "reclaim")
<1>4. Left /\ known' \in BOOLEAN
  <2>1. ASSUME NEW n \in {1, 2}, Answers(n) PROVE Left
    <3>1. /\ pool' \in R!Pools /\ out' \in Seq(R!Bufs) /\ Len(out') = n /\ Then("reclaim")
      BY <1>0, <2>1, AnswersIs
    <3>2. out' # <<>>
      BY <3>1
    <3>3. QED
      BY <2>1, <3>1, <3>2
  <2>2. CASE job.kind = "arp" /\ Answers(1) /\ known' = TRUE
    <3> HIDE DEF Left
    <3>1. Left
      BY <2>1, <2>2
    <3>2. QED
      BY <2>2, <3>1
  <2>3. CASE job.kind = "tftp" /\ Answers(IF known THEN 1 ELSE 2) /\ UNCHANGED known
    <3> HIDE DEF Left
    <3>1. CASE known
      BY <1>0, <2>1, <2>3, <3>1 DEF TypeOK
    <3>2. CASE ~known
      BY <1>0, <2>1, <2>3, <3>2 DEF TypeOK
    <3>3. QED
      BY <3>1, <3>2
  <2>4. CASE job.kind \notin {"arp", "tftp"} /\ Then("repost") /\ UNCHANGED <<pool, out, known>>
    BY <1>0, <1>1, <2>4 DEF TypeOK
  <2>5. QED
    BY <2>2, <2>3, <2>4 DEF eth_rcv
<1>5. PICK l \in {"reclaim", "repost"} : Then(l) /\ (out' # <<>> <=> l = "reclaim")
  BY <1>4
<1>6. /\ handler' \in Seq(HandlerLabels) /\ Innermost' = l
      /\ \A n \in DOMAIN handler' : n > 1 => handler'[n] = "tail"
  BY <1>0, <1>1, <1>5, ThenIs DEF HandlerLabels
<1>7. TypeOK'
  BY <1>0, <1>2, <1>4, <1>6 DEF TypeOK
<1>8. HandlerControl'
  <2>1. job'.skb \in R!Bufs /\ job'.new \in R!Bufs /\ ~imr'
    BY <1>0, <1>1, <1>2 DEF HandlerControl
  <2>2. QED
    BY <1>3, <1>5, <1>6, <2>1 DEF HandlerControl
<1>9. QED
  BY <1>3, <1>7, <1>8 DEF IInv

LEMMA AnswerCliOK ==
  ASSUME IInv, AnswerCli
  PROVE  IInv'
<1>0. TypeOK /\ DevOK /\ HandlerControl /\ MainControl
  BY DEF IInv
<1>1. InHandler /\ Innermost = "reclaim" /\ Busy = TRUE /\ ~imr /\ out # <<>>
  <2>1. On("reclaim")
    BY DEF AnswerCli
  <2>2. QED
    BY <2>1, OnIs, BusyType
<1>2. /\ UNCHANGED <<mac, known, imr, isr, budget, job, out, pc, cand, held, sends, frames>>
      /\ Reclaim /\ ie' = FALSE /\ Then("post")
  BY DEF AnswerCli, main
<1>3. DevOK' /\ pool' \in R!Pools /\ MainControl' /\ Busy' = Busy
  BY <1>0, <1>2, ReclaimOK, MainSame DEF Busy, NoJob
<1>4. /\ handler' \in Seq(HandlerLabels) /\ Innermost' = "post"
      /\ \A n \in DOMAIN handler' : n > 1 => handler'[n] = "tail"
  BY <1>0, <1>1, <1>2, ThenIs DEF HandlerLabels
<1>5. TypeOK'
  BY <1>0, <1>2, <1>3, <1>4 DEF TypeOK
<1>6. HandlerControl'
  BY <1>0, <1>1, <1>2, <1>3, <1>4 DEF HandlerControl
<1>7. QED
  BY <1>3, <1>5, <1>6 DEF IInv

LEMMA AnswerStiOK ==
  ASSUME IInv, AnswerSti
  PROVE  IInv'
<1>0. TypeOK /\ DevOK /\ HandlerControl /\ MainControl
  BY DEF IInv
<1>1. InHandler /\ Innermost = "post" /\ Busy = TRUE /\ ~imr /\ out # <<>>
  <2>1. On("post")
    BY DEF AnswerSti
  <2>2. QED
    BY <2>1, OnIs, BusyType
<1>2. /\ UNCHANGED <<mac, known, imr, isr, budget, job, pc, cand, held, sends, frames>>
      /\ Post(Last(out), ToSet(Front(out))) /\ out' = <<>> /\ ie' = TRUE /\ Then("repost")
  BY DEF AnswerSti, main
<1>3. Last(out) \in R!Bufs
  <2>1. out \in Seq(R!Bufs) /\ Len(out) > 0
    BY <1>0, <1>1 DEF TypeOK
  <2>2. QED
    BY <2>1, FrontIs
<1>4. DevOK' /\ pool' \in R!Pools /\ MainControl' /\ Busy' = Busy
  BY <1>0, <1>2, <1>3, PostOK, MainSame DEF Busy, NoJob
<1>5. /\ handler' \in Seq(HandlerLabels) /\ Innermost' = "repost"
      /\ \A n \in DOMAIN handler' : n > 1 => handler'[n] = "tail"
  BY <1>0, <1>1, <1>2, ThenIs DEF HandlerLabels
<1>6. TypeOK'
  BY <1>0, <1>2, <1>4, <1>5 DEF TypeOK
<1>7. HandlerControl'
  BY <1>0, <1>1, <1>2, <1>4, <1>5 DEF HandlerControl
<1>8. QED
  BY <1>4, <1>6, <1>7 DEF IInv

LEMMA RepostOK ==
  ASSUME IInv, Repost
  PROVE  IInv'
<1>0. TypeOK /\ DevOK /\ HandlerControl /\ MainControl
  BY DEF IInv
<1>1. InHandler /\ Innermost = "repost" /\ Busy = TRUE /\ ~imr /\ out = <<>>
  <2>1. On("repost")
    BY DEF Repost
  <2>2. QED
    BY <2>1, OnIs, BusyType
<1>2. /\ UNCHANGED <<mac, known, ie, imr, isr, budget, out, pc, cand, held, sends, frames>>
      /\ pool' = R!Free(pool, job.skb) /\ job' = NoJob /\ Then("ring")
  BY DEF Repost, main
<1>3. job.new \in R!Bufs
  BY <1>0, <1>1 DEF HandlerControl
<1>4. Busy' = FALSE /\ NoJob' = NoJob
  BY <1>2 DEF Busy, NoJob
<1>5. DevOK'
  <2>1. CASE IsQdma
    <3>1. /\ dev' = Q!qdma_bm_hook_receive_buffer(dev, job.new) /\ ChainOK(dev, TRUE) /\ IsQdma'
      BY <1>0, <1>1, <2>1 DEF Repost, DevOK, IsQdma
    <3>2. ChainOK(Q!qdma_bm_hook_receive_buffer(dev, job.new), FALSE)
      BY <1>3, <3>1, ChainHookOK
    <3>3. QED
      BY <1>4, <3>1, <3>2 DEF DevOK
  <2>2. CASE ~IsQdma
    <3>1. /\ dev' = R!RingRepost(mac, dev, job.new) /\ RingOK(mac, dev, TRUE) /\ ~IsQdma'
          /\ mac' = mac /\ mac \in R!RingMacs
      BY <1>0, <1>1, <2>2, MacIs DEF Repost, DevOK, IsQdma
    <3>2. RingOK(mac, R!RingRepost(mac, dev, job.new), FALSE)
      BY <1>3, <3>1, RingRepostOK
    <3>3. QED
      BY <1>4, <3>1, <3>2 DEF DevOK
  <2>3. QED
    BY <2>1, <2>2
<1>6. /\ handler' \in Seq(HandlerLabels) /\ Innermost' = "ring"
      /\ \A n \in DOMAIN handler' : n > 1 => handler'[n] = "tail"
  BY <1>0, <1>1, <1>2, ThenIs DEF HandlerLabels
<1>7. TypeOK'
  <2>1. pool' \in R!Pools
    BY <1>0, <1>2 DEF TypeOK, R!Free, R!Pools
  <2>2. job'.skb \in R!Bufs \cup {R!NoBuf} /\ job'.new \in R!Bufs \cup {R!NoBuf}
    BY <1>2 DEF NoJob
  <2>3. QED
    BY <1>0, <1>2, <1>6, <2>1, <2>2 DEF TypeOK
<1>8. HandlerControl'
  BY <1>1, <1>2, <1>4, <1>6 DEF HandlerControl
<1>9. MainControl'
  BY <1>0, <1>2, MainSame
<1>10. QED
  BY <1>5, <1>7, <1>8, <1>9 DEF IInv

LEMMA LoopEndsOK ==
  ASSUME IInv, LoopEnds \/ Unmask
  PROVE  IInv'
<1>0. TypeOK /\ DevOK /\ HandlerControl /\ MainControl
  BY DEF IInv
<1>1. PICK l \in {"ring", "unmask"} : On(l) /\ (l = "ring" <=> LoopEnds)
  BY DEF LoopEnds, Unmask, On
<1>2. InHandler /\ Innermost = l /\ Busy = FALSE /\ ~imr /\ out = <<>>
  BY <1>1, OnIs, BusyType
<1>3. /\ UNCHANGED <<mac, pool, dev, known, ie, isr, budget, job, out, pc, cand, held, sends, frames>>
      /\ imr' \in BOOLEAN
  BY <1>0 DEF LoopEnds, Unmask, main, TypeOK
<1>4. PICK m \in {"unmask", "tail"} : Then(m) /\ (m = "unmask" => imr' = imr)
  BY DEF LoopEnds, Unmask
<1>5. /\ handler' \in Seq(HandlerLabels) /\ Innermost' = m
      /\ \A n \in DOMAIN handler' : n > 1 => handler'[n] = "tail"
  BY <1>0, <1>2, <1>4, ThenIs DEF HandlerLabels
<1>6. DevOK' /\ MainControl'
  BY <1>0, <1>3, DevSame, MainSame
<1>7. TypeOK'
  BY <1>0, <1>3, <1>5 DEF TypeOK
<1>8. HandlerControl'
  <2>1. ~Busy' /\ out' = <<>>
    BY <1>2, <1>3 DEF Busy, NoJob
  <2>2. QED
    BY <1>2, <1>4, <1>5, <2>1 DEF HandlerControl
<1>9. QED
  BY <1>6, <1>7, <1>8 DEF IInv

LEMMA ReturnOK ==
  ASSUME IInv, Return
  PROVE  IInv'
<1>0. TypeOK /\ DevOK /\ HandlerControl /\ MainControl
  BY DEF IInv
<1>1. InHandler /\ Innermost = "tail" /\ Busy = FALSE /\ out = <<>>
  <2>1. On("tail")
    BY DEF Return
  <2>2. QED
    BY <2>1, OnIs, BusyType
<1>2. /\ UNCHANGED <<mac, pool, known, imr, isr, budget, job, out, pc, cand, held, sends, frames>>
      /\ handler' = Tail(handler) /\ ie' = TRUE
  BY DEF Return, main
<1>3. handler \in Seq(HandlerLabels) /\ Len(handler) > 0
  BY <1>0, <1>1 DEF TypeOK, InHandler
<1>4. handler' \in Seq(HandlerLabels) /\ Len(handler') = Len(handler) - 1
      /\ \A n \in 1 .. Len(handler) - 1 : handler'[n] = handler[n + 1]
  BY <1>2, <1>3, TailIs
<1>5. \A n \in DOMAIN handler' : handler'[n] = "tail"
  <2> SUFFICES ASSUME NEW n \in DOMAIN handler' PROVE handler'[n] = "tail"
    OBVIOUS
  <2>1. n \in 1 .. Len(handler) - 1 /\ n + 1 \in DOMAIN handler /\ n + 1 > 1
    BY <1>3, <1>4
  <2>2. QED
    BY <1>0, <1>4, <2>1 DEF HandlerControl
<1>6. Innermost' \in {"none", "tail"}
  <2>1. handler' # <<>> => 1 \in DOMAIN handler'
    BY <1>4
  <2>2. QED
    BY <1>5, <2>1 DEF Innermost
<1>7. DevOK'
  <2>1. Busy' = Busy /\ mac' = mac /\ IsQdma' = IsQdma
    BY <1>2 DEF Busy, NoJob, IsQdma
  <2>2. CASE IsQdma
    BY <1>0, <2>1, <2>2 DEF Return, DevOK
  <2>3. CASE ~IsQdma
    <3>1. dev' = R!RxPollDemand(mac, dev) /\ RingOK(mac, dev, Busy) /\ mac \in R!RingMacs
      BY <1>0, <2>3, MacIs DEF Return, DevOK
    <3>2. RingOK(mac, R!RxPollDemand(mac, dev), Busy)
      BY <3>1, BusyType, RingPollOK
    <3>3. QED
      BY <2>1, <2>3, <3>1, <3>2 DEF DevOK
  <2>4. QED
    BY <2>2, <2>3
<1>8. TypeOK'
  BY <1>0, <1>2, <1>4 DEF TypeOK
<1>9. HandlerControl'
  <2>1. ~Busy' /\ out' = <<>>
    BY <1>1, <1>2 DEF Busy, NoJob
  <2>2. QED
    BY <1>5, <1>6, <2>1 DEF HandlerControl
<1>10. MainControl'
  BY <1>0, <1>2, MainSame
<1>11. QED
  BY <1>7, <1>8, <1>9, <1>10 DEF IInv

LEMMA HardwareOK ==
  ASSUME IInv, Hardware
  PROVE  IInv'
<1>0. TypeOK /\ DevOK /\ HandlerControl /\ MainControl
  BY DEF IInv
<1>1. UNCHANGED <<mac, pool, known, ie, imr, handler, budget, job, out, pc, cand, held, sends>>
  BY DEF Hardware, Transmit, TransmitSleeps, EntryWritten, Arrive, Software, main
<1>2. HandlerControl' /\ MainControl'
  BY <1>0, <1>1, HandlerSame, MainSame
<1>3. isr' \in BOOLEAN /\ frames' \in 0 .. MaxFrames
  <2>1. isr \in BOOLEAN /\ frames \in 0 .. MaxFrames
    BY <1>0 DEF TypeOK
  <2>2. CASE Arrive
    <3>1. isr' \in BOOLEAN
      BY <2>2 DEF Arrive
    <3>2. frames' \in 0 .. MaxFrames
      BY <2>1, <2>2, Sizes DEF Arrive
    <3>3. QED
      BY <3>1, <3>2
  <2>3. CASE Transmit \/ TransmitSleeps \/ EntryWritten
    BY <2>1, <2>3 DEF Transmit, TransmitSleeps, EntryWritten
  <2>4. QED
    BY <2>2, <2>3 DEF Hardware
<1>4. TypeOK'
  BY <1>0, <1>1, <1>3 DEF TypeOK
<1>5. Busy' = Busy /\ mac' = mac /\ IsQdma' = IsQdma
  BY <1>1 DEF Busy, NoJob, IsQdma
<1>6. DevOK'
  <2>1. CASE IsQdma
    <3>1. ChainOK(dev, Busy)
      BY <1>0, <2>1 DEF DevOK
    <3>2. ChainOK(dev', Busy)
      <4>1. CASE Transmit
        BY <2>1, <3>1, <4>1, BusyType, ChainTransmitOK DEF Transmit
      <4>2. CASE EntryWritten
        BY <2>1, <3>1, <4>2, BusyType, IrqWriteOK DEF EntryWritten
      <4>3. CASE Arrive
        <5>1. PICK kind \in Kinds : dev' = Q!ChainArrive(dev, kind)
          BY <2>1, <4>3 DEF Arrive
        <5>2. QED
          BY <3>1, <5>1, BusyType, ChainArriveOK
      <4>4. QED
        BY <2>1, <4>1, <4>2, <4>3 DEF Hardware, TransmitSleeps
    <3>3. QED
      BY <1>5, <2>1, <3>2 DEF DevOK
  <2>2. CASE ~IsQdma
    <3>1. RingOK(mac, dev, Busy) /\ mac \in R!RingMacs
      BY <1>0, <2>2, MacIs DEF DevOK
    <3>2. RingOK(mac, dev', Busy)
      <4>1. CASE Transmit
        BY <2>2, <3>1, <4>1, BusyType, RingTransmitOK DEF Transmit
      <4>2. CASE TransmitSleeps
        BY <2>2, <3>1, <4>2, BusyType, RingSleepOK DEF TransmitSleeps
      <4>3. CASE Arrive
        <5>1. PICK kind \in Kinds : dev' = R!RingArrive(mac, dev, kind)
          BY <2>2, <4>3 DEF Arrive
        <5>2. QED
          BY <3>1, <5>1, BusyType, RingArriveOK
      <4>4. QED
        BY <2>2, <4>1, <4>2, <4>3 DEF Hardware, EntryWritten
    <3>3. QED
      BY <1>5, <2>2, <3>2 DEF DevOK
  <2>3. QED
    BY <2>1, <2>2
<1>7. QED
  BY <1>2, <1>4, <1>6 DEF IInv

LEMMA StepOK ==
  ASSUME IInv, [Next]_vars
  PROVE  IInv'
<1>1. CASE Main
  BY <1>1, MainOK
<1>2. CASE mac_interrupt
  BY <1>2, InterruptOK
<1>3. CASE Handler
  BY <1>3, TakeOK, DiscardOK, RcvOK, AnswerCliOK, AnswerStiOK, RepostOK, LoopEndsOK, ReturnOK
  DEF Handler
<1>4. CASE Hardware
  BY <1>4, HardwareOK
<1>5. CASE UNCHANGED vars
  <2>0. TypeOK /\ DevOK /\ HandlerControl /\ MainControl
    BY DEF IInv
  <2>1. UNCHANGED <<mac, pool, dev, known, ie, imr, isr, handler, budget, job, out, pc, cand, held,
                    sends, frames>>
    BY <1>5 DEF vars, main
  <2>2. TypeOK'
    BY <2>0, <2>1 DEF TypeOK
  <2>3. QED
    BY <2>0, <2>1, <2>2, DevSame, HandlerSame, MainSame DEF IInv
<1>6. QED
  BY <1>1, <1>2, <1>3, <1>4, <1>5 DEF Next

(* IInv holds always. *)
LEMMA Always == Spec => []IInv
<1>1. Init => IInv
  BY InitOK
<1>2. IInv /\ [Next]_vars => IInv'
  BY StepOK
<1>3. QED
  BY <1>1, <1>2, PTL DEF Spec

(* The state keeps its shape, whatever the number of buffers, descriptors   *)
(* and frames: the handler never takes a buffer from an empty descriptor,   *)
(* and the main program never has more than two.                            *)
THEOREM TypeInvariant == Spec => []TypeOK
<1>1. IInv => TypeOK
  BY DEF IInv
<1>2. QED
  BY <1>1, Always, PTL

(* The receive loop of mac_interrupt never runs inside itself: eth_send     *)
(* turns the processor's interrupts on in the middle of it, and what keeps  *)
(* a second activation out is that the MAC's own interrupt stays masked     *)
(* from the handler's first step to its Unmask (eth.c).                     *)
THEOREM NotReenteredAlways == Spec => []NotReentered
<1>1. IInv => NotReentered
  <2> SUFFICES ASSUME IInv PROVE NotReentered
    OBVIOUS
  <2> DEFINE S == {i \in DOMAIN handler : handler[i] # "tail"}
  <2>1. handler \in Seq(HandlerLabels) /\ HandlerControl
    BY DEF IInv, TypeOK
  <2>2. S \subseteq {1}
    <3> SUFFICES ASSUME NEW i \in S PROVE i = 1
      OBVIOUS
    <3>1. i \in Nat /\ i >= 1 /\ ~(i > 1)
      BY <2>1 DEF HandlerControl
    <3>2. QED
      BY <3>1
  <2>3. IsFiniteSet({1}) /\ Cardinality({1}) = 1
    BY FS_Singleton
  <2>4. Cardinality(S) <= 1
    BY <2>2, <2>3, FS_Subset
  <2>5. QED
    BY <2>4 DEF NotReentered
<1>2. QED
  BY <1>1, Always, PTL

-----------------------------------------------------------------------------
(* Counting. *)
LEMMA CountIs ==
  ASSUME NEW a \in Nat, NEW b \in Nat, a <= b, NEW T, NEW f \in [a .. b - 1 -> T],
         \A k, l \in a .. b - 1 : f[k] = f[l] => k = l,
         \A t \in T : \E k \in a .. b - 1 : f[k] = t
  PROVE  IsFiniteSet(T) /\ Cardinality(T) = b - a
<1>1. a \in Int /\ b - 1 \in Int
  OBVIOUS
<1>2. /\ IsFiniteSet(a .. b - 1)
      /\ Cardinality(a .. b - 1) = IF a > b - 1 THEN 0 ELSE (b - 1) - a + 1
  BY <1>1, FS_Interval, Zenon
<1>3. Cardinality(a .. b - 1) = b - a
  BY <1>2
<1>4. f \in Bijection(a .. b - 1, T)
  BY DEF Bijection, Injection, Surjection, IsInjective
<1>5. ExistsBijection(a .. b - 1, T)
  BY <1>4 DEF ExistsBijection
<1>6. QED
  BY <1>2, <1>3, <1>5, FS_Bijection

LEMMA WindowCount ==
  ASSUME NEW n \in Nat \ {0}, NEW u \in 0 .. n - 1, NEW a \in 0 .. n, NEW b \in 0 .. n, a <= b,
         NEW T, \A i : i \in T <=> i \in 0 .. n - 1 /\ a <= Off(u, i, n) /\ Off(u, i, n) < b
  PROVE  Cardinality(T) = b - a
<1> DEFINE f == [k \in a .. b - 1 |-> Wrap(u + k, n)]
<1>1. ASSUME NEW k \in a .. b - 1
      PROVE  Wrap(u + k, n) \in 0 .. n - 1 /\ Off(u, Wrap(u + k, n), n) = k
  BY DEF Wrap, Off
<1>2. f \in [a .. b - 1 -> T]
  <2> SUFFICES ASSUME NEW k \in a .. b - 1 PROVE Wrap(u + k, n) \in T
    OBVIOUS
  <2>1. a <= k /\ k < b
    OBVIOUS
  <2>2. QED
    BY <1>1, <2>1
<1>3. \A k, l \in a .. b - 1 : f[k] = f[l] => k = l
  <2> SUFFICES ASSUME NEW k \in a .. b - 1, NEW l \in a .. b - 1, f[k] = f[l] PROVE k = l
    OBVIOUS
  <2>1. Wrap(u + k, n) = Wrap(u + l, n)
    OBVIOUS
  <2>2. QED
    BY <1>1, <2>1
<1>4. \A t \in T : \E k \in a .. b - 1 : f[k] = t
  <2> SUFFICES ASSUME NEW t \in T PROVE \E k \in a .. b - 1 : f[k] = t
    OBVIOUS
  <2>1. t \in 0 .. n - 1 /\ Off(u, t, n) \in a .. b - 1 /\ Wrap(u + Off(u, t, n), n) = t
    <3>1. t \in 0 .. n - 1 /\ a <= Off(u, t, n) /\ Off(u, t, n) < b
      OBVIOUS
    <3>2. QED
      BY <3>1 DEF Off, Wrap
  <2>2. f[Off(u, t, n)] = t
    BY <2>1
  <2>3. QED
    BY <2>1, <2>2
<1> HIDE DEF f
<1>5. a \in Nat /\ b \in Nat
  OBVIOUS
<1>6. QED
  BY <1>2, <1>3, <1>4, <1>5, CountIs

(* The older MACs: what the hardware owns is what the counters say. *)
LEMMA RingCounts ==
  ASSUME NEW m \in R!RingMacs, NEW d \in RingDev, NEW s \in 0 .. NTx, RingTx(m, d, s)
  PROVE  /\ Cardinality({i \in R!TxSlots : d.tx[i].skb # R!NoBuf}) = d.txUnReleasedBufCnt
         /\ Cardinality(R!RingOwned(d)) = d.txUnReleasedBufCnt - s
<1>1. PICK u \in 0 .. NTx - 1 : u = d.txUnReleasedDescp
  BY RingFields
<1>2. PICK n \in 0 .. NTx : n = d.txUnReleasedBufCnt
  BY RingFields
<1>3. s <= n /\ TxBits(d.tx, u, s, n) /\ NTx \in Nat \ {0} /\ 0 \in 0 .. NTx /\ 0 <= n /\ n - 0 = n
  BY <1>1, <1>2, Sizes DEF RingTx, TxPlace
<1>4. Cardinality({i \in R!TxSlots : d.tx[i].skb # R!NoBuf}) = n
  <2> DEFINE T == {i \in R!TxSlots : d.tx[i].skb # R!NoBuf}
  <2>1. \A i \in 0 .. NTx - 1 : 0 <= Off(u, i, NTx)
    BY Sizes DEF Off
  <2>2. \A i : i \in T <=> i \in 0 .. NTx - 1 /\ 0 <= Off(u, i, NTx) /\ Off(u, i, NTx) < n
    BY <1>3, <2>1, Sizes DEF TxBits
  <2> HIDE DEF T
  <2>3. Cardinality(T) = n - 0
    BY <1>3, <2>2, WindowCount
  <2>4. QED
    BY <1>3, <2>3 DEF T
<1>5. Cardinality(R!RingOwned(d)) = n - s
  <2>1. \A i : i \in R!RingOwned(d) <=> i \in 0 .. NTx - 1 /\ s <= Off(u, i, NTx) /\ Off(u, i, NTx) < n
    BY <1>3, Sizes DEF TxBits, R!RingOwned
  <2>2. PICK T : T = R!RingOwned(d)
    OBVIOUS
  <2>3. \A i : i \in T <=> i \in 0 .. NTx - 1 /\ s <= Off(u, i, NTx) /\ Off(u, i, NTx) < n
    BY <2>1, <2>2
  <2>4. Cardinality(T) = n - s
    BY <1>3, <2>3, WindowCount
  <2>5. QED
    BY <2>2, <2>4
<1>6. QED
  BY <1>2, <1>4, <1>5

LEMMA DoorDistance ==
  ASSUME NEW n \in Nat \ {0}, NEW head \in 0 .. 2 * n - 1, NEW k \in 0 .. n
  PROVE  (Wrap(head + k, 2 * n) + 2 * n - head) % (2 * n) = k
<1> DEFINE x == Wrap(head + k, 2 * n) + 2 * n - head
<1>1. 2 * n \in Nat \ {0} /\ x \in 0 .. 2 * (2 * n) - 1 /\ Wrap(x, 2 * n) = k
  BY DEF Wrap
<1>2. x % (2 * n) = Wrap(x, 2 * n)
  <2> HIDE DEF x
  <2>1. QED
    BY <1>1, WrapMod
<1>3. QED
  BY <1>1, <1>2

LEMMA RingAgrees ==
  ASSUME NEW m \in R!RingMacs, NEW d, NEW busy \in BOOLEAN, RingOK(m, d, busy)
  PROVE  R!RingIndicesAgree(m, d)
<1>1. d \in RingDev
  BY DEF RingOK
<1>2. PICK s \in 0 .. NTx : RingTx(m, d, s)
  BY DEF RingOK
<1>3. PICK q \in 0 .. NRx : RingRx(m, d, busy, q)
  BY DEF RingOK
<1>4. PICK n \in 0 .. NTx : n = d.txUnReleasedBufCnt
  BY <1>1, RingFields
<1>5. /\ Cardinality({i \in R!TxSlots : d.tx[i].skb # R!NoBuf}) = n
      /\ Cardinality(R!RingOwned(d)) = n - s
  BY <1>1, <1>2, <1>4, RingCounts
<1>6. TxPlace(m, d.txUnReleasedDescp, s, n, d.txCurrentDescp, d.txHead, d.txDoor)
  BY <1>2, <1>4 DEF RingTx
<1>7. R!TxAt(d, n) = d.txCurrentDescp
  <2>1. R!TxAt(d, n) = Wrap(d.txUnReleasedDescp + n, NTx)
    BY <1>1, <1>2, SentIs
  <2>2. QED
    BY <1>6, <2>1 DEF TxPlace
<1>8. ASSUME m = "gmac"
      PROVE  (d.txDoor + 2 * NTx - d.txHead) % (2 * NTx) = n - s
  <2>1. PICK head \in 0 .. 2 * NTx - 1 : head = d.txHead
    BY <1>1, RingFields
  <2>2. d.txDoor = Wrap(head + n - s, 2 * NTx) /\ n - s \in 0 .. NTx /\ head + n - s = head + (n - s)
    BY <1>6, <1>8, <2>1, Sizes DEF TxPlace
  <2>3. (Wrap(head + (n - s), 2 * NTx) + 2 * NTx - head) % (2 * NTx) = n - s
    BY <2>2, DoorDistance, Sizes
  <2>4. QED
    BY <2>1, <2>2, <2>3
<1>9. PICK r \in 0 .. NRx - 1 : r = d.rxCurrentDescp
  BY <1>1, RingFields
<1>10. RxPlace(m, r, q, d.rxHead, d.rxDoor) /\ RxBits(d.rx, r, q, busy)
  BY <1>3, <1>9 DEF RingRx
<1>11. Cardinality({i \in R!RxSlots : d.rx[i].own}) = NRx - q
  <2> DEFINE T == {i \in R!RxSlots : d.rx[i].own}
  <2>1. \A i \in 0 .. NRx - 1 : Off(r, i, NRx) < NRx
    BY Sizes DEF Off
  <2>2. \A i : i \in T <=> i \in 0 .. NRx - 1 /\ q <= Off(r, i, NRx) /\ Off(r, i, NRx) < NRx
    BY <1>10, <2>1, Sizes DEF RxBits
  <2> HIDE DEF T
  <2>3. NRx \in 0 .. NRx /\ q <= NRx /\ NRx \in Nat \ {0}
    BY Sizes
  <2>4. Cardinality(T) = NRx - q
    BY <2>2, <2>3, WindowCount
  <2>5. QED
    BY <2>4 DEF T
<1>12. ASSUME m = "gmac"
       PROVE  (d.rxDoor + 2 * NRx - d.rxHead) % (2 * NRx) = NRx - q
  <2>1. PICK head \in 0 .. 2 * NRx - 1 : head = d.rxHead
    BY <1>1, RingFields
  <2>2. /\ d.rxDoor = Wrap(head + NRx - q, 2 * NRx) /\ NRx - q \in 0 .. NRx
        /\ head + NRx - q = head + (NRx - q)
    BY <1>10, <1>12, <2>1, Sizes DEF RxPlace
  <2>3. (Wrap(head + (NRx - q), 2 * NRx) + 2 * NRx - head) % (2 * NRx) = NRx - q
    BY <2>2, DoorDistance, Sizes
  <2>4. QED
    BY <2>1, <2>2, <2>3
<1>13. ASSUME m = "femac", R!RxMay(m, d) PROVE d.rx[R!RxIdx(d)].own
  <2>1. PICK head \in 0 .. 2 * NRx - 1 : head = d.rxHead
    BY <1>1, RingFields
  <2>2. R!RxIdx(d) = Wrap(r + q, NRx) /\ Wrap(r + q, NRx) \in 0 .. NRx - 1 /\ q < NRx
    <3>1. head % NRx = Wrap(head, NRx) /\ head % NRx \in 0 .. NRx - 1
      BY WrapMod, Sizes
    <3>2. Wrap(head, NRx) = Wrap(r + q, NRx) /\ q < NRx
      BY <1>10, <1>13, <2>1 DEF RxPlace
    <3>3. QED
      BY <2>1, <3>1, <3>2 DEF R!RxIdx
  <2>3. Off(r, Wrap(r + q, NRx), NRx) = q
    BY <2>2, Sizes DEF Off, Wrap
  <2>4. QED
    BY <1>10, <2>2, <2>3 DEF RxBits
<1>14. QED
  BY <1>4, <1>5, <1>7, <1>8, <1>11, <1>12, <1>13, SameCount DEF R!RingIndicesAgree

(* The QDMA: every descriptor is in one of the three sequences. *)
Covers(a) == Len(a) = NTx /\ a \in Seq(Dscps) /\ \A i \in Dscps : \E k \in 1 .. NTx : a[k] = i

LEMMA PartitionCount ==
  ASSUME NEW c, NEW unused, NEW irq, Partition(c, unused, irq)
  PROVE  /\ Len(c) + Len(unused) + Len(irq) = NTx
         /\ Covers(c \o unused \o irq)
<1>1. c \in Seq(Dscps) /\ unused \in Seq(Dscps) /\ irq \in Seq(Dscps)
  BY DEF Partition
<1>2. PICK a \in Nat : a = Len(c)
  BY <1>1
<1>3. PICK b \in Nat : b = Len(unused)
  BY <1>1
<1>4. PICK e \in Nat : e = Len(irq)
  BY <1>1
<1> DEFINE cu == c \o unused
           all == cu \o irq
<1>5. /\ cu \in Seq(Dscps) /\ Len(cu) = a + b
      /\ \A k \in 1 .. a : cu[k] = c[k]
      /\ \A k \in 1 .. b : cu[k + a] = unused[k]
  BY <1>1, <1>2, <1>3, CatIs
<1> HIDE DEF cu
<1>6. /\ all \in Seq(Dscps) /\ Len(all) = (a + b) + e
      /\ \A k \in 1 .. a + b : all[k] = cu[k]
      /\ \A k \in 1 .. e : all[k + (a + b)] = irq[k]
  <2>1. \A t, r \in Seq(Dscps) :
          /\ t \o r \in Seq(Dscps) /\ Len(t \o r) = Len(t) + Len(r)
          /\ \A k \in 1 .. Len(t) : (t \o r)[k] = t[k]
          /\ \A k \in 1 .. Len(r) : (t \o r)[k + Len(t)] = r[k]
    BY CatIs
  <2>2. /\ all \in Seq(Dscps) /\ Len(all) = Len(cu) + Len(irq)
        /\ \A k \in 1 .. Len(cu) : all[k] = cu[k]
        /\ \A k \in 1 .. Len(irq) : all[k + Len(cu)] = irq[k]
    BY <1>1, <1>5, <2>1, Zenon
  <2>3. Len(cu) = a + b /\ Len(irq) = e
    BY <1>4, <1>5
  <2> HIDE DEF all
  <2>4. QED
    BY <2>2, <2>3
<1> HIDE DEF all
<1>7. /\ \A k \in 1 .. a : all[k] = c[k]
      /\ \A k \in 1 .. b : all[k + a] = unused[k]
  <2>1. \A k \in 1 .. a : k \in 1 .. a + b
    BY <1>3
  <2>2. \A k \in 1 .. b : k + a \in 1 .. a + b
    BY <1>2
  <2>3. QED
    BY <1>5, <1>6, <2>1, <2>2
<1>8. \A k \in 1 .. (a + b) + e : \/ k \in 1 .. a
                                  \/ k - a \in 1 .. b /\ k = (k - a) + a
                                  \/ k - (a + b) \in 1 .. e /\ k = (k - (a + b)) + (a + b)
  BY <1>2, <1>3, <1>4
<1>9. /\ Once(c) /\ Once(unused) /\ Once(irq)
      /\ Disjoint(c, unused) /\ Disjoint(c, irq) /\ Disjoint(unused, irq)
  BY DEF Partition
<1>10. ASSUME NEW k \in 1 .. (a + b) + e, NEW l \in 1 .. (a + b) + e, all[k] = all[l]
       PROVE  k = l
  <2>1. \/ k \in 1 .. a /\ all[k] = c[k]
        \/ k - a \in 1 .. b /\ all[k] = unused[k - a]
        \/ k - (a + b) \in 1 .. e /\ all[k] = irq[k - (a + b)]
    BY <1>6, <1>7, <1>8
  <2>2. \/ l \in 1 .. a /\ all[l] = c[l]
        \/ l - a \in 1 .. b /\ all[l] = unused[l - a]
        \/ l - (a + b) \in 1 .. e /\ all[l] = irq[l - (a + b)]
    BY <1>6, <1>7, <1>8
  <2>3. CASE k \in 1 .. a /\ all[k] = c[k]
    BY <1>2, <1>3, <1>4, <1>9, <1>10, <2>2, <2>3 DEF Once, Disjoint
  <2>4. CASE k - a \in 1 .. b /\ all[k] = unused[k - a]
    <3>1. ~(l \in 1 .. a /\ all[l] = c[l])
      BY <1>2, <1>3, <1>9, <1>10, <2>4 DEF Disjoint
    <3>2. ~(l - (a + b) \in 1 .. e /\ all[l] = irq[l - (a + b)])
      BY <1>3, <1>4, <1>9, <1>10, <2>4 DEF Disjoint
    <3>3. k - a = l - a
      BY <1>3, <1>9, <1>10, <2>2, <2>4, <3>1, <3>2 DEF Once
    <3>4. QED
      BY <1>2, <3>3
  <2>5. CASE k - (a + b) \in 1 .. e /\ all[k] = irq[k - (a + b)]
    <3>1. ~(l \in 1 .. a /\ all[l] = c[l])
      BY <1>2, <1>4, <1>9, <1>10, <2>5 DEF Disjoint
    <3>2. ~(l - a \in 1 .. b /\ all[l] = unused[l - a])
      BY <1>3, <1>4, <1>9, <1>10, <2>5 DEF Disjoint
    <3>3. k - (a + b) = l - (a + b)
      BY <1>4, <1>9, <1>10, <2>2, <2>5, <3>1, <3>2 DEF Once
    <3>4. QED
      BY <1>2, <1>3, <3>3
  <2>6. QED
    BY <2>1, <2>3, <2>4, <2>5
<1>11. ASSUME NEW i \in Dscps PROVE \E k \in 1 .. (a + b) + e : all[k] = i
  <2>1. In(i, c) \/ In(i, unused) \/ In(i, irq)
    BY DEF Partition
  <2>2. CASE In(i, c)
    <3>1. PICK k \in 1 .. a : c[k] = i
      BY <1>2, <2>2 DEF In
    <3>2. k \in 1 .. (a + b) + e /\ all[k] = i
      BY <1>3, <1>4, <1>7, <3>1
    <3>3. QED
      BY <3>2
  <2>3. CASE In(i, unused)
    <3>1. PICK k \in 1 .. b : unused[k] = i
      BY <1>3, <2>3 DEF In
    <3>2. k + a \in 1 .. (a + b) + e /\ all[k + a] = i
      BY <1>2, <1>4, <1>7, <3>1
    <3>3. QED
      BY <3>2
  <2>4. CASE In(i, irq)
    <3>1. PICK k \in 1 .. e : irq[k] = i
      BY <1>4, <2>4 DEF In
    <3>2. k + (a + b) \in 1 .. (a + b) + e /\ all[k + (a + b)] = i
      BY <1>2, <1>3, <1>6, <3>1
    <3>3. QED
      BY <3>2
  <2>5. QED
    BY <2>1, <2>2, <2>3, <2>4
<1>12. (a + b) + e = NTx
  <2>1. PICK n \in Nat : n = (a + b) + e
    BY <1>2, <1>3, <1>4
  <2>2. all \in [1 .. n -> Dscps]
    BY <1>6, <2>1
  <2>3. /\ \A k, l \in 1 .. n : all[k] = all[l] => k = l
        /\ \A t \in Dscps : \E k \in 1 .. n : all[k] = t
    BY <1>10, <1>11, <2>1
  <2>4. 1 \in Nat /\ n + 1 \in Nat /\ 1 <= n + 1 /\ (n + 1) - 1 = n
    OBVIOUS
  <2>5. Cardinality(Dscps) = (n + 1) - 1
    <3>1. PICK z \in Nat : z = n + 1
      BY <2>4
    <3>2. 1 \in Nat /\ 1 <= z /\ z - 1 = n
      BY <3>1
    <3>3. PICK f \in [1 .. z - 1 -> Dscps] : f = all
      BY <2>2, <3>2
    <3>4. /\ \A k, l \in 1 .. z - 1 : f[k] = f[l] => k = l
          /\ \A t \in Dscps : \E k \in 1 .. z - 1 : f[k] = t
      BY <2>3, <3>2, <3>3
    <3>5. Cardinality(Dscps) = z - 1
      BY <3>2, <3>4, CountIs
    <3>6. QED
      BY <3>1, <3>5
  <2>6. Cardinality(Dscps) = NTx
    <3>1. 0 \in Int /\ NTx - 1 \in Int
      BY Sizes
    <3>2. Cardinality(0 .. NTx - 1) = IF 0 > NTx - 1 THEN 0 ELSE (NTx - 1) - 0 + 1
      BY <3>1, FS_Interval, Zenon
    <3>3. QED
      BY <3>2, Sizes DEF Dscps
  <2>7. QED
    BY <2>1, <2>4, <2>5, <2>6
<1>13. Len(c) + Len(unused) + Len(irq) = NTx
  BY <1>2, <1>3, <1>4, <1>12
<1>14. Covers(all)
  BY <1>6, <1>11, <1>12 DEF Covers
<1>15. QED
  BY <1>13, <1>14, Zenon DEF all, cu

Follows(p, n, next) == \A k \in 1 .. n : p[k] = next[p[k - 1]]

(* A path along the links can be made as long as one likes. *)
LEMMA PathExists ==
  ASSUME NEW a \in Nat, NEW N \in Nat, a <= N, NEW next \in [Dscps -> Dscps],
         NEW p \in [0 .. a -> Dscps], Follows(p, a, next)
  PROVE  \E q \in [0 .. N -> Dscps] : Follows(q, N, next) /\ \A k \in 0 .. a : q[k] = p[k]
<1> DEFINE Path(n) == \E q \in [0 .. n -> Dscps] :
                         /\ \A k \in 1 .. n : q[k] = next[q[k - 1]]
                         /\ \A k \in 0 .. a : q[k] = p[k]
           T == {n \in Nat : n >= a /\ ~Path(n)}
           Less == OpToRel(<, Nat)
<1>1. SUFFICES ASSUME T # {} PROVE FALSE
  BY DEF Follows
<1>2. IsWellFoundedOn(Less, Nat)
  BY NatLessThanWellFounded
<1>3. \A x, y \in Nat : <<y, x>> \in Less <=> y < x
  BY DEF OpToRel
<1>4. T \in SUBSET Nat
  OBVIOUS
<1> HIDE DEF Less, T
<1>5. PICK n \in T : \A y \in T : ~(<<y, n>> \in Less)
  BY <1>1, <1>2, <1>4, WFMin
<1>6. n \in Nat /\ n >= a /\ ~Path(n)
  BY <1>5 DEF T
<1>7. Path(a)
  BY DEF Follows
<1>8. n # a /\ n - 1 \in Nat /\ n - 1 >= a /\ n - 1 < n
  <2>1. n # a
    BY <1>6, <1>7
  <2>2. QED
    BY <1>6, <2>1
<1>9. n - 1 \notin T
  BY <1>3, <1>5, <1>6, <1>8
<1>10. Path(n - 1)
  BY <1>8, <1>9 DEF T
<1>11. PICK q \in [0 .. n - 1 -> Dscps] :
          /\ \A k \in 1 .. n - 1 : q[k] = next[q[k - 1]]
          /\ \A k \in 0 .. a : q[k] = p[k]
  BY <1>10
<1>12. n - 1 \in 0 .. n - 1 /\ q[n - 1] \in Dscps
  BY <1>8, <1>11
<1>13. PICK z \in Dscps : z = next[q[n - 1]]
  BY <1>12
<1> DEFINE r == [k \in 0 .. n |-> IF k = n THEN z ELSE q[k]]
<1>14. \A k \in 0 .. n : k = n \/ k \in 0 .. n - 1
  BY <1>6
<1>15. r \in [0 .. n -> Dscps]
  BY <1>11, <1>13, <1>14
<1>16. \A k \in 1 .. n : r[k] = next[r[k - 1]]
  <2> SUFFICES ASSUME NEW k \in 1 .. n PROVE r[k] = next[r[k - 1]]
    OBVIOUS
  <2>1. k \in 0 .. n /\ k - 1 \in 0 .. n /\ k - 1 # n /\ (k = n \/ k \in 1 .. n - 1)
    BY <1>6
  <2>2. r[k - 1] = q[k - 1]
    BY <2>1
  <2>3. CASE k = n
    BY <1>13, <2>1, <2>2, <2>3
  <2>4. CASE k # n
    BY <1>11, <2>1, <2>2, <2>4
  <2>5. QED
    BY <2>3, <2>4
<1>17. \A k \in 0 .. a : r[k] = p[k]
  <2>1. \A k \in 0 .. a : k \in 0 .. n /\ k # n
    BY <1>6, <1>8
  <2>2. QED
    BY <1>11, <2>1
<1>18. QED
  BY <1>6, <1>15, <1>16, <1>17

LEMMA ChainIs ==
  ASSUME NEW d \in ChainDev, NEW c, ChainTx(d, c)
  PROVE  Q!Chain(d) = c
<1> DEFINE Body(f) == [k \in 0 .. NTx |->
                         IF k = 0 THEN <<d.txDma>>
                         ELSE Append(f[k - 1], d.tx[Q!Last(f[k - 1])].next_idx)]
           g == CHOOSE f : f = Body(f)
           Stop(k) == /\ k = NTx \/ Q!Last(g[k]) = d.txUsing
                      /\ \A j \in 0 .. k - 1 : Q!Last(g[j]) # d.txUsing
<1>1. Q!Chain(d) = g[CHOOSE k \in 0 .. NTx : Stop(k)]
  BY DEF Q!Chain
<1>2. /\ c \in Seq(Dscps) /\ Len(c) > 0 /\ c[1] = d.txDma /\ c[Len(c)] = d.txUsing
      /\ \A k \in 1 .. Len(c) - 1 : d.tx[c[k]].next_idx = c[k + 1]
      /\ Once(c) /\ d.tx \in TxChain /\ d.txDma \in Dscps
  BY ChainFields DEF ChainTx, Links, Partition
<1>3. Len(c) <= NTx
  <2>1. Partition(c, d.unused, d.irq)
    BY DEF ChainTx
  <2>2. Len(c) + Len(d.unused) + Len(d.irq) = NTx
    <3>1. \A x, y, z : Partition(x, y, z) => Len(x) + Len(y) + Len(z) = NTx
      BY PartitionCount
    <3>2. QED
      BY <2>1, <3>1, Zenon
  <2>3. d.unused \in Seq(Dscps) /\ d.irq \in Seq(Dscps)
    BY ChainFields
  <2>4. PICK x \in Nat : x = Len(c)
    BY <1>2
  <2>5. PICK y \in Nat : y = Len(d.unused)
    BY <2>3
  <2>6. PICK z \in Nat : z = Len(d.irq)
    BY <2>3
  <2>7. x + y + z = NTx
    BY <2>2, <2>4, <2>5, <2>6, Zenon
  <2>8. x <= NTx
    BY <2>7, Sizes
  <2>9. QED
    BY <2>4, <2>8
<1>4. PICK a \in Nat : a = Len(c) - 1 /\ a < NTx /\ a <= NTx /\ Len(c) = a + 1
  <2>1. PICK x \in Nat : x = Len(c)
    BY <1>2
  <2>2. x > 0 /\ x <= NTx
    BY <1>2, <1>3, <2>1
  <2>3. x - 1 \in Nat /\ x - 1 < NTx /\ x - 1 <= NTx /\ x = (x - 1) + 1
    BY <2>2, Sizes
  <2>4. QED
    BY <2>1, <2>3
<1> DEFINE next == [i \in Dscps |-> d.tx[i].next_idx]
           p0 == [k \in 0 .. a |-> c[k + 1]]
<1>5. next \in [Dscps -> Dscps]
  BY <1>2 DEF TxChain
<1>6. p0 \in [0 .. a -> Dscps]
  <2>1. \A k \in 0 .. a : k + 1 \in 1 .. Len(c)
    BY <1>4
  <2>2. \A k \in 0 .. a : c[k + 1] \in Dscps
    BY <1>2, <2>1
  <2>3. QED
    BY <2>2
<1>7. \A k \in 1 .. a : p0[k] = next[p0[k - 1]]
  <2> SUFFICES ASSUME NEW k \in 1 .. a PROVE p0[k] = next[p0[k - 1]]
    OBVIOUS
  <2>1. k \in 0 .. a /\ k - 1 \in 0 .. a /\ (k - 1) + 1 = k /\ k \in 1 .. Len(c) - 1
    BY <1>4
  <2>2. p0[k - 1] = c[k] /\ p0[k] = c[k + 1] /\ c[k] \in Dscps
    BY <1>6, <2>1
  <2>3. QED
    BY <1>2, <2>1, <2>2
<1> HIDE DEF p0
<1>8. PICK p \in [0 .. NTx -> Dscps] :
         /\ \A k \in 1 .. NTx : p[k] = next[p[k - 1]]
         /\ \A k \in 0 .. a : p[k] = p0[k]
  <2>1. NTx \in Nat
    BY Sizes
  <2>2. PICK nx \in [Dscps -> Dscps] : nx = next
    BY <1>5
  <2>3. Follows(p0, a, nx)
    BY <1>7, <2>2 DEF Follows
  <2> HIDE DEF next
  <2>4. \E p \in [0 .. NTx -> Dscps] :
           Follows(p, NTx, nx) /\ \A k \in 0 .. a : p[k] = p0[k]
    <3>1. a \in Nat /\ a <= NTx /\ p0 \in [0 .. a -> Dscps]
      BY <1>4, <1>6
    <3>2. QED
      BY <2>1, <2>2, <2>3, <3>1, PathExists
  <2>5. QED
    BY <2>2, <2>4 DEF Follows
<1>9. \A k \in 0 .. a : p[k] = c[k + 1]
  BY <1>8 DEF p0
<1> DEFINE h == [k \in 0 .. NTx |-> [i \in 1 .. k + 1 |-> p[i - 1]]]
<1>10. ASSUME NEW k \in 0 .. NTx
       PROVE  /\ h[k] \in Seq(Dscps) /\ Len(h[k]) = k + 1 /\ Q!Last(h[k]) = p[k]
  <2>1. \A i \in 1 .. k + 1 : i - 1 \in 0 .. NTx
    BY Sizes
  <2>2. \A i \in 1 .. k + 1 : p[i - 1] \in Dscps
    BY <1>8, <2>1
  <2>3. k + 1 \in Nat /\ k + 1 \in 1 .. k + 1 /\ (k + 1) - 1 = k
    BY Sizes
  <2>4. h[k] = [i \in 1 .. k + 1 |-> p[i - 1]]
    OBVIOUS
  <2>5. h[k] \in [1 .. k + 1 -> Dscps]
    BY <2>2, <2>4
  <2>6. h[k] \in Seq(Dscps) /\ Len(h[k]) = k + 1
    BY <2>3, <2>5
  <2>7. h[k][k + 1] = p[k]
    BY <2>3, <2>4
  <2>8. QED
    BY <2>6, <2>7 DEF Q!Last
<1>11. ASSUME NEW k \in 1 .. NTx
       PROVE  h[k] = Append(h[k - 1], d.tx[Q!Last(h[k - 1])].next_idx)
  <2>1. k \in 0 .. NTx /\ k - 1 \in 0 .. NTx /\ (k - 1) + 1 = k /\ k \in Nat /\ k + 1 \in Nat
    BY Sizes
  <2>2. Q!Last(h[k - 1]) = p[k - 1] /\ p[k - 1] \in Dscps /\ p[k] \in Dscps
    BY <1>8, <1>10, <2>1
  <2>3. d.tx[p[k - 1]].next_idx = p[k]
    BY <1>8, <2>2
  <2>4. PICK s \in Seq(Dscps) : s = h[k - 1] /\ Len(s) = k
    BY <1>10, <2>1
  <2>5. PICK t \in Seq(Dscps) : t = h[k] /\ Len(t) = k + 1
    BY <1>10, <2>1
  <2>6. \A i \in 1 .. k : s[i] = p[i - 1]
    <3>1. h[k - 1] = [i \in 1 .. (k - 1) + 1 |-> p[i - 1]]
      BY <2>1
    <3>2. QED
      BY <2>1, <2>4, <3>1
  <2>7. \A i \in 1 .. k + 1 : t[i] = p[i - 1]
    BY <2>1, <2>5
  <2> HIDE DEF h
  <2>8. PICK x \in Dscps : x = p[k]
    BY <2>2
  <2>9. t = Append(s, x)
    <3>1. /\ Append(s, x) \in Seq(Dscps) /\ Len(Append(s, x)) = k + 1
          /\ \A i \in 1 .. k : Append(s, x)[i] = s[i]
          /\ Append(s, x)[k + 1] = x
      BY <2>4, AppendIs
    <3>2. t[k + 1] = x
      <4>1. k + 1 \in 1 .. k + 1 /\ (k + 1) - 1 = k
        BY <2>1
      <4>2. t[k + 1] = p[(k + 1) - 1]
        BY <2>7, <4>1
      <4>3. QED
        BY <2>8, <4>1, <4>2
    <3>3. \A i \in 1 .. k + 1 : i = k + 1 \/ i \in 1 .. k
      BY <2>1
    <3>4. \A i \in 1 .. k + 1 : t[i] = Append(s, x)[i]
      BY <2>6, <2>7, <3>1, <3>2, <3>3
    <3>5. PICK u \in Seq(Dscps) : u = Append(s, x) /\ Len(u) = k + 1
      BY <3>1
    <3>6. t = u
      BY <2>5, <3>4, <3>5
    <3>7. QED
      BY <3>5, <3>6
  <2>10. QED
    BY <2>2, <2>3, <2>4, <2>5, <2>8, <2>9
<1>12. h[0] = <<d.txDma>>
  <2>1. 0 \in 0 .. NTx /\ 0 \in 0 .. a /\ 0 + 1 = 1
    BY <1>4, Sizes
  <2>2. p[0] = d.txDma
    BY <1>2, <1>9, <2>1
  <2>3. h[0] = [i \in 1 .. 1 |-> p[i - 1]]
    BY <2>1
  <2>4. PICK x : x = d.txDma
    OBVIOUS
  <2>5. [i \in 1 .. 1 |-> p[i - 1]] = <<x>>
    <3>1. \A i \in 1 .. 1 : i - 1 = 0
      OBVIOUS
    <3>2. \A i \in 1 .. 1 : p[i - 1] = x
      BY <2>2, <2>4, <3>1
    <3>3. [i \in 1 .. 1 |-> p[i - 1]] = [i \in 1 .. 1 |-> x]
      BY <3>2
    <3>4. [i \in 1 .. 1 |-> x] = <<x>>
      OBVIOUS
    <3>5. QED
      BY <3>3, <3>4
  <2>6. QED
    BY <2>3, <2>4, <2>5
<1>13. \A k \in 0 .. NTx : k = 0 \/ (k \in 1 .. NTx /\ k # 0 /\ k - 1 \in 0 .. NTx)
  BY Sizes
<1>14. h = Body(h)
  <2> SUFFICES ASSUME NEW k \in 0 .. NTx PROVE h[k] = Body(h)[k]
    OBVIOUS
  <2>1. CASE k = 0
    BY <1>12, <2>1
  <2>2. CASE k # 0
    <3>1. Body(h)[k] = Append(h[k - 1], d.tx[Q!Last(h[k - 1])].next_idx)
      BY <2>2
    <3>2. QED
      BY <1>11, <1>13, <2>2, <3>1
  <2>3. QED
    BY <2>1, <2>2
<1>15. g = Body(g)
  <2> HIDE DEF h
  <2>1. QED
    BY <1>14
<1> HIDE DEF g, h
<1>16. \A k \in 0 .. NTx : g[k] = h[k]
  <2> DEFINE T == {n \in 0 .. NTx : g[n] # h[n]}
             Less == OpToRel(<, Nat)
  <2>1. SUFFICES ASSUME T # {} PROVE FALSE
    OBVIOUS
  <2>2. IsWellFoundedOn(Less, Nat)
    BY NatLessThanWellFounded
  <2>3. \A x, y \in Nat : <<y, x>> \in Less <=> y < x
    BY DEF OpToRel
  <2>4. T \in SUBSET Nat
    OBVIOUS
  <2> HIDE DEF Less, T
  <2>5. PICK n \in T : \A y \in T : ~(<<y, n>> \in Less)
    BY <2>1, <2>2, <2>4, WFMin
  <2>6. n \in 0 .. NTx /\ g[n] # h[n]
    BY <2>5 DEF T
  <2>7. n # 0
    <3>1. 0 \in 0 .. NTx
      BY Sizes
    <3>2. g[0] = <<d.txDma>>
      BY <1>15, <3>1
    <3>3. QED
      BY <1>12, <2>6, <3>2
  <2>8. n \in 1 .. NTx /\ n - 1 \in 0 .. NTx /\ n - 1 < n /\ n - 1 \in Nat /\ n \in Nat
    BY <1>13, <2>6, <2>7
  <2>9. n - 1 \notin T
    BY <2>3, <2>5, <2>8
  <2>10. g[n - 1] = h[n - 1]
    BY <2>8, <2>9 DEF T
  <2>11. g[n] = Append(g[n - 1], d.tx[Q!Last(g[n - 1])].next_idx)
    BY <1>15, <2>6, <2>7
  <2>12. QED
    BY <1>11, <2>6, <2>8, <2>10, <2>11
<1>17. \A k \in 0 .. NTx : Q!Last(g[k]) = p[k]
  BY <1>10, <1>16
<1>18. a \in 0 .. NTx /\ p[a] = d.txUsing /\ \A j \in 0 .. a - 1 : j \in 0 .. NTx /\ p[j] # d.txUsing
  <2>1. a \in 0 .. NTx /\ a \in 0 .. a /\ a + 1 \in 1 .. Len(c)
    BY <1>4, Sizes
  <2>2. p[a] = d.txUsing
    BY <1>2, <1>4, <1>9, <2>1
  <2>3. ASSUME NEW j \in 0 .. a - 1 PROVE j \in 0 .. NTx /\ p[j] # d.txUsing
    <3>1. j \in 0 .. NTx /\ j \in 0 .. a /\ j + 1 \in 1 .. Len(c) /\ j + 1 # Len(c) /\ Len(c) \in 1 .. Len(c)
      BY <1>4, Sizes
    <3>2. c[j + 1] # c[Len(c)]
      BY <1>2, <3>1 DEF Once
    <3>3. QED
      BY <1>2, <1>9, <3>1, <3>2
  <2>4. QED
    BY <2>1, <2>2, <2>3
<1>19. Stop(a)
  BY <1>17, <1>18
<1>20. ASSUME NEW k \in 0 .. NTx, Stop(k) PROVE k = a
  <2>1. k \in Int /\ a \in Int /\ (k < a => k \in 0 .. a - 1 /\ k # NTx) /\ (a < k => a \in 0 .. k - 1)
    BY <1>4, Sizes
  <2>2. ~(k < a)
    BY <1>17, <1>18, <1>20, <2>1
  <2>3. ~(a < k)
    BY <1>17, <1>18, <1>20, <2>1
  <2>4. QED
    BY <2>1, <2>2, <2>3
<1> HIDE DEF Stop
<1>21. (CHOOSE k \in 0 .. NTx : Stop(k)) = a
  BY <1>18, <1>19, <1>20
<1>22. Q!Chain(d) = h[a]
  BY <1>1, <1>16, <1>18, <1>21
<1>23. h[a] = c
  <2>1. PICK s \in Seq(Dscps) : s = h[a] /\ Len(s) = a + 1
    BY <1>10, <1>18
  <2>2. \A i \in 1 .. a + 1 : s[i] = c[i]
    <3>1. \A i \in 1 .. a + 1 : i - 1 \in 0 .. a /\ (i - 1) + 1 = i
      BY <1>4
    <3>2. \A i \in 1 .. a + 1 : s[i] = p[i - 1]
      BY <1>18, <2>1 DEF h
    <3>3. QED
      BY <1>9, <3>1, <3>2
  <2>3. QED
    BY <1>2, <1>4, <2>1, <2>2
<1>24. QED
  BY <1>22, <1>23

LEMMA ChainsAgreeIs ==
  ASSUME NEW d, NEW busy, ChainOK(d, busy)
  PROVE  Q!ChainsAgree(d)
<1>1. d \in ChainDev
  BY DEF ChainOK
<1>2. PICK c : ChainTx(d, c)
  BY DEF ChainOK
<1>3. Q!Chain(d) = c
  BY <1>1, <1>2, ChainIs
<1>4. Partition(c, d.unused, d.irq) /\ c \in Seq(Dscps) /\ c[Len(c)] = d.txUsing
  BY <1>2 DEF ChainTx, Links
<1> DEFINE all == c \o d.unused \o d.irq
<1>5. Covers(all)
  <2>1. \A x, y, z : Partition(x, y, z) => Covers(x \o y \o z)
    BY PartitionCount
  <2>2. QED
    BY <1>4, <2>1
<1> HIDE DEF all
<1>6. Q!ToSet(all) = Dscps
  <2>1. \A k \in 1 .. Len(all) : all[k] \in Dscps
    BY <1>5 DEF Covers
  <2>2. Q!ToSet(all) = {all[k] : k \in 1 .. Len(all)}
    BY <1>5 DEF Q!ToSet, Covers
  <2>3. QED
    BY <1>5, <2>1, <2>2 DEF Covers
<1>7. Q!TxDscps = Dscps
  BY Sizes DEF Dscps
<1>8. QED
  BY <1>3, <1>4, <1>5, <1>6, <1>7 DEF Q!ChainsAgree, Q!Last, Covers, all

(***************************************************************************)
(* Whatever the driver, the indices it keeps and those the hardware keeps  *)
(* describe one ring or one chain: no descriptor is lost behind a wrap, in  *)
(* the list of unused ones or in the interrupt queue, and none is in two    *)
(* of them.                                                                *)
(***************************************************************************)
THEOREM IndicesAgreeAlways == Spec => []IndicesAgree
<1>1. IInv => IndicesAgree
  <2> SUFFICES ASSUME IInv PROVE IndicesAgree
    OBVIOUS
  <2>1. TypeOK /\ DevOK
    BY DEF IInv
  <2>2. CASE IsQdma
    BY <2>1, <2>2, ChainsAgreeIs DEF DevOK, IndicesAgree
  <2>3. CASE ~IsQdma
    BY <2>1, <2>3, RingAgrees, MacIs, BusyType DEF DevOK, IndicesAgree
  <2>4. QED
    BY <2>2, <2>3
<1>2. QED
  BY <1>1, Always, PTL

-----------------------------------------------------------------------------
(* Who has which buffer.  A place is a descriptor, or a variable of the    *)
(* main program or of the handler; it has one buffer or none (NBufs).      *)
InTx(i) == <<"tx", i>>
InRx(i) == <<"rx", i>>
InHeld(k) == <<"held", k>>
InOut(k) == <<"out", k>>
InJob(k) == <<"job", k>>

Places ==
  {InTx(i) : i \in 0 .. NTx - 1} \cup {InRx(i) : i \in 0 .. NRx - 1}
  \cup {InHeld(k) : k \in {1, 2}} \cup {InOut(k) : k \in {1, 2}} \cup {InJob(k) : k \in {1, 2}}

Nth(s, k) == IF k <= Len(s) THEN s[k] ELSE NBufs

Accounts(own, used) ==
  /\ own \in [Places -> Held]
  /\ \A p, q \in Places : own[p] # NBufs /\ own[p] = own[q] => p = q
  /\ used \subseteq R!Bufs
  /\ \A b : b \in used <=> b # NBufs /\ \E p \in Places : own[p] = b

View(f, d, h, o, j) ==
  /\ \A i \in 0 .. NTx - 1 : f[InTx(i)] = d.tx[i].skb
  /\ \A i \in 0 .. NRx - 1 : f[InRx(i)] = d.rx[i].skb
  /\ f[InHeld(1)] = Nth(h, 1) /\ f[InHeld(2)] = Nth(h, 2)
  /\ f[InOut(1)] = Nth(o, 1) /\ f[InOut(2)] = Nth(o, 2)
  /\ f[InJob(1)] = j.skb /\ f[InJob(2)] = j.new

Accounted == \E f : View(f, dev, held, out, job) /\ Accounts(f, pool.used)

(* alloc_skb takes the buffer it has found unused. *)
ClaimIsFree == pc = "claim" => cand \notin pool.used

LEMMA PlacesAre ==
  /\ \A i \in 0 .. NTx - 1 : InTx(i) \in Places
  /\ \A i \in 0 .. NRx - 1 : InRx(i) \in Places
  /\ InHeld(1) \in Places /\ InHeld(2) \in Places
  /\ InOut(1) \in Places /\ InOut(2) \in Places
  /\ InJob(1) \in Places /\ InJob(2) \in Places
  /\ \A p \in Places : \/ \E i \in 0 .. NTx - 1 : p = InTx(i)
                       \/ \E i \in 0 .. NRx - 1 : p = InRx(i)
                       \/ p \in {InHeld(1), InHeld(2), InOut(1), InOut(2), InJob(1), InJob(2)}
BY DEF Places

LEMMA PlacesApart ==
  /\ \A i, k : /\ InTx(i) # InRx(k) /\ InTx(i) # InHeld(k) /\ InTx(i) # InOut(k) /\ InTx(i) # InJob(k)
               /\ InRx(i) # InHeld(k) /\ InRx(i) # InOut(k) /\ InRx(i) # InJob(k)
               /\ InHeld(i) # InOut(k) /\ InHeld(i) # InJob(k) /\ InOut(i) # InJob(k)
               /\ (InTx(i) = InTx(k) => i = k) /\ (InRx(i) = InRx(k) => i = k)
  /\ InHeld(1) # InHeld(2) /\ InOut(1) # InOut(2) /\ InJob(1) # InJob(2)
BY DEF InTx, InRx, InHeld, InOut, InJob

(* Changes of the account: a buffer is allocated to a place, passed from   *)
(* one place to another, or the buffers of some places are freed.          *)
LEMMA Gets ==
  ASSUME NEW own, NEW used, Accounts(own, used), NEW p \in Places, own[p] = NBufs,
         NEW b \in R!Bufs, b \notin used
  PROVE  Accounts([own EXCEPT ![p] = b], used \cup {b})
<1> DEFINE f == [own EXCEPT ![p] = b]
<1>0. b # NBufs /\ b \in Held
  BY Sizes DEF Held
<1>1. /\ own \in [Places -> Held] /\ used \subseteq R!Bufs
      /\ \A q, r \in Places : own[q] # NBufs /\ own[q] = own[r] => q = r
      /\ \A c : c \in used <=> c # NBufs /\ \E q \in Places : own[q] = c
  BY DEF Accounts
<1>2. f \in [Places -> Held] /\ f[p] = b /\ \A q \in Places : q # p => f[q] = own[q]
  BY <1>0, <1>1
<1> HIDE DEF f
<1>3. \A q \in Places : own[q] # b
  BY <1>0, <1>1
<1>4. \A q, r \in Places : f[q] # NBufs /\ f[q] = f[r] => q = r
  BY <1>1, <1>2, <1>3
<1>5. \A c : c \in used \cup {b} <=> c # NBufs /\ \E q \in Places : f[q] = c
  <2> SUFFICES ASSUME NEW c PROVE c \in used \cup {b} <=> c # NBufs /\ \E q \in Places : f[q] = c
    OBVIOUS
  <2>1. ASSUME c \in used PROVE c # NBufs /\ \E q \in Places : f[q] = c
    <3>1. PICK q \in Places : own[q] = c
      BY <1>1, <2>1
    <3>2. c # NBufs /\ q # p
      BY <1>1, <2>1, <3>1
    <3>3. QED
      BY <1>2, <3>1, <3>2
  <2>2. ASSUME c # NBufs, NEW q \in Places, f[q] = c PROVE c \in used \cup {b}
    BY <1>1, <1>2, <2>2
  <2>3. QED
    BY <1>0, <1>2, <2>1, <2>2
<1>6. used \cup {b} \subseteq R!Bufs
  BY <1>1
<1>7. QED
  BY <1>2, <1>4, <1>5, <1>6 DEF Accounts, f

LEMMA Moves ==
  ASSUME NEW own, NEW used, Accounts(own, used), NEW p \in Places, NEW q \in Places, p # q,
         own[q] = NBufs
  PROVE  Accounts([own EXCEPT ![p] = NBufs, ![q] = own[p]], used)
<1> DEFINE f == [own EXCEPT ![p] = NBufs, ![q] = own[p]]
<1>0. NBufs \in Held
  BY Sizes DEF Held
<1>1. /\ own \in [Places -> Held] /\ used \subseteq R!Bufs
      /\ \A s, r \in Places : own[s] # NBufs /\ own[s] = own[r] => s = r
      /\ \A c : c \in used <=> c # NBufs /\ \E s \in Places : own[s] = c
  BY DEF Accounts
<1>2. /\ f \in [Places -> Held] /\ f[p] = NBufs /\ f[q] = own[p]
      /\ \A r \in Places : r # p /\ r # q => f[r] = own[r]
  BY <1>0, <1>1
<1> HIDE DEF f
<1>3. \A s, r \in Places : f[s] # NBufs /\ f[s] = f[r] => s = r
  BY <1>1, <1>2
<1>4. \A c : c # NBufs => ((\E s \in Places : f[s] = c) <=> (\E s \in Places : own[s] = c))
  <2> SUFFICES ASSUME NEW c, c # NBufs
               PROVE  (\E s \in Places : f[s] = c) <=> (\E s \in Places : own[s] = c)
    OBVIOUS
  <2>1. ASSUME NEW s \in Places, f[s] = c PROVE \E r \in Places : own[r] = c
    BY <1>2, <2>1
  <2>2. ASSUME NEW s \in Places, own[s] = c PROVE \E r \in Places : f[r] = c
    <3>1. CASE s = p
      BY <1>2, <2>2, <3>1
    <3>2. CASE s # p
      <4>1. s # q
        BY <2>2
      <4>2. QED
        BY <1>2, <2>2, <3>2, <4>1
    <3>3. QED
      BY <3>1, <3>2
  <2>3. QED
    BY <2>1, <2>2
<1>5. \A c : c \in used <=> c # NBufs /\ \E s \in Places : f[s] = c
  BY <1>1, <1>4
<1>6. QED
  BY <1>1, <1>2, <1>3, <1>5 DEF Accounts, f

LEMMA Leaves ==
  ASSUME NEW own, NEW used, Accounts(own, used), NEW S \in SUBSET Places
  PROVE  Accounts([p \in Places |-> IF p \in S THEN NBufs ELSE own[p]], used \ {own[p] : p \in S})
<1> DEFINE f == [p \in Places |-> IF p \in S THEN NBufs ELSE own[p]]
           left == used \ {own[p] : p \in S}
<1>0. NBufs \in Held
  BY Sizes DEF Held
<1>1. /\ own \in [Places -> Held] /\ used \subseteq R!Bufs
      /\ \A s, r \in Places : own[s] # NBufs /\ own[s] = own[r] => s = r
      /\ \A c : c \in used <=> c # NBufs /\ \E s \in Places : own[s] = c
  BY DEF Accounts
<1>2. f \in [Places -> Held] /\ \A p \in Places : f[p] = IF p \in S THEN NBufs ELSE own[p]
  BY <1>0, <1>1
<1> HIDE DEF f
<1>3. \A s, r \in Places : f[s] # NBufs /\ f[s] = f[r] => s = r
  BY <1>1, <1>2
<1>4. ASSUME NEW c PROVE c \in left <=> c # NBufs /\ \E s \in Places : f[s] = c
  <2>1. ASSUME c \in left PROVE c # NBufs /\ \E s \in Places : f[s] = c
    <3>1. PICK s \in Places : own[s] = c
      BY <1>1, <2>1
    <3>2. c # NBufs /\ s \notin S
      BY <1>1, <2>1, <3>1
    <3>3. QED
      BY <1>2, <3>1, <3>2
  <2>2. ASSUME c # NBufs, NEW s \in Places, f[s] = c PROVE c \in left
    <3>1. s \notin S /\ own[s] = c
      BY <1>2, <2>2
    <3>2. c \in used
      BY <1>1, <2>2, <3>1
    <3>3. \A r \in S : own[r] # c
      BY <1>1, <2>2, <3>1
    <3>4. QED
      BY <3>2, <3>3
  <2>3. QED
    BY <2>1, <2>2
<1>5. left \subseteq R!Bufs
  BY <1>1
<1>6. QED
  BY <1>2, <1>3, <1>4, <1>5 DEF Accounts, f

(* What the operations do to the buffers in the descriptors, whatever the  *)
(* driver.                                                                 *)
SameTx == \A i \in 0 .. NTx - 1 : dev'.tx[i].skb = dev.tx[i].skb
SameRx == \A i \in 0 .. NRx - 1 : dev'.rx[i].skb = dev.rx[i].skb

LEMMA ReclaimSkbs ==
  ASSUME TypeOK, DevOK, Reclaim
  PROVE  /\ SameRx
         /\ \E gone \in SUBSET (0 .. NTx - 1) :
              /\ pool'.used = pool.used \ {dev.tx[i].skb : i \in gone}
              /\ \A i \in 0 .. NTx - 1 : dev'.tx[i].skb = IF i \in gone THEN NBufs ELSE dev.tx[i].skb
<1>1. pool \in R!Pools
  BY DEF TypeOK
<1>2. CASE IsQdma
  <2>1. dev' = Q!ChainReclaim(dev) /\ ChainOK(dev, Busy) /\ pool'.used = pool.used \ Q!ChainFreed(dev)
    BY <1>1, <1>2 DEF Reclaim, DevOK, R!Pools
  <2>2. PICK e : e = Q!ChainReclaim(dev)
    OBVIOUS
  <2>3. PICK gone : gone = IF Q!Recycles(dev) THEN {dev.irq[k] : k \in 1 .. dev.irqWritten} ELSE {}
    OBVIOUS
  <2>4. /\ e.rx = dev.rx /\ gone \subseteq 0 .. NTx - 1
        /\ Q!ChainFreed(dev) = {dev.tx[i].skb : i \in gone}
        /\ \A i \in 0 .. NTx - 1 : e.tx[i].skb = IF i \in gone THEN NBufs ELSE dev.tx[i].skb
    BY <2>1, <2>2, <2>3, BusyType, ChainReclaimOK
  <2>5. QED
    BY <2>1, <2>2, <2>4 DEF SameRx
<1>3. CASE ~IsQdma
  <2>1. /\ dev' = R!macTxRingProc(mac, dev) /\ RingOK(mac, dev, Busy) /\ mac \in R!RingMacs
        /\ pool'.used = pool.used \ R!RingFreed(mac, dev)
    BY <1>1, <1>3, MacIs DEF Reclaim, DevOK, R!Pools
  <2>2. PICK e : e = R!macTxRingProc(mac, dev)
    OBVIOUS
  <2>3. PICK gone : gone = R!Gone(mac, dev)
    OBVIOUS
  <2>4. /\ e.rx = dev.rx /\ gone \subseteq 0 .. NTx - 1
        /\ \A i \in 0 .. NTx - 1 : e.tx[i].skb = IF i \in gone THEN NBufs ELSE dev.tx[i].skb
    <3>1. /\ R!macTxRingProc(mac, dev).rx = dev.rx /\ R!Gone(mac, dev) \subseteq 0 .. NTx - 1
          /\ \A i \in 0 .. NTx - 1 : R!macTxRingProc(mac, dev).tx[i].skb
               = IF i \in R!Gone(mac, dev) THEN NBufs ELSE dev.tx[i].skb
      BY <2>1, BusyType, RingReclaimOK, ZenonT(60)
    <3>2. QED
      BY <2>2, <2>3, <3>1, Zenon
  <2>5. R!RingFreed(mac, dev) = {dev.tx[i].skb : i \in gone}
    BY <2>3 DEF R!RingFreed
  <2>6. QED
    BY <2>1, <2>2, <2>4, <2>5 DEF SameRx
<1>4. QED
  BY <1>2, <1>3

PostedAt(k, b) ==
  /\ dev.tx[k].skb = NBufs
  /\ \A i \in 0 .. NTx - 1 : dev'.tx[i].skb = IF i = k THEN b ELSE dev.tx[i].skb

LEMMA PostSkbs ==
  ASSUME TypeOK, DevOK, NEW b \in R!Bufs, NEW done, Post(b, done)
  PROVE  \/ dev' = dev /\ pool'.used = pool.used \ (done \cup {b})
         \/ /\ SameRx /\ pool'.used = pool.used \ done
            /\ \E k \in 0 .. NTx - 1 : PostedAt(k, b)
<1>1. pool \in R!Pools
  BY DEF TypeOK
<1>2. CASE Blocked
  BY <1>1, <1>2 DEF Post, R!Pools
<1>3. CASE ~Blocked /\ IsQdma
  <2>1. /\ dev' = Q!ChainPost(dev, b) /\ ChainOK(dev, Busy) /\ ~Q!ChainBlocked(dev)
        /\ pool'.used = pool.used \ done
    BY <1>1, <1>3 DEF Post, DevOK, Blocked, R!Pools
  <2>2. PICK e : e = Q!ChainPost(dev, b)
    OBVIOUS
  <2>3. PICK k : k = dev.txUsing
    OBVIOUS
  <2>4. /\ k \in 0 .. NTx - 1 /\ dev.tx[k].skb = NBufs /\ dev.tx \in TxChain
        /\ e.rx = dev.rx /\ e.tx = [dev.tx EXCEPT ![k] = [skb |-> b, next_idx |-> Head(dev.unused)]]
    BY <2>1, <2>2, <2>3, BusyType, ChainPostOK
  <2>5. \A i \in 0 .. NTx - 1 : e.tx[i].skb = IF i = k THEN b ELSE dev.tx[i].skb
    <3>1. PICK v : v = [skb |-> b, next_idx |-> Head(dev.unused)]
      OBVIOUS
    <3>2. v.skb = b
      BY <3>1
    <3>3. PICK f \in TxChain : f = dev.tx
      BY <2>4
    <3>4. e.tx = [f EXCEPT ![k] = v]
      BY <2>4, <3>1, <3>3
    <3>5. \A i \in 0 .. NTx - 1 : e.tx[i] = IF i = k THEN v ELSE f[i]
      BY <3>4 DEF TxChain, Dscps
    <3>6. QED
      BY <3>2, <3>3, <3>5
  <2>6. QED
    BY <2>1, <2>2, <2>4, <2>5 DEF SameRx, PostedAt
<1>4. CASE ~Blocked /\ ~IsQdma
  <2>1. /\ dev' = R!RingPost(mac, dev, b) /\ RingOK(mac, dev, Busy) /\ mac \in R!RingMacs
        /\ ~R!TxBlocked(mac, dev) /\ pool'.used = pool.used \ done
    BY <1>1, <1>4, MacIs DEF Post, DevOK, Blocked, R!Pools
  <2>2. PICK e : e = R!RingPost(mac, dev, b)
    OBVIOUS
  <2>3. PICK k : k = dev.txCurrentDescp
    OBVIOUS
  <2>4. /\ k \in 0 .. NTx - 1 /\ dev.tx[k].skb = NBufs /\ dev.tx \in TxRing
        /\ e.rx = dev.rx /\ e.tx = [dev.tx EXCEPT ![k] = [own |-> TRUE, skb |-> b]]
    BY <2>1, <2>2, <2>3, BusyType, RingPostOK
  <2>5. \A i \in 0 .. NTx - 1 : e.tx[i].skb = IF i = k THEN b ELSE dev.tx[i].skb
    <3>1. PICK v : v = [own |-> TRUE, skb |-> b]
      OBVIOUS
    <3>2. v.skb = b
      BY <3>1
    <3>3. PICK f \in TxRing : f = dev.tx
      BY <2>4
    <3>4. e.tx = [f EXCEPT ![k] = v]
      BY <2>4, <3>1, <3>3
    <3>5. \A i \in 0 .. NTx - 1 : e.tx[i] = IF i = k THEN v ELSE f[i]
      BY <3>4 DEF TxRing
    <3>6. QED
      BY <3>2, <3>3, <3>5
  <2>6. QED
    BY <2>1, <2>2, <2>4, <2>5 DEF SameRx, PostedAt
<1>5. QED
  BY <1>2, <1>3, <1>4

LEMMA TakeSkbs ==
  ASSUME TypeOK, DevOK, Busy = FALSE, Take
  PROVE  /\ SameTx
         /\ \E r \in 0 .. NRx - 1 :
              /\ job'.skb = dev.rx[r].skb /\ dev.rx[r].skb \in R!Bufs
              /\ \A i \in 0 .. NRx - 1 : dev'.rx[i].skb = IF i = r THEN NBufs ELSE dev.rx[i].skb
<1>0. job'.skb = Frame.skb
  BY DEF Take
<1>1. CASE IsQdma
  <2>1. /\ dev' = Q!ChainTake(dev) /\ ChainOK(dev, FALSE) /\ Q!ChainRxReady(dev)
        /\ Frame = dev.rx[dev.rxStart]
    BY <1>1 DEF Take, DevOK, RxReady, Frame, Q!ChainFrame
  <2>2. PICK e : e = Q!ChainTake(dev)
    OBVIOUS
  <2>3. PICK r : r = dev.rxStart
    OBVIOUS
  <2>4. /\ r \in 0 .. NRx - 1 /\ dev.rx[r].skb \in R!Bufs /\ e.tx = dev.tx
        /\ \A i \in 0 .. NRx - 1 : e.rx[i].skb = IF i = r THEN NBufs ELSE dev.rx[i].skb
    BY <2>1, <2>2, <2>3, ChainTakeOK
  <2>5. QED
    BY <1>0, <2>1, <2>2, <2>3, <2>4 DEF SameTx
<1>2. CASE ~IsQdma
  <2>1. /\ dev' = R!RingTake(dev) /\ RingOK(mac, dev, FALSE) /\ R!RingRxReady(dev)
        /\ Frame = dev.rx[dev.rxCurrentDescp] /\ mac \in R!RingMacs
    BY <1>2, MacIs DEF Take, DevOK, RxReady, Frame, R!RingFrame
  <2>2. PICK e : e = R!RingTake(dev)
    OBVIOUS
  <2>3. PICK r : r = dev.rxCurrentDescp
    OBVIOUS
  <2>4. /\ r \in 0 .. NRx - 1 /\ dev.rx[r].skb \in R!Bufs /\ e.tx = dev.tx
        /\ e.rx = [dev.rx EXCEPT ![r].skb = NBufs] /\ dev.rx \in RxRing
    BY <2>1, <2>2, <2>3, RingTakeOK
  <2>5. \A i \in 0 .. NRx - 1 : e.rx[i].skb = IF i = r THEN NBufs ELSE dev.rx[i].skb
    BY <2>4 DEF RxRing
  <2>6. QED
    BY <1>0, <2>1, <2>2, <2>3, <2>4, <2>5 DEF SameTx
<1>3. QED
  BY <1>1, <1>2

LEMMA RepostSkbs ==
  ASSUME TypeOK, DevOK, Busy = TRUE, job.new \in R!Bufs, Repost
  PROVE  /\ SameTx
         /\ \E r \in 0 .. NRx - 1 :
              /\ dev.rx[r].skb = NBufs
              /\ \A i \in 0 .. NRx - 1 : dev'.rx[i].skb = IF i = r THEN job.new ELSE dev.rx[i].skb
<1>0. PICK b \in R!Bufs : b = job.new
  OBVIOUS
<1>1. CASE IsQdma
  <2>1. dev' = Q!qdma_bm_hook_receive_buffer(dev, b) /\ ChainOK(dev, TRUE)
    BY <1>0, <1>1 DEF Repost, DevOK
  <2>2. PICK e : e = Q!qdma_bm_hook_receive_buffer(dev, b)
    OBVIOUS
  <2>3. PICK r : r = dev.rxEnd
    OBVIOUS
  <2>4. /\ r \in 0 .. NRx - 1 /\ dev.rx[r].skb = NBufs /\ e.tx = dev.tx /\ dev.rx \in RxChain
        /\ e.rx = [dev.rx EXCEPT ![r] = [skb |-> b, done |-> FALSE, frame |-> "noise"]]
    BY <2>1, <2>2, <2>3, ChainHookOK
  <2>5. \A i \in 0 .. NRx - 1 : e.rx[i].skb = IF i = r THEN b ELSE dev.rx[i].skb
    <3>1. PICK v : v = [skb |-> b, done |-> FALSE, frame |-> "noise"]
      OBVIOUS
    <3>2. v.skb = b
      BY <3>1
    <3>3. PICK f \in RxChain : f = dev.rx
      BY <2>4
    <3>4. e.rx = [f EXCEPT ![r] = v]
      BY <2>4, <3>1, <3>3
    <3>5. \A i \in 0 .. NRx - 1 : e.rx[i] = IF i = r THEN v ELSE f[i]
      BY <3>4 DEF RxChain
    <3>6. QED
      BY <3>2, <3>3, <3>5
  <2>6. QED
    BY <1>0, <2>1, <2>2, <2>4, <2>5 DEF SameTx
<1>2. CASE ~IsQdma
  <2>1. dev' = R!RingRepost(mac, dev, b) /\ RingOK(mac, dev, TRUE) /\ mac \in R!RingMacs
    BY <1>0, <1>2, MacIs DEF Repost, DevOK
  <2>2. PICK e : e = R!RingRepost(mac, dev, b)
    OBVIOUS
  <2>3. PICK r : r = dev.rxCurrentDescp
    OBVIOUS
  <2>4. /\ r \in 0 .. NRx - 1 /\ dev.rx[r].skb = NBufs /\ e.tx = dev.tx /\ dev.rx \in RxRing
        /\ e.rx = [dev.rx EXCEPT ![r] = [own |-> TRUE, skb |-> b, frame |-> "noise"]]
    <3>1. dev \in RingDev /\ dev.rxCurrentDescp \in 0 .. NRx - 1
      BY <2>1, RingFields DEF RingOK
    <3>2. /\ e.tx = dev.tx /\ dev.rx \in RxRing
          /\ e.rx = [dev.rx EXCEPT ![r] = [own |-> TRUE, skb |-> b, frame |-> "noise"]]
      BY <2>2, <2>3, <3>1 DEF R!RingRepost, RingDev
    <3>3. PICK q \in 0 .. NRx : RingRx(mac, dev, TRUE, q)
      BY <2>1 DEF RingOK
    <3>4. dev.rx[r].skb = NBufs
      BY <2>3, <3>1, <3>3 DEF RingRx, RxBits
    <3>5. QED
      BY <2>3, <3>1, <3>2, <3>4
  <2>5. \A i \in 0 .. NRx - 1 : e.rx[i].skb = IF i = r THEN b ELSE dev.rx[i].skb
    <3>1. PICK v : v = [own |-> TRUE, skb |-> b, frame |-> "noise"]
      OBVIOUS
    <3>2. v.skb = b
      BY <3>1
    <3>3. PICK f \in RxRing : f = dev.rx
      BY <2>4
    <3>4. e.rx = [f EXCEPT ![r] = v]
      BY <2>4, <3>1, <3>3
    <3>5. \A i \in 0 .. NRx - 1 : e.rx[i] = IF i = r THEN v ELSE f[i]
      BY <3>4 DEF RxRing
    <3>6. QED
      BY <3>2, <3>3, <3>5
  <2>6. QED
    BY <1>0, <2>1, <2>2, <2>4, <2>5 DEF SameTx
<1>3. QED
  BY <1>1, <1>2

LEMMA DiscardSkbs ==
  ASSUME TypeOK, DevOK, Busy = FALSE, Discard
  PROVE  SameTx /\ SameRx
<1>1. /\ dev' = R!RingRepost(mac, dev, Frame.skb) /\ RingOK(mac, dev, FALSE) /\ R!RingRxReady(dev)
      /\ Frame = dev.rx[dev.rxCurrentDescp] /\ mac \in R!RingMacs
  BY MacIs DEF Discard, DevOK, RxReady, Frame, R!RingFrame
<1>2. PICK r : r = dev.rxCurrentDescp
  OBVIOUS
<1>3. RingRx(mac, dev, FALSE, CHOOSE q \in 0 .. NRx : RingRx(mac, dev, FALSE, q))
  BY <1>1 DEF RingOK
<1>4. r \in 0 .. NRx - 1 /\ dev.rx[r].skb # NBufs /\ dev.rx[r].skb \in Held
  BY <1>2, <1>3 DEF RingRx, RxBits, RxRing
<1>5. PICK b \in R!Bufs : b = dev.rx[r].skb
  BY <1>4, Sizes DEF Held
<1>6. PICK e : e = R!RingRepost(mac, dev, b)
  OBVIOUS
<1>7. /\ e.tx = dev.tx /\ dev.rx \in RxRing
      /\ e.rx = [dev.rx EXCEPT ![r] = [own |-> TRUE, skb |-> b, frame |-> "noise"]]
  <2>1. dev \in RingDev
    BY <1>1 DEF RingOK
  <2>2. QED
    BY <1>2, <1>6, <2>1 DEF R!RingRepost, RingDev
<1>8. \A i \in 0 .. NRx - 1 : e.rx[i].skb = dev.rx[i].skb
  BY <1>4, <1>5, <1>7 DEF RxRing
<1>9. QED
  BY <1>1, <1>2, <1>5, <1>6, <1>7, <1>8 DEF SameTx, SameRx

(* Every step keeps the account. *)
LEMMA AccountSame ==
  ASSUME Accounted, SameTx, SameRx, UNCHANGED <<held, out, job>>, pool'.used = pool.used
  PROVE  Accounted'
<1>1. PICK f : View(f, dev, held, out, job) /\ Accounts(f, pool.used)
  BY DEF Accounted
<1>2. View(f, dev', held', out', job')
  BY <1>1 DEF View, SameTx, SameRx
<1>3. Accounts(f, pool'.used)
  BY <1>1
<1>4. QED
  BY <1>2, <1>3 DEF Accounted

LEMMA AccountReclaim ==
  ASSUME Accounted, TypeOK, DevOK, Reclaim, UNCHANGED <<held, out, job>>
  PROVE  Accounted'
<1>1. PICK f : View(f, dev, held, out, job) /\ Accounts(f, pool.used)
  BY DEF Accounted
<1>2. SameRx
  BY ReclaimSkbs
<1>3. PICK gone \in SUBSET (0 .. NTx - 1) :
        /\ pool'.used = pool.used \ {dev.tx[i].skb : i \in gone}
        /\ \A i \in 0 .. NTx - 1 : dev'.tx[i].skb = IF i \in gone THEN NBufs ELSE dev.tx[i].skb
  BY ReclaimSkbs
<1> DEFINE S == {InTx(i) : i \in gone}
           g == [p \in Places |-> IF p \in S THEN NBufs ELSE f[p]]
<1>4. S \in SUBSET Places
  BY PlacesAre
<1>5. /\ \A i \in 0 .. NTx - 1 : InTx(i) \in S <=> i \in gone
      /\ \A k : InRx(k) \notin S /\ InHeld(k) \notin S /\ InOut(k) \notin S /\ InJob(k) \notin S
  BY PlacesApart
<1>6. {f[p] : p \in S} = {dev.tx[i].skb : i \in gone}
  <2>1. \A i \in gone : f[InTx(i)] = dev.tx[i].skb
    BY <1>1 DEF View
  <2>2. QED
    BY <2>1
<1>7. Accounts(g, pool.used \ {f[p] : p \in S})
  BY <1>1, <1>4, Leaves
<1>8. \A p \in Places : g[p] = IF p \in S THEN NBufs ELSE f[p]
  OBVIOUS
<1> HIDE DEF g, S
<1>9. \A i \in 0 .. NTx - 1 : g[InTx(i)] = dev'.tx[i].skb
  BY <1>1, <1>3, <1>5, <1>8, PlacesAre DEF View
<1>10. \A i \in 0 .. NRx - 1 : g[InRx(i)] = dev'.rx[i].skb
  BY <1>1, <1>2, <1>5, <1>8, PlacesAre DEF View, SameRx
<1>11. View(g, dev', held', out', job')
  BY <1>1, <1>5, <1>8, <1>9, <1>10, PlacesAre DEF View
<1>12. Accounts(g, pool'.used)
  BY <1>3, <1>6, <1>7
<1>13. QED
  BY <1>11, <1>12 DEF Accounted

(* A buffer is queued or dropped; the place p it was in is free then. *)
PassedOn(f, p, g) ==
  /\ \A i \in 0 .. NTx - 1 : g[InTx(i)] = dev'.tx[i].skb
  /\ \A i \in 0 .. NRx - 1 : g[InRx(i)] = dev'.rx[i].skb
  /\ \A q \in Places : (\A i : q # InTx(i)) => g[q] = IF q = p THEN NBufs ELSE f[q]

LEMMA AccountPost ==
  ASSUME TypeOK, DevOK, NEW f, View(f, dev, held, out, job), Accounts(f, pool.used),
         NEW p \in Places, \A i : p # InTx(i) /\ p # InRx(i),
         NEW b \in R!Bufs, f[p] = b, NEW done, Post(b, done)
  PROVE  \E g, used : Accounts(g, used) /\ pool'.used = used \ done /\ PassedOn(f, p, g)
<1>1. /\ \A i \in 0 .. NTx - 1 : f[InTx(i)] = dev.tx[i].skb
      /\ \A i \in 0 .. NRx - 1 : f[InRx(i)] = dev.rx[i].skb
  BY DEF View
<1>2. f \in [Places -> Held] /\ NBufs \in Held
  BY Sizes DEF Accounts, Held
<1>3. CASE dev' = dev /\ pool'.used = pool.used \ (done \cup {b})
  <2> DEFINE S == {p}
             g == [q \in Places |-> IF q \in S THEN NBufs ELSE f[q]]
             used == pool.used \ {f[q] : q \in S}
  <2>1. Accounts(g, used)
    BY Leaves
  <2>2. used = pool.used \ {b}
    OBVIOUS
  <2>3. pool'.used = used \ done
    BY <1>3, <2>2
  <2>4. \A q \in Places : g[q] = IF q = p THEN NBufs ELSE f[q]
    OBVIOUS
  <2> HIDE DEF g, used
  <2>5. /\ \A i \in 0 .. NTx - 1 : g[InTx(i)] = dev'.tx[i].skb
        /\ \A i \in 0 .. NRx - 1 : g[InRx(i)] = dev'.rx[i].skb
    BY <1>1, <1>3, <2>4, PlacesAre
  <2>6. QED
    BY <2>1, <2>3, <2>4, <2>5 DEF PassedOn
<1>4. CASE /\ SameRx /\ pool'.used = pool.used \ done
           /\ \E k \in 0 .. NTx - 1 : PostedAt(k, b)
  <2>1. PICK k \in 0 .. NTx - 1 : PostedAt(k, b)
    BY <1>4
  <2>2. PICK q \in Places : q = InTx(k)
    BY PlacesAre
  <2>3. p # q /\ f[q] = NBufs
    BY <1>1, <2>1, <2>2 DEF PostedAt
  <2> DEFINE g == [f EXCEPT ![p] = NBufs, ![q] = f[p]]
  <2>4. Accounts(g, pool.used)
    BY <2>3, Moves
  <2>5. /\ g[p] = NBufs /\ g[q] = b /\ \A r \in Places : r # p /\ r # q => g[r] = f[r]
    BY <1>2, <2>3
  <2> HIDE DEF g
  <2>6. \A i \in 0 .. NTx - 1 : g[InTx(i)] = dev'.tx[i].skb
    <3>1. \A i \in 0 .. NTx - 1 : i # k => InTx(i) # q
      BY <2>2, PlacesApart
    <3>2. QED
      BY <1>1, <2>1, <2>2, <2>5, <3>1, PlacesAre DEF PostedAt
  <2>7. \A i \in 0 .. NRx - 1 : g[InRx(i)] = dev'.rx[i].skb
    <3>1. \A i \in 0 .. NRx - 1 : InRx(i) # q /\ InRx(i) # p
      BY <2>2, PlacesApart
    <3>2. QED
      BY <1>1, <1>4, <2>5, <3>1, PlacesAre DEF SameRx
  <2>8. \A r \in Places : (\A i : r # InTx(i)) => g[r] = IF r = p THEN NBufs ELSE f[r]
    BY <2>2, <2>5
  <2>9. QED
    BY <1>4, <2>4, <2>6, <2>7, <2>8 DEF PassedOn
<1>5. QED
  BY <1>3, <1>4, PostSkbs

LEMMA AccountPostSti ==
  ASSUME IInv, Accounted, PostSti
  PROVE  Accounted'
<1>0. TypeOK /\ DevOK /\ MainControl
  BY DEF IInv
<1>1. PICK f : View(f, dev, held, out, job) /\ Accounts(f, pool.used)
  BY DEF Accounted
<1>2. held \in Seq(R!Bufs)
  BY <1>0 DEF TypeOK
<1>3. PICK n \in {1, 2} : n = Len(held)
  <2>1. PICK m \in Nat : m = Len(held)
    BY <1>2
  <2>2. m <= 2
    BY <1>0, <2>1 DEF TypeOK
  <2>3. m > 0
    BY <1>0, <2>1 DEF PostSti, At, MainControl
  <2>4. m \in {1, 2}
    BY <2>2, <2>3
  <2>5. QED
    BY <2>1, <2>4
<1>4. /\ held' \in Seq(R!Bufs) /\ Len(held') = n - 1 /\ \A k \in 1 .. n - 1 : held'[k] = held[k]
      /\ Last(held) = held[n] /\ Last(held) \in R!Bufs
  <2>1. held' = Front(held)
    BY DEF PostSti
  <2>2. Len(held) > 0
    BY <1>3
  <2>3. /\ held' \in Seq(R!Bufs) /\ Len(held') = Len(held) - 1
        /\ \A k \in 1 .. Len(held) - 1 : held'[k] = held[k]
        /\ Last(held) = held[Len(held)] /\ Last(held) \in R!Bufs
    BY <1>2, <2>1, <2>2, FrontIs
  <2>4. QED
    BY <1>3, <2>3
<1>5. PICK b \in R!Bufs : b = Last(held) /\ b = held[n]
  BY <1>4
<1>6. PICK p \in Places : p = InHeld(n)
  BY PlacesAre
<1>7. \A i : p # InTx(i) /\ p # InRx(i)
  BY <1>6, PlacesApart
<1>8. f[p] = b
  BY <1>1, <1>3, <1>5, <1>6 DEF View, Nth
<1>9. Post(b, {}) /\ UNCHANGED <<out, job>>
  BY <1>5 DEF PostSti
<1>10. PICK g, used : Accounts(g, used) /\ pool'.used = used \ {} /\ PassedOn(f, p, g)
  BY <1>0, <1>1, <1>7, <1>8, <1>9, AccountPost
<1>11. g[InHeld(1)] = Nth(held', 1) /\ g[InHeld(2)] = Nth(held', 2)
  <2>1. /\ g[InHeld(1)] = (IF n = 1 THEN NBufs ELSE f[InHeld(1)])
        /\ g[InHeld(2)] = (IF n = 2 THEN NBufs ELSE f[InHeld(2)])
    BY <1>6, <1>10, PlacesAre, PlacesApart DEF PassedOn
  <2>2. f[InHeld(1)] = Nth(held, 1) /\ f[InHeld(2)] = Nth(held, 2)
    BY <1>1 DEF View
  <2>3. CASE n = 1
    BY <1>3, <1>4, <2>1, <2>2, <2>3 DEF Nth
  <2>4. CASE n = 2
    <3>1. held'[1] = held[1]
      BY <1>4, <2>4
    <3>2. QED
      BY <1>3, <1>4, <2>1, <2>2, <2>4, <3>1 DEF Nth
  <2>5. QED
    BY <2>3, <2>4
<1>12. /\ g[InOut(1)] = f[InOut(1)] /\ g[InOut(2)] = f[InOut(2)]
       /\ g[InJob(1)] = f[InJob(1)] /\ g[InJob(2)] = f[InJob(2)]
  BY <1>6, <1>10, PlacesAre, PlacesApart DEF PassedOn
<1>13. View(g, dev', held', out', job')
  BY <1>1, <1>9, <1>10, <1>11, <1>12 DEF View, PassedOn
<1>14. Accounts(g, pool'.used)
  <2>1. used \ {} = used
    OBVIOUS
  <2>2. QED
    BY <1>10, <2>1
<1>15. QED
  BY <1>13, <1>14 DEF Accounted

LEMMA AccountClaim ==
  ASSUME IInv, Accounted, ClaimIsFree, Claim
  PROVE  Accounted'
<1>0. TypeOK /\ MainControl
  BY DEF IInv
<1>1. PICK f : View(f, dev, held, out, job) /\ Accounts(f, pool.used)
  BY DEF Accounted
<1>2. held \in Seq(R!Bufs) /\ cand \in R!Bufs /\ pool \in R!Pools /\ cand \notin pool.used
  BY <1>0 DEF TypeOK, Claim, At, ClaimIsFree
<1>3. PICK n \in {1, 2} : n = Len(held) + 1
  <2>1. PICK m \in Nat : m = Len(held)
    BY <1>2
  <2>2. m <= 1
    BY <1>0, <2>1 DEF Claim, At, MainControl
  <2>3. m + 1 \in {1, 2}
    BY <2>2
  <2>4. QED
    BY <2>1, <2>3
<1>4. /\ held' = Append(held, cand) /\ pool'.used = pool.used \cup {cand}
      /\ UNCHANGED <<dev, out, job>>
  BY <1>2 DEF Claim, R!Pools
<1>5. Len(held') = n /\ (\A k \in 1 .. n - 1 : held'[k] = held[k]) /\ held'[n] = cand
  BY <1>2, <1>3, <1>4, AppendIs
<1>6. PICK p \in Places : p = InHeld(n)
  BY PlacesAre
<1>7. f[p] = NBufs
  BY <1>1, <1>2, <1>3, <1>6 DEF View, Nth
<1> DEFINE g == [f EXCEPT ![p] = cand]
<1>8. Accounts(g, pool.used \cup {cand})
  BY <1>1, <1>2, <1>7, Gets
<1>9. g[p] = cand /\ \A q \in Places : q # p => g[q] = f[q]
  BY <1>1 DEF Accounts
<1> HIDE DEF g
<1>10. g[InHeld(1)] = Nth(held', 1) /\ g[InHeld(2)] = Nth(held', 2)
  <2>1. f[InHeld(1)] = Nth(held, 1) /\ f[InHeld(2)] = Nth(held, 2)
    BY <1>1 DEF View
  <2>2. CASE n = 1
    BY <1>2, <1>3, <1>5, <1>6, <1>9, <2>1, <2>2, PlacesAre, PlacesApart DEF Nth
  <2>3. CASE n = 2
    <3>1. held'[1] = held[1]
      BY <1>5, <2>3
    <3>2. QED
      BY <1>2, <1>3, <1>5, <1>6, <1>9, <2>1, <2>3, <3>1, PlacesAre, PlacesApart DEF Nth
  <2>4. QED
    BY <2>2, <2>3
<1>11. /\ \A i \in 0 .. NTx - 1 : g[InTx(i)] = f[InTx(i)]
       /\ \A i \in 0 .. NRx - 1 : g[InRx(i)] = f[InRx(i)]
       /\ g[InOut(1)] = f[InOut(1)] /\ g[InOut(2)] = f[InOut(2)]
       /\ g[InJob(1)] = f[InJob(1)] /\ g[InJob(2)] = f[InJob(2)]
  BY <1>6, <1>9, PlacesAre, PlacesApart
<1>12. View(g, dev', held', out', job')
  BY <1>1, <1>4, <1>10, <1>11 DEF View
<1>13. QED
  BY <1>4, <1>8, <1>12 DEF Accounted

LEMMA AccountDrop ==
  ASSUME IInv, Accounted, Drop
  PROVE  Accounted'
<1>0. TypeOK /\ MainControl
  BY DEF IInv
<1>1. PICK f : View(f, dev, held, out, job) /\ Accounts(f, pool.used)
  BY DEF Accounted
<1>2. held \in Seq(R!Bufs) /\ Len(held) = 1 /\ pool \in R!Pools
  BY <1>0 DEF TypeOK, Drop, At, MainControl
<1>3. /\ held' = <<>> /\ pool'.used = pool.used \ {held[1]} /\ UNCHANGED <<dev, out, job>>
  BY <1>2 DEF Drop, R!Free, R!Pools
<1>4. PICK p \in Places : p = InHeld(1)
  BY PlacesAre
<1>5. f[p] = held[1] /\ f[InHeld(2)] = NBufs
  BY <1>1, <1>2, <1>4 DEF View, Nth
<1> DEFINE S == {p}
           g == [q \in Places |-> IF q \in S THEN NBufs ELSE f[q]]
<1>6. Accounts(g, pool.used \ {f[q] : q \in S})
  BY <1>1, Leaves
<1>7. pool.used \ {f[q] : q \in S} = pool'.used
  BY <1>3, <1>5
<1>8. \A q \in Places : g[q] = IF q = p THEN NBufs ELSE f[q]
  OBVIOUS
<1> HIDE DEF g, S
<1>9. g[InHeld(1)] = Nth(held', 1) /\ g[InHeld(2)] = Nth(held', 2)
  BY <1>3, <1>4, <1>5, <1>8, PlacesAre, PlacesApart DEF Nth
<1>10. /\ \A i \in 0 .. NTx - 1 : g[InTx(i)] = f[InTx(i)]
       /\ \A i \in 0 .. NRx - 1 : g[InRx(i)] = f[InRx(i)]
       /\ g[InOut(1)] = f[InOut(1)] /\ g[InOut(2)] = f[InOut(2)]
       /\ g[InJob(1)] = f[InJob(1)] /\ g[InJob(2)] = f[InJob(2)]
  BY <1>4, <1>8, PlacesAre, PlacesApart
<1>11. View(g, dev', held', out', job')
  BY <1>1, <1>3, <1>9, <1>10 DEF View
<1>12. QED
  BY <1>6, <1>7, <1>11 DEF Accounted

LEMMA AccountMain ==
  ASSUME IInv, Accounted, ClaimIsFree, Main
  PROVE  Accounted'
<1>0. TypeOK /\ DevOK
  BY DEF IInv
<1>1. CASE Start \/ Pick \/ Test \/ Lookup
  BY <1>1, AccountSame DEF Start, Pick, Test, Lookup, SameTx, SameRx
<1>2. CASE Advance
  <2>1. pool'.used = pool.used
    BY <1>0, <1>2 DEF Advance, TypeOK, R!Pools
  <2>2. QED
    BY <1>2, <2>1, AccountSame DEF Advance, SameTx, SameRx
<1>3. CASE Cli
  BY <1>0, <1>3, AccountReclaim DEF Cli
<1>4. QED
  BY <1>1, <1>2, <1>3, AccountClaim, AccountPostSti, AccountDrop DEF Main

LEMMA AccountTake ==
  ASSUME IInv, Accounted, Take
  PROVE  Accounted'
<1>0. TypeOK /\ DevOK /\ pool \in R!Pools
  BY DEF IInv, TypeOK
<1>1. PICK f : View(f, dev, held, out, job) /\ Accounts(f, pool.used)
  BY DEF Accounted
<1>2. Busy = FALSE
  <2>1. On("ring")
    BY DEF Take
  <2>2. QED
    BY <2>1, OnIs, BusyType
<1>3. job.skb = NBufs /\ job.new = NBufs
  BY <1>2, Sizes DEF Busy, NoJob
<1>4. PICK b \in R!Bufs : b = R!Found(pool) /\ b \notin pool.used /\ pool'.used = pool.used \cup {b}
  BY <1>0, FoundIs DEF Take
<1>5. SameTx
  BY <1>0, <1>2, TakeSkbs
<1>6. PICK r \in 0 .. NRx - 1 :
        /\ job'.skb = dev.rx[r].skb /\ dev.rx[r].skb \in R!Bufs
        /\ \A i \in 0 .. NRx - 1 : dev'.rx[i].skb = IF i = r THEN NBufs ELSE dev.rx[i].skb
  BY <1>0, <1>2, TakeSkbs
<1>7. job'.new = b /\ UNCHANGED <<held, out>>
  BY <1>4 DEF Take, main
<1>8. PICK p \in Places : p = InRx(r)
  BY PlacesAre
<1>9. PICK q \in Places : q = InJob(1)
  BY PlacesAre
<1>10. PICK t \in Places : t = InJob(2)
  BY PlacesAre
<1>11. p # q /\ p # t /\ q # t
  BY <1>8, <1>9, <1>10, PlacesApart
<1>12. f \in [Places -> Held] /\ f[q] = NBufs /\ f[t] = NBufs /\ f[p] = job'.skb
  BY <1>1, <1>3, <1>6, <1>8, <1>9, <1>10 DEF View, Accounts
<1> DEFINE g == [f EXCEPT ![p] = NBufs, ![q] = f[p]]
<1>13. Accounts(g, pool.used)
  BY <1>1, <1>11, <1>12, Moves
<1>14. /\ g[p] = NBufs /\ g[q] = job'.skb /\ g[t] = NBufs
       /\ \A x \in Places : x # p /\ x # q => g[x] = f[x]
  BY <1>11, <1>12
<1> HIDE DEF g
<1> DEFINE h == [g EXCEPT ![t] = b]
<1>15. Accounts(h, pool.used \cup {b})
  BY <1>4, <1>13, <1>14, Gets
<1>16. /\ h[p] = NBufs /\ h[q] = job'.skb /\ h[t] = b
       /\ \A x \in Places : x # p /\ x # q /\ x # t => h[x] = f[x]
  BY <1>11, <1>13, <1>14 DEF Accounts
<1> HIDE DEF h
<1>17. \A i \in 0 .. NRx - 1 : h[InRx(i)] = dev'.rx[i].skb
  <2>1. \A i \in 0 .. NRx - 1 : InRx(i) # q /\ InRx(i) # t /\ (i # r => InRx(i) # p)
    BY <1>8, <1>9, <1>10, PlacesApart
  <2>2. \A i \in 0 .. NRx - 1 : f[InRx(i)] = dev.rx[i].skb
    BY <1>1 DEF View
  <2>3. QED
    BY <1>6, <1>8, <1>16, <2>1, <2>2, PlacesAre
<1>18. \A i \in 0 .. NTx - 1 : h[InTx(i)] = dev'.tx[i].skb
  <2>1. \A i \in 0 .. NTx - 1 : InTx(i) # q /\ InTx(i) # t /\ InTx(i) # p
    BY <1>8, <1>9, <1>10, PlacesApart
  <2>2. \A i \in 0 .. NTx - 1 : f[InTx(i)] = dev.tx[i].skb
    BY <1>1 DEF View
  <2>3. QED
    BY <1>5, <1>16, <2>1, <2>2, PlacesAre DEF SameTx
<1>19. /\ h[InHeld(1)] = f[InHeld(1)] /\ h[InHeld(2)] = f[InHeld(2)]
       /\ h[InOut(1)] = f[InOut(1)] /\ h[InOut(2)] = f[InOut(2)]
  BY <1>8, <1>9, <1>10, <1>16, PlacesAre, PlacesApart
<1>20. View(h, dev', held', out', job')
  BY <1>1, <1>7, <1>9, <1>10, <1>16, <1>17, <1>18, <1>19 DEF View
<1>21. QED
  BY <1>4, <1>15, <1>20 DEF Accounted

LEMMA AccountRcv ==
  ASSUME IInv, Accounted, eth_rcv
  PROVE  Accounted'
<1>0. TypeOK /\ DevOK /\ pool \in R!Pools /\ known \in BOOLEAN
  BY DEF IInv, TypeOK
<1>1. PICK f : View(f, dev, held, out, job) /\ Accounts(f, pool.used)
  BY DEF Accounted
<1>2. out = <<>> /\ UNCHANGED <<dev, held, job>>
  <2>1. On("rcv")
    BY DEF eth_rcv
  <2>2. QED
    BY <2>1, OnIs DEF eth_rcv, main
<1>3. PICK p \in Places : p = InOut(1)
  BY PlacesAre
<1>4. PICK q \in Places : q = InOut(2)
  BY PlacesAre
<1>5. p # q /\ f[p] = NBufs /\ f[q] = NBufs
  BY <1>1, <1>2, <1>3, <1>4, PlacesApart DEF View, Nth
<1>6. ASSUME NEW g, NEW x, NEW y, Accounts(g, pool'.used), g[p] = x, g[q] = y,
             Nth(out', 1) = x, Nth(out', 2) = y,
             \A z \in Places : z # p /\ z # q => g[z] = f[z]
      PROVE  Accounted'
  <2>1. /\ \A i \in 0 .. NTx - 1 : g[InTx(i)] = f[InTx(i)]
        /\ \A i \in 0 .. NRx - 1 : g[InRx(i)] = f[InRx(i)]
        /\ g[InHeld(1)] = f[InHeld(1)] /\ g[InHeld(2)] = f[InHeld(2)]
        /\ g[InJob(1)] = f[InJob(1)] /\ g[InJob(2)] = f[InJob(2)]
    BY <1>3, <1>4, <1>6, PlacesAre, PlacesApart
  <2>2. View(g, dev', held', out', job')
    BY <1>1, <1>2, <1>3, <1>4, <1>6, <2>1 DEF View
  <2>3. QED
    BY <1>6, <2>2 DEF Accounted
<1>7. ASSUME NEW n \in {1, 2}, Answers(n) PROVE Accounted'
  <2>1. /\ R!CanAlloc(pool, 1)
        /\ n = 1 => pool' = R!Alloc(pool) /\ out' = <<R!Found(pool)>>
        /\ n = 2 => /\ pool' = R!Alloc(R!Alloc(pool)) /\ out' = <<R!Found(pool), R!Found(R!Alloc(pool))>>
                    /\ R!CanAlloc(R!Alloc(pool), 1)
    BY <1>0, <1>7, AnswersIs
  <2>2. PICK b \in R!Bufs : /\ b = R!Found(pool) /\ b \notin pool.used
                            /\ R!Alloc(pool) \in R!Pools /\ R!Alloc(pool).used = pool.used \cup {b}
    BY <1>0, <2>1, FoundIs
  <2> DEFINE g == [f EXCEPT ![p] = b]
  <2>3. Accounts(g, pool.used \cup {b})
    BY <1>1, <1>5, <2>2, Gets
  <2>4. g[p] = b /\ g[q] = NBufs /\ \A z \in Places : z # p => g[z] = f[z]
    BY <1>1, <1>5 DEF Accounts
  <2> HIDE DEF g
  <2>5. CASE n = 1
    <3>1. out' = <<b>> /\ Accounts(g, pool'.used)
      BY <2>1, <2>2, <2>3, <2>5
    <3>2. Nth(out', 1) = b /\ Nth(out', 2) = NBufs
      BY <3>1 DEF Nth
    <3>3. QED
      BY <1>6, <2>4, <3>1, <3>2
  <2>6. CASE n = 2
    <3>1. PICK w : w = R!Alloc(pool)
      OBVIOUS
    <3>2. PICK c \in R!Bufs : /\ c = R!Found(w) /\ c \notin w.used /\ pool'.used = w.used \cup {c}
      BY <2>1, <2>2, <2>6, <3>1, FoundIs
    <3>3. out' = <<b, c>> /\ w.used = pool.used \cup {b}
      BY <2>1, <2>2, <2>6, <3>1, <3>2
    <3> DEFINE h == [g EXCEPT ![q] = c]
    <3>4. Accounts(h, w.used \cup {c})
      BY <2>3, <2>4, <3>2, <3>3, Gets
    <3>5. h[p] = b /\ h[q] = c /\ \A z \in Places : z # p /\ z # q => h[z] = f[z]
      BY <1>5, <2>3, <2>4 DEF Accounts
    <3> HIDE DEF h
    <3>6. Nth(out', 1) = b /\ Nth(out', 2) = c
      BY <3>3 DEF Nth
    <3>7. QED
      BY <1>6, <3>2, <3>4, <3>5, <3>6
  <2>7. QED
    BY <1>7, <2>5, <2>6
<1>8. CASE Answers(1)
  BY <1>7, <1>8
<1>9. CASE Answers(IF known THEN 1 ELSE 2)
  <2>1. (IF known THEN 1 ELSE 2) \in {1, 2}
    OBVIOUS
  <2>2. QED
    BY <1>7, <1>9, <2>1
<1>10. CASE UNCHANGED <<pool, out>>
  BY <1>2, <1>10, AccountSame DEF SameTx, SameRx
<1>11. QED
  BY <1>8, <1>9, <1>10 DEF eth_rcv

LEMMA AccountAnswerSti ==
  ASSUME IInv, Accounted, AnswerSti
  PROVE  Accounted'
<1>0. TypeOK /\ DevOK
  BY DEF IInv
<1>1. PICK f : View(f, dev, held, out, job) /\ Accounts(f, pool.used)
  BY DEF Accounted
<1>2. out \in Seq(R!Bufs) /\ out # <<>>
  <2>1. On("post")
    BY DEF AnswerSti
  <2>2. QED
    BY <1>0, <2>1, OnIs DEF TypeOK
<1>3. PICK n \in {1, 2} : n = Len(out)
  <2>1. PICK m \in Nat : m = Len(out)
    BY <1>2
  <2>2. m <= 2
    BY <1>0, <2>1 DEF TypeOK
  <2>3. m # 0
    BY <1>2, <2>1
  <2>4. m \in {1, 2}
    BY <2>2, <2>3
  <2>5. QED
    BY <2>1, <2>4
<1>4. /\ Front(out) \in Seq(R!Bufs) /\ Len(Front(out)) = n - 1
      /\ \A k \in 1 .. n - 1 : Front(out)[k] = out[k]
      /\ Last(out) = out[n] /\ Last(out) \in R!Bufs
  <2>1. Len(out) > 0
    BY <1>3
  <2>2. /\ Front(out) \in Seq(R!Bufs) /\ Len(Front(out)) = Len(out) - 1
        /\ \A k \in 1 .. Len(out) - 1 : Front(out)[k] = out[k]
        /\ Last(out) = out[Len(out)] /\ Last(out) \in R!Bufs
    BY <1>2, <2>1, FrontIs
  <2>3. QED
    BY <1>3, <2>2
<1>5. PICK b \in R!Bufs : b = Last(out) /\ b = out[n]
  BY <1>4
<1>6. PICK done : done = ToSet(Front(out))
  OBVIOUS
<1>7. (n = 1 => done = {}) /\ (n = 2 => done = {out[1]})
  <2>1. PICK s \in Seq(R!Bufs) : s = Front(out) /\ Len(s) = n - 1
    BY <1>4
  <2>2. done = {s[k] : k \in 1 .. n - 1}
    BY <1>6, <2>1 DEF ToSet
  <2>3. CASE n = 1
    BY <2>2, <2>3
  <2>4. CASE n = 2
    <3>1. s[1] = out[1]
      BY <1>4, <2>1, <2>4
    <3>2. 1 .. n - 1 = {1}
      BY <2>4
    <3>3. QED
      BY <2>2, <2>4, <3>1, <3>2
  <2>5. QED
    BY <2>3, <2>4
<1>8. PICK p \in Places : p = InOut(n)
  BY PlacesAre
<1>9. \A i : p # InTx(i) /\ p # InRx(i)
  BY <1>8, PlacesApart
<1>10. f[p] = b /\ f[InOut(1)] = out[1] /\ (n = 1 => f[InOut(2)] = NBufs)
  BY <1>1, <1>3, <1>5, <1>8 DEF View, Nth
<1>11. Post(b, done) /\ out' = <<>> /\ UNCHANGED <<held, job>>
  BY <1>5, <1>6 DEF AnswerSti, main
<1>12. PICK g, used : Accounts(g, used) /\ pool'.used = used \ done /\ PassedOn(f, p, g)
  BY <1>0, <1>1, <1>9, <1>10, <1>11, AccountPost
<1>13. \A q \in Places : (\A i : q # InTx(i)) => g[q] = IF q = p THEN NBufs ELSE f[q]
  BY <1>12 DEF PassedOn
<1>14. PICK S \in SUBSET Places : S = IF n = 1 THEN {} ELSE {InOut(1)}
  BY PlacesAre
<1> DEFINE h == [q \in Places |-> IF q \in S THEN NBufs ELSE g[q]]
<1>15. {g[q] : q \in S} = done
  <2>1. CASE n = 1
    BY <1>7, <1>14, <2>1
  <2>2. CASE n = 2
    <3>1. g[InOut(1)] = out[1]
      BY <1>8, <1>10, <1>13, <2>2, PlacesAre, PlacesApart
    <3>2. QED
      BY <1>7, <1>14, <2>2, <3>1
  <2>3. QED
    BY <2>1, <2>2
<1>16. Accounts(h, used \ {g[q] : q \in S})
  BY <1>12, Leaves
<1>17. \A q \in Places : h[q] = IF q \in S THEN NBufs ELSE g[q]
  OBVIOUS
<1> HIDE DEF h
<1>18. \A q : q # InOut(1) => q \notin S
  BY <1>14
<1>19. h[InOut(1)] = NBufs /\ h[InOut(2)] = NBufs
  BY <1>8, <1>10, <1>13, <1>14, <1>17, PlacesAre, PlacesApart
<1>20. /\ \A i \in 0 .. NTx - 1 : h[InTx(i)] = dev'.tx[i].skb
       /\ \A i \in 0 .. NRx - 1 : h[InRx(i)] = dev'.rx[i].skb
  BY <1>12, <1>17, <1>18, PlacesAre, PlacesApart DEF PassedOn
<1>21. /\ h[InHeld(1)] = f[InHeld(1)] /\ h[InHeld(2)] = f[InHeld(2)]
       /\ h[InJob(1)] = f[InJob(1)] /\ h[InJob(2)] = f[InJob(2)]
  BY <1>8, <1>13, <1>17, <1>18, PlacesAre, PlacesApart
<1>22. View(h, dev', held', out', job')
  <2>1. Nth(out', 1) = NBufs /\ Nth(out', 2) = NBufs
    BY <1>11 DEF Nth
  <2>2. QED
    BY <1>1, <1>11, <1>19, <1>20, <1>21, <2>1 DEF View
<1>23. QED
  BY <1>12, <1>15, <1>16, <1>22 DEF Accounted

LEMMA AccountRepost ==
  ASSUME IInv, Accounted, Repost
  PROVE  Accounted'
<1>0. TypeOK /\ DevOK /\ pool \in R!Pools /\ HandlerControl
  BY DEF IInv, TypeOK
<1>1. PICK f : View(f, dev, held, out, job) /\ Accounts(f, pool.used)
  BY DEF Accounted
<1>2. Busy = TRUE
  <2>1. On("repost")
    BY DEF Repost
  <2>2. QED
    BY <2>1, OnIs, BusyType
<1>3. job.skb \in R!Bufs /\ job.new \in R!Bufs
  BY <1>0, <1>2 DEF HandlerControl
<1>4. /\ pool'.used = pool.used \ {job.skb} /\ UNCHANGED <<held, out>> /\ job' = NoJob
  BY <1>0 DEF Repost, R!Free, R!Pools, main
<1>5. job'.skb = NBufs /\ job'.new = NBufs
  BY <1>4, Sizes DEF NoJob
<1>6. SameTx
  BY <1>0, <1>2, <1>3, RepostSkbs
<1>7. PICK r \in 0 .. NRx - 1 :
        /\ dev.rx[r].skb = NBufs
        /\ \A i \in 0 .. NRx - 1 : dev'.rx[i].skb = IF i = r THEN job.new ELSE dev.rx[i].skb
  BY <1>0, <1>2, <1>3, RepostSkbs
<1>8. PICK p \in Places : p = InJob(1)
  BY PlacesAre
<1>9. PICK q \in Places : q = InJob(2)
  BY PlacesAre
<1>10. PICK t \in Places : t = InRx(r)
  BY PlacesAre
<1>11. p # q /\ p # t /\ q # t
  BY <1>8, <1>9, <1>10, PlacesApart
<1>12. f[p] = job.skb /\ f[q] = job.new /\ f[t] = NBufs
  BY <1>1, <1>7, <1>8, <1>9, <1>10 DEF View
<1> DEFINE S == {p}
           g == [x \in Places |-> IF x \in S THEN NBufs ELSE f[x]]
<1>13. Accounts(g, pool.used \ {f[x] : x \in S})
  BY <1>1, Leaves
<1>14. pool.used \ {f[x] : x \in S} = pool'.used
  BY <1>4, <1>12
<1>15. \A x \in Places : g[x] = IF x = p THEN NBufs ELSE f[x]
  OBVIOUS
<1> HIDE DEF S, g
<1>16. g \in [Places -> Held] /\ g[p] = NBufs /\ g[q] = job.new /\ g[t] = NBufs
  BY <1>11, <1>12, <1>13, <1>15 DEF Accounts
<1> DEFINE h == [g EXCEPT ![q] = NBufs, ![t] = g[q]]
<1>17. Accounts(h, pool.used \ {f[x] : x \in S})
  BY <1>11, <1>13, <1>16, Moves
<1>18. /\ h[p] = NBufs /\ h[q] = NBufs /\ h[t] = job.new
       /\ \A x \in Places : x # p /\ x # q /\ x # t => h[x] = f[x]
  BY <1>11, <1>15, <1>16
<1> HIDE DEF h
<1>19. \A i \in 0 .. NRx - 1 : h[InRx(i)] = dev'.rx[i].skb
  <2>1. \A i \in 0 .. NRx - 1 : InRx(i) # p /\ InRx(i) # q /\ (i # r => InRx(i) # t)
    BY <1>8, <1>9, <1>10, PlacesApart
  <2>2. \A i \in 0 .. NRx - 1 : f[InRx(i)] = dev.rx[i].skb
    BY <1>1 DEF View
  <2>3. QED
    BY <1>7, <1>10, <1>18, <2>1, <2>2, PlacesAre
<1>20. \A i \in 0 .. NTx - 1 : h[InTx(i)] = dev'.tx[i].skb
  <2>1. \A i \in 0 .. NTx - 1 : InTx(i) # p /\ InTx(i) # q /\ InTx(i) # t
    BY <1>8, <1>9, <1>10, PlacesApart
  <2>2. \A i \in 0 .. NTx - 1 : f[InTx(i)] = dev.tx[i].skb
    BY <1>1 DEF View
  <2>3. QED
    BY <1>6, <1>18, <2>1, <2>2, PlacesAre DEF SameTx
<1>21. /\ h[InHeld(1)] = f[InHeld(1)] /\ h[InHeld(2)] = f[InHeld(2)]
       /\ h[InOut(1)] = f[InOut(1)] /\ h[InOut(2)] = f[InOut(2)]
  BY <1>8, <1>9, <1>10, <1>18, PlacesAre, PlacesApart
<1>22. View(h, dev', held', out', job')
  BY <1>1, <1>4, <1>5, <1>8, <1>9, <1>18, <1>19, <1>20, <1>21 DEF View
<1>23. QED
  BY <1>14, <1>17, <1>22 DEF Accounted

LEMMA AccountHardware ==
  ASSUME IInv, Accounted, Hardware
  PROVE  Accounted'
<1>0. TypeOK /\ DevOK
  BY DEF IInv
<1>1. UNCHANGED <<pool, held, out, job>>
  BY DEF Hardware, Transmit, TransmitSleeps, EntryWritten, Arrive, Software, main
<1>2. SameTx /\ SameRx
  <2>1. CASE IsQdma
    <3>1. ChainOK(dev, Busy)
      BY <1>0, <2>1 DEF DevOK
    <3>2. CASE Transmit
      <4>1. dev' = Q!ChainTransmit(dev) /\ Q!ChainTxMay(dev)
        BY <2>1, <3>2 DEF Transmit
      <4>2. dev'.tx = dev.tx /\ dev'.rx = dev.rx
        BY <3>1, <4>1, BusyType, ChainTransmitOK
      <4>3. QED
        BY <4>2 DEF SameTx, SameRx
    <3>3. CASE EntryWritten
      <4>1. dev' = Q!IrqWrite(dev) /\ Q!IrqLate(dev)
        BY <3>3 DEF EntryWritten
      <4>2. dev'.tx = dev.tx /\ dev'.rx = dev.rx
        BY <3>1, <4>1, BusyType, IrqWriteOK
      <4>3. QED
        BY <4>2 DEF SameTx, SameRx
    <3>4. CASE Arrive
      <4>1. PICK kind \in Kinds : dev' = Q!ChainArrive(dev, kind)
        BY <2>1, <3>4 DEF Arrive
      <4>2. dev'.tx = dev.tx /\ \A i \in 0 .. NRx - 1 : dev'.rx[i].skb = dev.rx[i].skb
        BY <3>1, <4>1, BusyType, ChainArriveOK
      <4>3. QED
        BY <4>2 DEF SameTx, SameRx
    <3>5. QED
      BY <2>1, <3>2, <3>3, <3>4 DEF Hardware, TransmitSleeps
  <2>2. CASE ~IsQdma
    <3>1. RingOK(mac, dev, Busy) /\ mac \in R!RingMacs
      BY <1>0, <2>2, MacIs DEF DevOK
    <3>2. CASE Transmit
      <4>1. dev' = R!RingTransmit(dev) /\ R!TxMay(mac, dev)
        BY <2>2, <3>2 DEF Transmit
      <4>2. dev'.rx = dev.rx /\ \A i \in 0 .. NTx - 1 : dev'.tx[i].skb = dev.tx[i].skb
        BY <3>1, <4>1, BusyType, RingTransmitOK
      <4>3. QED
        BY <4>2 DEF SameTx, SameRx
    <3>3. CASE TransmitSleeps
      <4>1. dev' = [dev EXCEPT !.txDoor = 0] /\ R!TxSleeps(mac, dev)
        BY <3>3 DEF TransmitSleeps
      <4>2. dev'.tx = dev.tx /\ dev'.rx = dev.rx
        BY <3>1, <4>1, BusyType, RingSleepOK
      <4>3. QED
        BY <4>2 DEF SameTx, SameRx
    <3>4. CASE Arrive
      <4>1. PICK kind \in Kinds : dev' = R!RingArrive(mac, dev, kind)
        BY <2>2, <3>4 DEF Arrive
      <4>2. dev'.tx = dev.tx /\ \A i \in 0 .. NRx - 1 : dev'.rx[i].skb = dev.rx[i].skb
        BY <3>1, <4>1, BusyType, RingArriveOK
      <4>3. QED
        BY <4>2 DEF SameTx, SameRx
    <3>5. QED
      BY <2>2, <3>2, <3>3, <3>4 DEF Hardware, EntryWritten
  <2>3. QED
    BY <2>1, <2>2
<1>3. QED
  BY <1>1, <1>2, AccountSame

LEMMA AccountHandler ==
  ASSUME IInv, Accounted, Handler
  PROVE  Accounted'
<1>0. TypeOK /\ DevOK
  BY DEF IInv
<1>1. CASE Discard
  <2>1. Busy = FALSE
    <3>1. On("ring")
      BY <1>1 DEF Discard
    <3>2. QED
      BY <3>1, OnIs, BusyType
  <2>2. SameTx /\ SameRx
    BY <1>0, <1>1, <2>1, DiscardSkbs
  <2>3. QED
    BY <1>1, <2>2, AccountSame DEF Discard, main
<1>2. CASE AnswerCli
  BY <1>0, <1>2, AccountReclaim DEF AnswerCli, main
<1>3. CASE LoopEnds \/ Unmask
  BY <1>3, AccountSame DEF LoopEnds, Unmask, main, SameTx, SameRx
<1>4. CASE Return
  <2>1. SameTx /\ SameRx
    <3>1. CASE IsQdma
      BY <1>4, <3>1 DEF Return, SameTx, SameRx
    <3>2. CASE ~IsQdma
      <4>1. dev' = R!RxPollDemand(mac, dev) /\ RingOK(mac, dev, Busy) /\ mac \in R!RingMacs
        BY <1>0, <1>4, <3>2, MacIs DEF Return, DevOK
      <4>2. dev'.tx = dev.tx /\ dev'.rx = dev.rx
        BY <4>1, BusyType, RingPollOK
      <4>3. QED
        BY <4>2 DEF SameTx, SameRx
    <3>3. QED
      BY <3>1, <3>2
  <2>2. QED
    BY <1>4, <2>1, AccountSame DEF Return, main
<1>5. QED
  BY <1>1, <1>2, <1>3, <1>4, AccountTake, AccountRcv, AccountAnswerSti, AccountRepost DEF Handler

LEMMA AccountStep ==
  ASSUME IInv, Accounted, ClaimIsFree, [Next]_vars
  PROVE  Accounted'
<1>1. CASE mac_interrupt
  BY <1>1, AccountSame DEF mac_interrupt, main, SameTx, SameRx
<1>2. CASE UNCHANGED vars
  BY <1>2, AccountSame DEF vars, main, SameTx, SameRx
<1>3. QED
  BY <1>1, <1>2, AccountMain, AccountHandler, AccountHardware DEF Next

LEMMA AccountInit == ASSUME Init PROVE Accounted
<1>1. held = <<>> /\ out = <<>> /\ job.skb = NBufs /\ job.new = NBufs
  BY Sizes DEF Init, NoJob
<1>2. /\ \A i \in 0 .. NTx - 1 : dev.tx[i].skb = NBufs
      /\ \A i \in 0 .. NRx - 1 : dev.rx[i].skb \in 0 .. NBufs
      /\ \A i, k \in 0 .. NRx - 1 : dev.rx[i].skb = dev.rx[k].skb => i = k
      /\ pool.used \subseteq R!Bufs
      /\ \A b : b \in pool.used <=> b # NBufs /\ \E i \in 0 .. NRx - 1 : dev.rx[i].skb = b
  <2>1. CASE IsQdma
    <3>1. dev = Q!ChainInit /\ pool.used = 0 .. NRx - 2
      BY <2>1 DEF Init, Q!ChainPool
    <3>2. /\ \A i \in 0 .. NTx - 1 : dev.tx[i].skb = NBufs
          /\ \A i \in 0 .. NRx - 1 : dev.rx[i].skb = IF i = NRx - 2 THEN NBufs ELSE Wrap(i + 1, NRx)
      BY <3>1, ChainInitOK
    <3>3. PICK s : s = [i \in 0 .. NRx - 1 |-> IF i = NRx - 2 THEN NBufs ELSE Wrap(i + 1, NRx)]
      OBVIOUS
    <3>4. /\ \A i \in 0 .. NRx - 1 : s[i] \in 0 .. NBufs
          /\ \A i, k \in 0 .. NRx - 1 : s[i] = s[k] => i = k
      BY <3>3, Sizes DEF Wrap
    <3>5. ASSUME NEW b PROVE b \in 0 .. NRx - 2 <=> b # NBufs /\ \E i \in 0 .. NRx - 1 : s[i] = b
      <4>1. ASSUME b \in 0 .. NRx - 2 PROVE b # NBufs /\ \E i \in 0 .. NRx - 1 : s[i] = b
        <5>1. CASE b = 0
          <6>1. NRx - 1 \in 0 .. NRx - 1 /\ s[NRx - 1] = b /\ b # NBufs
            BY <3>3, <5>1, Sizes DEF Wrap
          <6>2. QED
            BY <6>1
        <5>2. CASE b # 0
          <6>1. b - 1 \in 0 .. NRx - 1 /\ s[b - 1] = b /\ b # NBufs
            BY <3>3, <4>1, <5>2, Sizes DEF Wrap
          <6>2. QED
            BY <6>1
        <5>3. QED
          BY <5>1, <5>2
      <4>2. ASSUME b # NBufs, NEW i \in 0 .. NRx - 1, s[i] = b PROVE b \in 0 .. NRx - 2
        BY <3>3, <4>2, Sizes DEF Wrap
      <4>3. QED
        BY <4>1, <4>2
    <3>6. \A i \in 0 .. NRx - 1 : dev.rx[i].skb = s[i]
      BY <3>2, <3>3
    <3>7. 0 .. NRx - 2 \subseteq R!Bufs
      BY Sizes
    <3>8. \A b : b \in pool.used <=> b # NBufs /\ \E i \in 0 .. NRx - 1 : dev.rx[i].skb = b
      BY <3>1, <3>5, <3>6
    <3>9. QED
      BY <3>1, <3>2, <3>4, <3>6, <3>7, <3>8
  <2>2. CASE ~IsQdma
    <3>1. mac \in R!RingMacs /\ dev = R!RingInit(mac) /\ pool.used = 0 .. NRx - 1
      BY <2>2, LoaderNetAssumption, Sizes DEF Init, IsQdma, R!RingPool
    <3>2. dev.tx = R!EmptyTx /\ dev.rx = R!PostedRx
      BY <3>1, RingInitOK
    <3>3. \A i \in 0 .. NTx - 1 : dev.tx[i].skb = NBufs
      BY <3>2, Sizes DEF R!EmptyTx
    <3>4. \A i \in 0 .. NRx - 1 : dev.rx[i].skb = i
      BY <3>2, Sizes DEF R!PostedRx
    <3>5. 0 .. NRx - 1 \subseteq R!Bufs /\ \A i \in 0 .. NRx - 1 : i \in 0 .. NBufs /\ i # NBufs
      BY Sizes
    <3>6. QED
      BY <3>1, <3>3, <3>4, <3>5
  <2>3. QED
    BY <2>1, <2>2
<1> DEFINE f == [p \in Places |-> IF p[1] = "rx" THEN dev.rx[p[2]].skb ELSE NBufs]
<1>3. /\ \A i \in 0 .. NTx - 1 : f[InTx(i)] = NBufs
      /\ \A i \in 0 .. NRx - 1 : f[InRx(i)] = dev.rx[i].skb
      /\ f[InHeld(1)] = NBufs /\ f[InHeld(2)] = NBufs /\ f[InOut(1)] = NBufs /\ f[InOut(2)] = NBufs
      /\ f[InJob(1)] = NBufs /\ f[InJob(2)] = NBufs
  <2>1. \A p \in Places : f[p] = IF p[1] = "rx" THEN dev.rx[p[2]].skb ELSE NBufs
    OBVIOUS
  <2> HIDE DEF f
  <2>2. \A i \in 0 .. NTx - 1 : f[InTx(i)] = NBufs
    BY <2>1, PlacesAre DEF InTx
  <2>3. \A i \in 0 .. NRx - 1 : f[InRx(i)] = dev.rx[i].skb
    BY <2>1, PlacesAre DEF InRx
  <2>4. /\ f[InHeld(1)] = NBufs /\ f[InHeld(2)] = NBufs /\ f[InOut(1)] = NBufs /\ f[InOut(2)] = NBufs
        /\ f[InJob(1)] = NBufs /\ f[InJob(2)] = NBufs
    BY <2>1, PlacesAre DEF InHeld, InOut, InJob
  <2>5. QED
    BY <2>2, <2>3, <2>4
<1>4. DOMAIN f = Places /\ f = [p \in Places |-> f[p]]
  OBVIOUS
<1> HIDE DEF f
<1>5. \A p \in Places : f[p] \in Held /\ (f[p] # NBufs => \E i \in 0 .. NRx - 1 : p = InRx(i))
  <2>1. NBufs \in Held
    BY Sizes DEF Held
  <2>2. QED
    BY <1>2, <1>3, <2>1, PlacesAre DEF Held
<1>6. f \in [Places -> Held]
  BY <1>4, <1>5
<1>7. \A p, q \in Places : f[p] # NBufs /\ f[p] = f[q] => p = q
  BY <1>2, <1>3, <1>5
<1>8. \A b : b \in pool.used <=> b # NBufs /\ \E p \in Places : f[p] = b
  BY <1>2, <1>3, <1>5, PlacesAre
<1>9. Accounts(f, pool.used)
  BY <1>2, <1>6, <1>7, <1>8 DEF Accounts
<1>10. View(f, dev, held, out, job)
  <2>1. /\ Nth(held, 1) = NBufs /\ Nth(held, 2) = NBufs /\ Nth(out, 1) = NBufs /\ Nth(out, 2) = NBufs
    BY <1>1 DEF Nth
  <2>2. QED
    BY <1>1, <1>2, <1>3, <2>1 DEF View
<1>11. QED
  BY <1>9, <1>10 DEF Accounted

(* The buffers in the descriptors, and those the code has, in terms of places. *)
LEMMA HoldsIs ==
  ASSUME NEW f, View(f, dev, held, out, job)
  PROVE  /\ DOMAIN Holds \subseteq {InTx(i) : i \in 0 .. NTx - 1} \cup {InRx(i) : i \in 0 .. NRx - 1}
         /\ \A p \in DOMAIN Holds : Holds[p] = f[p] /\ f[p] # NBufs
         /\ \A i \in 0 .. NTx - 1 : f[InTx(i)] # NBufs => InTx(i) \in DOMAIN Holds
         /\ \A i \in 0 .. NRx - 1 : f[InRx(i)] # NBufs => InRx(i) \in DOMAIN Holds
<1> DEFINE T == {j \in 0 .. NTx - 1 : dev.tx[j].skb # NBufs}
           U == {j \in 0 .. NRx - 1 : dev.rx[j].skb # NBufs}
           D == {<<"tx", i>> : i \in T} \cup {<<"rx", i>> : i \in U}
           h == [p \in D |-> IF p[1] = "tx" THEN dev.tx[p[2]].skb ELSE dev.rx[p[2]].skb]
<1>1. Holds = h
  BY Sizes DEF Holds, Q!ChainHolds, R!RingHolds
<1>2. DOMAIN h = D /\ \A p \in D : h[p] = IF p[1] = "tx" THEN dev.tx[p[2]].skb ELSE dev.rx[p[2]].skb
  OBVIOUS
<1> HIDE DEF h
<1>3. \A i \in T : InTx(i) \in D /\ h[InTx(i)] = dev.tx[i].skb
  BY <1>2 DEF InTx
<1>4. \A i \in U : InRx(i) \in D /\ h[InRx(i)] = dev.rx[i].skb
  BY <1>2 DEF InRx
<1>5. \A p \in D : (\E i \in T : p = InTx(i)) \/ (\E i \in U : p = InRx(i))
  BY DEF InTx, InRx
<1> HIDE DEF D
<1>6. /\ \A i \in 0 .. NTx - 1 : f[InTx(i)] = dev.tx[i].skb
      /\ \A i \in 0 .. NRx - 1 : f[InRx(i)] = dev.rx[i].skb
  BY DEF View
<1>7. \A p \in D : h[p] = f[p] /\ f[p] # NBufs
  BY <1>3, <1>4, <1>5, <1>6
<1>8. D \subseteq {InTx(i) : i \in 0 .. NTx - 1} \cup {InRx(i) : i \in 0 .. NRx - 1}
  BY <1>5
<1>9. /\ \A i \in 0 .. NTx - 1 : f[InTx(i)] # NBufs => InTx(i) \in D
      /\ \A i \in 0 .. NRx - 1 : f[InRx(i)] # NBufs => InRx(i) \in D
  BY <1>3, <1>4, <1>6
<1>10. QED
  BY <1>1, <1>2, <1>7, <1>8, <1>9

CodePlaces == {InHeld(1), InHeld(2), InOut(1), InOut(2), InJob(1), InJob(2)}

\* A sequence lists the buffers in the places of the code.
Lists(f, code) ==
  /\ code \in Seq(R!Bufs)
  /\ \E place \in [1 .. Len(code) -> CodePlaces] :
       /\ \A k \in 1 .. Len(code) : code[k] = f[place[k]]
       /\ \A k, l \in 1 .. Len(code) : place[k] = place[l] => k = l
       /\ \A p \in CodePlaces : f[p] # NBufs => \E k \in 1 .. Len(code) : place[k] = p

LEMMA CodeIs ==
  ASSUME NEW f, NEW h \in Seq(R!Bufs), NEW o \in Seq(R!Bufs), NEW j \in Seq(R!Bufs),
         Len(h) <= 2, Len(o) <= 2, Len(j) <= 2,
         f[InHeld(1)] = Nth(h, 1), f[InHeld(2)] = Nth(h, 2),
         f[InOut(1)] = Nth(o, 1), f[InOut(2)] = Nth(o, 2),
         f[InJob(1)] = Nth(j, 1), f[InJob(2)] = Nth(j, 2)
  PROVE  Lists(f, h \o o \o j)
<1>1. PICK a \in {0, 1, 2} : a = Len(h)
  <2>1. PICK x \in Nat : x = Len(h)
    OBVIOUS
  <2>2. x \in {0, 1, 2}
    BY <2>1
  <2>3. QED
    BY <2>1, <2>2
<1>2. PICK b \in {0, 1, 2} : b = Len(o)
  <2>1. PICK x \in Nat : x = Len(o)
    OBVIOUS
  <2>2. x \in {0, 1, 2}
    BY <2>1
  <2>3. QED
    BY <2>1, <2>2
<1>3. PICK c \in {0, 1, 2} : c = Len(j)
  <2>1. PICK x \in Nat : x = Len(j)
    OBVIOUS
  <2>2. x \in {0, 1, 2}
    BY <2>1
  <2>3. QED
    BY <2>1, <2>2
<1>4. \A t, r \in Seq(R!Bufs) :
         /\ t \o r \in Seq(R!Bufs) /\ Len(t \o r) = Len(t) + Len(r)
         /\ \A k \in 1 .. Len(t) : (t \o r)[k] = t[k]
         /\ \A k \in 1 .. Len(r) : (t \o r)[k + Len(t)] = r[k]
  BY CatIs
<1> DEFINE ho == h \o o
           code == ho \o j
<1>5. /\ ho \in Seq(R!Bufs) /\ Len(ho) = a + b
      /\ \A k \in 1 .. a : ho[k] = h[k]
      /\ \A k \in 1 .. b : ho[k + a] = o[k]
  <2>1. /\ ho \in Seq(R!Bufs) /\ Len(ho) = Len(h) + Len(o)
        /\ \A k \in 1 .. Len(h) : ho[k] = h[k]
        /\ \A k \in 1 .. Len(o) : ho[k + Len(h)] = o[k]
    BY <1>4, Zenon
  <2> HIDE DEF ho
  <2>2. QED
    BY <1>1, <1>2, <2>1
<1> HIDE DEF ho
<1>6. /\ code \in Seq(R!Bufs) /\ Len(code) = (a + b) + c
      /\ \A k \in 1 .. a + b : code[k] = ho[k]
      /\ \A k \in 1 .. c : code[k + (a + b)] = j[k]
  <2>1. /\ code \in Seq(R!Bufs) /\ Len(code) = Len(ho) + Len(j)
        /\ \A k \in 1 .. Len(ho) : code[k] = ho[k]
        /\ \A k \in 1 .. Len(j) : code[k + Len(ho)] = j[k]
    BY <1>4, <1>5, Zenon
  <2> HIDE DEF code
  <2>2. QED
    BY <1>3, <1>5, <2>1
<1> HIDE DEF code
<1>7. /\ \A k \in 1 .. a : code[k] = h[k]
      /\ \A k \in 1 .. b : code[k + a] = o[k]
  <2>1. /\ \A k \in 1 .. a : k \in 1 .. a + b
        /\ \A k \in 1 .. b : k + a \in 1 .. a + b
    OBVIOUS
  <2>2. QED
    BY <1>5, <1>6, <2>1
<1>8. PICK n \in Nat : n = (a + b) + c
  OBVIOUS
<1> DEFINE place == [k \in 1 .. n |-> IF k <= a THEN InHeld(k)
                                      ELSE IF k <= a + b THEN InOut(k - a) ELSE InJob(k - (a + b))]
<1>9. \A k \in 1 .. n :
         \/ k <= a /\ k \in {1, 2} /\ place[k] = InHeld(k)
         \/ ~(k <= a) /\ k <= a + b /\ k - a \in {1, 2} /\ k - a <= b /\ place[k] = InOut(k - a)
         \/ ~(k <= a) /\ ~(k <= a + b) /\ k - (a + b) \in {1, 2} /\ k - (a + b) <= c
            /\ place[k] = InJob(k - (a + b))
  BY <1>8
<1>10. place \in [1 .. n -> CodePlaces]
  <2>1. \A k \in 1 .. n : place[k] \in CodePlaces
    <3> HIDE DEF place
    <3>1. \A k \in {1, 2} : InHeld(k) \in CodePlaces /\ InOut(k) \in CodePlaces /\ InJob(k) \in CodePlaces
      BY DEF CodePlaces
    <3>2. QED
      BY <1>9, <3>1
  <2>2. QED
    BY <2>1
<1> HIDE DEF place
<1>11. ASSUME NEW k \in 1 .. n PROVE code[k] = f[place[k]]
  <2>1. \A i \in {1, 2} : f[InHeld(i)] = Nth(h, i) /\ f[InOut(i)] = Nth(o, i) /\ f[InJob(i)] = Nth(j, i)
    OBVIOUS
  <2>2. CASE k <= a /\ k \in {1, 2} /\ place[k] = InHeld(k)
    <3>1. k \in 1 .. a
      BY <2>2
    <3>2. code[k] = h[k] /\ f[place[k]] = Nth(h, k)
      BY <1>7, <2>1, <2>2, <3>1
    <3>3. Nth(h, k) = h[k]
      BY <1>1, <2>2 DEF Nth
    <3>4. QED
      BY <3>2, <3>3
  <2>3. CASE ~(k <= a) /\ k <= a + b /\ k - a \in {1, 2} /\ k - a <= b /\ place[k] = InOut(k - a)
    <3>1. PICK i \in {1, 2} : i = k - a /\ i \in 1 .. b /\ i + a = k /\ i <= b
      BY <2>3
    <3>2. code[k] = o[i] /\ f[place[k]] = Nth(o, i)
      BY <1>7, <2>1, <2>3, <3>1
    <3>3. Nth(o, i) = o[i]
      BY <1>2, <3>1 DEF Nth
    <3>4. QED
      BY <3>2, <3>3
  <2>4. CASE ~(k <= a) /\ ~(k <= a + b) /\ k - (a + b) \in {1, 2} /\ k - (a + b) <= c
             /\ place[k] = InJob(k - (a + b))
    <3>1. PICK i \in {1, 2} : i = k - (a + b) /\ i \in 1 .. c /\ i + (a + b) = k /\ i <= c
      BY <2>4
    <3>2. code[k] = j[i] /\ f[place[k]] = Nth(j, i)
      BY <1>6, <2>1, <2>4, <3>1
    <3>3. Nth(j, i) = j[i]
      BY <1>3, <3>1 DEF Nth
    <3>4. QED
      BY <3>2, <3>3
  <2>5. QED
    BY <1>9, <2>2, <2>3, <2>4
<1>12. ASSUME NEW k \in 1 .. n, NEW l \in 1 .. n, place[k] = place[l] PROVE k = l
  <2>1. \A x, y : /\ InHeld(x) # InOut(y) /\ InHeld(x) # InJob(y) /\ InOut(x) # InJob(y)
                  /\ InHeld(x) = InHeld(y) => x = y
                  /\ InOut(x) = InOut(y) => x = y
                  /\ InJob(x) = InJob(y) => x = y
    BY DEF InHeld, InOut, InJob
  <2>2. \/ k = l \/ k - a = l - a \/ k - (a + b) = l - (a + b)
    BY <1>9, <1>12, <2>1
  <2>3. QED
    BY <2>2
<1>13. ASSUME NEW p \in CodePlaces, f[p] # NBufs PROVE \E k \in 1 .. n : place[k] = p
  <2>1. PICK i \in {1, 2} : p = InHeld(i) \/ p = InOut(i) \/ p = InJob(i)
    BY DEF CodePlaces
  <2>2. f[InHeld(i)] = Nth(h, i) /\ f[InOut(i)] = Nth(o, i) /\ f[InJob(i)] = Nth(j, i)
    OBVIOUS
  <2>3. CASE p = InHeld(i)
    <3>1. i <= a
      BY <1>1, <1>13, <2>2, <2>3 DEF Nth
    <3>2. i \in 1 .. n /\ place[i] = InHeld(i)
      BY <1>8, <3>1 DEF place
    <3>3. QED
      BY <2>3, <3>2
  <2>4. CASE p = InOut(i)
    <3>1. i <= b
      BY <1>2, <1>13, <2>2, <2>4 DEF Nth
    <3>2. PICK k \in 1 .. n : k = i + a /\ ~(k <= a) /\ k <= a + b /\ k - a = i
      BY <1>8, <3>1
    <3>3. place[k] = InOut(i)
      BY <3>2 DEF place
    <3>4. QED
      BY <2>4, <3>3
  <2>5. CASE p = InJob(i)
    <3>1. i <= c
      BY <1>3, <1>13, <2>2, <2>5 DEF Nth
    <3>2. PICK k \in 1 .. n : k = i + (a + b) /\ ~(k <= a) /\ ~(k <= a + b) /\ k - (a + b) = i
      BY <1>8, <3>1
    <3>3. place[k] = InJob(i)
      BY <3>2 DEF place
    <3>4. QED
      BY <2>5, <3>3
  <2>6. QED
    BY <2>1, <2>3, <2>4, <2>5
<1>14. n = Len(code) /\ code \in Seq(R!Bufs)
  BY <1>6, <1>8
<1>15. Lists(f, code)
  <2>1. /\ place \in [1 .. Len(code) -> CodePlaces]
        /\ \A k \in 1 .. Len(code) : code[k] = f[place[k]]
        /\ \A k, l \in 1 .. Len(code) : place[k] = place[l] => k = l
        /\ \A p \in CodePlaces : f[p] # NBufs => \E k \in 1 .. Len(code) : place[k] = p
    <3> HIDE DEF place
    <3>1. QED
      BY <1>10, <1>11, <1>12, <1>13, <1>14, Zenon
  <2> HIDE DEF place
  <2>2. QED
    BY <1>14, <2>1 DEF Lists
<1>16. QED
  BY <1>15 DEF code, ho

(* The account is the property. *)
LEMMA AccountedIs ==
  ASSUME IInv, Accounted
  PROVE  BuffersAccounted
<1>0. TypeOK /\ HandlerControl
  BY DEF IInv
<1>1. PICK f : View(f, dev, held, out, job) /\ Accounts(f, pool.used)
  BY DEF Accounted
<1>2. PICK h \in Seq(R!Bufs) : h = held /\ Len(h) <= 2
  BY <1>0 DEF TypeOK
<1>3. PICK o \in Seq(R!Bufs) : o = out /\ Len(o) <= 2
  BY <1>0 DEF TypeOK
<1>4. PICK j \in Seq(R!Bufs) : /\ j = IF job = NoJob THEN <<>> ELSE <<job.skb, job.new>>
                               /\ Len(j) <= 2 /\ Nth(j, 1) = job.skb /\ Nth(j, 2) = job.new
  <2>1. CASE job = NoJob
    <3>1. job.skb = NBufs /\ job.new = NBufs
      BY <2>1, Sizes DEF NoJob
    <3>2. <<>> \in Seq(R!Bufs) /\ Len(<<>>) = 0
      OBVIOUS
    <3>3. Nth(<<>>, 1) = NBufs /\ Nth(<<>>, 2) = NBufs
      BY <3>2 DEF Nth
    <3>4. Len(<<>>) <= 2
      BY <3>2
    <3>5. QED
      BY <2>1, <3>1, <3>2, <3>3, <3>4, Zenon
  <2>2. CASE job # NoJob
    <3>1. job.skb \in R!Bufs /\ job.new \in R!Bufs
      BY <1>0, <2>2 DEF HandlerControl, Busy
    <3>2. PICK x \in R!Bufs : x = job.skb
      BY <3>1
    <3>3. PICK y \in R!Bufs : y = job.new
      BY <3>1
    <3>4. <<x, y>> \in Seq(R!Bufs) /\ Len(<<x, y>>) = 2 /\ <<x, y>>[1] = x /\ <<x, y>>[2] = y
      OBVIOUS
    <3>5. Nth(<<x, y>>, 1) = x /\ Nth(<<x, y>>, 2) = y
      BY <3>4 DEF Nth
    <3>6. Len(<<x, y>>) <= 2
      BY <3>4
    <3>7. QED
      BY <2>2, <3>2, <3>3, <3>4, <3>5, <3>6, Zenon
  <2>3. QED
    BY <2>1, <2>2
<1> DEFINE code == h \o o \o j
<1>5. /\ f[InHeld(1)] = Nth(h, 1) /\ f[InHeld(2)] = Nth(h, 2)
      /\ f[InOut(1)] = Nth(o, 1) /\ f[InOut(2)] = Nth(o, 2)
      /\ f[InJob(1)] = Nth(j, 1) /\ f[InJob(2)] = Nth(j, 2)
  BY <1>1, <1>2, <1>3, <1>4 DEF View
<1>6. Lists(f, code)
  BY <1>2, <1>3, <1>4, <1>5, CodeIs
<1> HIDE DEF code
<1>7. PICK place \in [1 .. Len(code) -> CodePlaces] :
         /\ \A k \in 1 .. Len(code) : code[k] = f[place[k]]
         /\ \A k, l \in 1 .. Len(code) : place[k] = place[l] => k = l
         /\ \A p \in CodePlaces : f[p] # NBufs => \E k \in 1 .. Len(code) : place[k] = p
  BY <1>6 DEF Lists
<1>8. /\ f \in [Places -> Held]
      /\ \A p, q \in Places : f[p] # NBufs /\ f[p] = f[q] => p = q
      /\ \A b : b \in pool.used <=> b # NBufs /\ \E p \in Places : f[p] = b
  BY <1>1 DEF Accounts
<1>9. PICK at : at = Holds
  OBVIOUS
<1>10. /\ \A p \in DOMAIN at : /\ p \in Places /\ p \notin CodePlaces
                               /\ at[p] = f[p] /\ f[p] # NBufs
       /\ \A p \in Places : f[p] # NBufs => p \in DOMAIN at \/ p \in CodePlaces
  <2>1. /\ DOMAIN at \subseteq {InTx(i) : i \in 0 .. NTx - 1} \cup {InRx(i) : i \in 0 .. NRx - 1}
        /\ \A p \in DOMAIN at : at[p] = f[p] /\ f[p] # NBufs
        /\ \A i \in 0 .. NTx - 1 : f[InTx(i)] # NBufs => InTx(i) \in DOMAIN at
        /\ \A i \in 0 .. NRx - 1 : f[InRx(i)] # NBufs => InRx(i) \in DOMAIN at
    BY <1>1, <1>9, HoldsIs
  <2>2. \A p \in DOMAIN at : p \in Places /\ p \notin CodePlaces
    <3>1. \A i \in 0 .. NTx - 1 : InTx(i) \in Places /\ InTx(i) \notin CodePlaces
      BY PlacesAre, PlacesApart DEF CodePlaces
    <3>2. \A i \in 0 .. NRx - 1 : InRx(i) \in Places /\ InRx(i) \notin CodePlaces
      BY PlacesAre, PlacesApart DEF CodePlaces
    <3>3. QED
      BY <2>1, <3>1, <3>2
  <2>3. \A p \in Places : f[p] # NBufs => p \in DOMAIN at \/ p \in CodePlaces
    BY <2>1, PlacesAre DEF CodePlaces
  <2>4. QED
    BY <2>1, <2>2, <2>3
<1>11. CodePlaces \subseteq Places
  BY PlacesAre DEF CodePlaces
<1>12. DOMAIN code = 1 .. Len(code) /\ \A k \in 1 .. Len(code) : code[k] # NBufs
  <2>1. code \in Seq(R!Bufs)
    BY <1>6 DEF Lists
  <2>2. \A k \in 1 .. Len(code) : code[k] \in R!Bufs
    BY <2>1
  <2>3. QED
    BY <2>1, <2>2, Sizes
<1>13. IsInjective(at)
  BY <1>8, <1>10 DEF IsInjective
<1>14. IsInjective(code)
  <2> SUFFICES ASSUME NEW k \in 1 .. Len(code), NEW l \in 1 .. Len(code), code[k] = code[l]
               PROVE  k = l
    BY <1>12 DEF IsInjective
  <2>1. place[k] \in Places /\ place[l] \in Places
    BY <1>7, <1>11
  <2>2. f[place[k]] # NBufs /\ f[place[k]] = f[place[l]]
    BY <1>7, <1>12
  <2>3. QED
    BY <1>7, <1>8, <2>1, <2>2
<1>15. Range(at) = {f[p] : p \in DOMAIN at}
  <2>1. \A p \in DOMAIN at : at[p] = f[p]
    BY <1>10
  <2>2. QED
    BY <2>1 DEF Range
<1>16. ToSet(code) = {f[place[k]] : k \in 1 .. Len(code)}
  <2>1. ToSet(code) = {code[k] : k \in 1 .. Len(code)}
    <3>1. DOMAIN code = 1 .. Len(code)
      BY <1>12
    <3>2. QED
      BY <3>1 DEF ToSet
  <2>2. \A k \in 1 .. Len(code) : code[k] = f[place[k]]
    BY <1>7
  <2>3. QED
    BY <2>1, <2>2
<1>17. Range(at) \cap ToSet(code) = {}
  <2> SUFFICES ASSUME NEW p \in DOMAIN at, NEW k \in 1 .. Len(code), f[p] = f[place[k]]
               PROVE  FALSE
    BY <1>15, <1>16
  <2>1. place[k] \in CodePlaces /\ place[k] \in Places
    BY <1>7, <1>11
  <2>2. p = place[k]
    BY <1>8, <1>10, <2>1
  <2>3. QED
    BY <1>10, <2>1, <2>2
<1>18. pool.used = Range(at) \cup ToSet(code)
  <2>1. ASSUME NEW b \in pool.used PROVE b \in Range(at) \cup ToSet(code)
    <3>1. PICK p \in Places : f[p] = b /\ b # NBufs
      BY <1>8, <2>1
    <3>2. CASE p \in DOMAIN at
      BY <1>15, <3>1, <3>2
    <3>3. CASE p \in CodePlaces
      <4>1. PICK k \in 1 .. Len(code) : place[k] = p
        BY <1>7, <3>1, <3>3
      <4>2. QED
        BY <1>16, <3>1, <4>1
    <3>4. QED
      BY <1>10, <3>1, <3>2, <3>3
  <2>2. ASSUME NEW b \in Range(at) PROVE b \in pool.used
    <3>1. PICK p \in DOMAIN at : b = f[p]
      BY <1>15, <2>2
    <3>2. QED
      BY <1>8, <1>10, <3>1
  <2>3. ASSUME NEW b \in ToSet(code) PROVE b \in pool.used
    <3>1. PICK k \in 1 .. Len(code) : b = f[place[k]]
      BY <1>16, <2>3
    <3>2. place[k] \in Places /\ b # NBufs
      BY <1>7, <1>11, <1>12, <3>1
    <3>3. QED
      BY <1>8, <3>1, <3>2
  <2>4. QED
    BY <2>1, <2>2, <2>3
<1>19. code = held \o out \o IF job = NoJob THEN <<>> ELSE <<job.skb, job.new>>
  BY <1>2, <1>3, <1>4, Zenon DEF code
<1>20. QED
  BY <1>9, <1>13, <1>14, <1>17, <1>18, <1>19 DEF BuffersAccounted

(***************************************************************************)
(* No buffer is leaked and none has two owners, whatever the driver, the   *)
(* sizes and the traffic, and wherever the interrupt falls, as long as     *)
(* alloc_skb marks a buffer that is still free.  alloc_skb (skbuff.c) tests *)
(* `used' and sets it in two steps without a lock: this is the one place    *)
(* where the accounts can go wrong, and only by a handler that goes once    *)
(* round the whole table between the two.                                   *)
(***************************************************************************)
THEOREM BuffersAccountedAlways == Spec /\ []ClaimIsFree => []BuffersAccounted
<1>1. Init => Accounted
  BY AccountInit
<1>2. IInv /\ ClaimIsFree /\ Accounted /\ [Next]_vars => Accounted'
  BY AccountStep
<1>3. IInv /\ Accounted => BuffersAccounted
  BY AccountedIs
<1>4. QED
  BY <1>1, <1>2, <1>3, Always, PTL DEF Spec

-----------------------------------------------------------------------------
(* The queue of the buffers to send.  A ring laid out from its oldest       *)
(* descriptor is a line; what is sent and what is not are windows of it.    *)
Line(d) == [k \in 0 .. NTx - 1 |-> d.tx[Wrap(d.txUnReleasedDescp + k, NTx)].skb]
Window(g, a, b) == [i \in 1 .. b - a |-> g[a + i - 1]]

LEMMA WindowIs ==
  ASSUME NEW g \in [0 .. NTx - 1 -> Held], NEW a \in 0 .. NTx, NEW b \in 0 .. NTx, a <= b
  PROVE  /\ Window(g, a, b) \in Seq(Held) /\ Len(Window(g, a, b)) = b - a
         /\ \A i \in 1 .. b - a : Window(g, a, b)[i] = g[a + i - 1]
<1>1. PICK n \in Nat : n = b - a
  BY Sizes
<1>2. \A i \in 1 .. n : a + i - 1 \in 0 .. NTx - 1
  BY <1>1, Sizes
<1>3. Window(g, a, b) = [i \in 1 .. n |-> g[a + i - 1]]
  BY <1>1 DEF Window
<1>4. \A i \in 1 .. n : g[a + i - 1] \in Held
  BY <1>2
<1>5. QED
  BY <1>1, <1>3, <1>4

LEMMA SameSeq ==
  ASSUME NEW S, NEW s \in Seq(S), NEW t \in Seq(S), Len(s) = Len(t),
         \A i \in 1 .. Len(s) : s[i] = t[i]
  PROVE  s = t
OBVIOUS

LEMMA WindowTail ==
  ASSUME NEW g \in [0 .. NTx - 1 -> Held], NEW a \in 0 .. NTx, NEW b \in 0 .. NTx, a < b
  PROVE  /\ Tail(Window(g, a, b)) = Window(g, a + 1, b)
         /\ Head(Window(g, a, b)) = g[a] /\ g[a] \in Held
         /\ Window(g, a, b) # <<>>
<1>0. a + 1 \in 0 .. NTx /\ a + 1 <= b /\ a <= b /\ a \in 0 .. NTx - 1
  BY Sizes
<1>1. /\ Window(g, a, b) \in Seq(Held) /\ Len(Window(g, a, b)) = b - a
      /\ \A i \in 1 .. b - a : Window(g, a, b)[i] = g[a + i - 1]
  BY <1>0, WindowIs
<1>2. /\ Window(g, a + 1, b) \in Seq(Held) /\ Len(Window(g, a + 1, b)) = b - (a + 1)
      /\ \A i \in 1 .. b - (a + 1) : Window(g, a + 1, b)[i] = g[(a + 1) + i - 1]
  BY <1>0, WindowIs
<1>3. PICK w : w = Window(g, a, b)
  OBVIOUS
<1>4. PICK v : v = Window(g, a + 1, b)
  OBVIOUS
<1>5. /\ w \in Seq(Held) /\ Len(w) = b - a /\ v \in Seq(Held) /\ Len(v) = b - a - 1
      /\ \A i \in 1 .. b - a : w[i] = g[a + i - 1]
      /\ \A i \in 1 .. b - a - 1 : v[i] = g[a + i]
  <2>1. b - (a + 1) = b - a - 1 /\ \A i \in 1 .. b - a - 1 : (a + 1) + i - 1 = a + i
    OBVIOUS
  <2>2. QED
    BY <1>1, <1>2, <1>3, <1>4, <2>1
<1>6. Tail(w) = v
  <2>1. PICK t : t = Tail(w)
    OBVIOUS
  <2>2. /\ t \in Seq(Held) /\ Len(t) = Len(w) - 1
        /\ \A k \in 1 .. Len(w) - 1 : t[k] = w[k + 1]
    BY <1>5, <2>1, TailIs
  <2>3. \A i \in 1 .. b - a - 1 : i + 1 \in 1 .. b - a /\ a + (i + 1) - 1 = a + i
    OBVIOUS
  <2>4. Len(t) = Len(v) /\ \A i \in 1 .. Len(t) : t[i] = v[i]
    BY <1>5, <2>2, <2>3
  <2>5. QED
    BY <1>5, <2>1, <2>2, <2>4, SameSeq
<1>7. 1 \in 1 .. b - a /\ a + 1 - 1 = a
  OBVIOUS
<1>8. Head(w) = g[a] /\ w # <<>>
  <2>1. w[1] = g[a]
    BY <1>5, <1>7
  <2>2. w # <<>>
    BY <1>5
  <2>3. QED
    BY <1>5, <2>1, <2>2
<1>9. QED
  BY <1>0, <1>3, <1>4, <1>6, <1>8

LEMMA WindowAppend ==
  ASSUME NEW g \in [0 .. NTx - 1 -> Held], NEW h \in [0 .. NTx - 1 -> Held],
         NEW a \in 0 .. NTx, NEW b \in 0 .. NTx - 1, a <= b,
         \A k \in a .. b - 1 : h[k] = g[k]
  PROVE  /\ Append(Window(g, a, b), h[b]) = Window(h, a, b + 1)
         /\ Window(g, a, b) \o <<h[b]>> = Window(h, a, b + 1)
<1>0. b + 1 \in 0 .. NTx /\ a <= b + 1 /\ b \in 0 .. NTx /\ h[b] \in Held
  BY Sizes
<1>1. /\ Window(g, a, b) \in Seq(Held) /\ Len(Window(g, a, b)) = b - a
      /\ \A i \in 1 .. b - a : Window(g, a, b)[i] = g[a + i - 1]
  BY <1>0, WindowIs
<1>2. /\ Window(h, a, b + 1) \in Seq(Held) /\ Len(Window(h, a, b + 1)) = b + 1 - a
      /\ \A i \in 1 .. b + 1 - a : Window(h, a, b + 1)[i] = h[a + i - 1]
  <2>1. PICK y \in 0 .. NTx : y = b + 1
    BY <1>0
  <2>2. a <= y
    BY <1>0, <2>1
  <2>3. /\ Window(h, a, y) \in Seq(Held) /\ Len(Window(h, a, y)) = y - a
        /\ \A i \in 1 .. y - a : Window(h, a, y)[i] = h[a + i - 1]
    BY <2>2, WindowIs
  <2>4. QED
    BY <2>1, <2>3
<1>3. PICK w : w = Window(g, a, b)
  OBVIOUS
<1>4. PICK v : v = Window(h, a, b + 1)
  OBVIOUS
<1>5. PICK x \in Held : x = h[b]
  BY <1>0
<1>6. PICK t : t = Append(w, x)
  OBVIOUS
<1>7. /\ t \in Seq(Held) /\ Len(t) = b - a + 1 /\ t[b - a + 1] = x
      /\ \A k \in 1 .. b - a : t[k] = w[k]
  BY <1>1, <1>3, <1>5, <1>6, AppendIs
<1>8. ASSUME NEW i \in 1 .. b - a + 1 PROVE t[i] = v[i]
  <2>1. CASE i = b - a + 1
    <3>1. a + i - 1 = b /\ i \in 1 .. b + 1 - a
      BY <2>1
    <3>2. QED
      BY <1>2, <1>4, <1>5, <1>7, <2>1, <3>1
  <2>2. CASE i # b - a + 1
    <3>1. i \in 1 .. b - a /\ a + i - 1 \in a .. b - 1 /\ i \in 1 .. b + 1 - a
      BY <2>2
    <3>2. QED
      BY <1>1, <1>2, <1>3, <1>4, <1>7, <3>1
  <2>3. QED
    BY <2>1, <2>2
<1>9. t = v
  <2>1. b + 1 - a = b - a + 1
    OBVIOUS
  <2>2. Len(v) = Len(t) /\ v \in Seq(Held) /\ \A i \in 1 .. Len(t) : t[i] = v[i]
    BY <1>2, <1>4, <1>7, <1>8, <2>1
  <2>3. QED
    BY <1>7, <2>2, SameSeq
<1>10. w \o <<x>> = t
  BY <1>1, <1>3, <1>5, <1>6
<1>11. QED
  BY <1>3, <1>4, <1>5, <1>6, <1>9, <1>10

Shifted(g, h, a, b, k) == \A j \in a - k .. b - k - 1 : h[j] = g[j + k]

LEMMA WindowSub ==
  ASSUME NEW g \in [0 .. NTx - 1 -> Held], NEW h \in [0 .. NTx - 1 -> Held],
         NEW a \in 0 .. NTx, NEW b \in 0 .. NTx, NEW k \in 0 .. NTx, k <= a, a <= b,
         Shifted(g, h, a, b, k)
  PROVE  Window(h, a - k, b - k) = Window(g, a, b)
<1>0. a - k \in 0 .. NTx /\ b - k \in 0 .. NTx /\ a - k <= b - k /\ (b - k) - (a - k) = b - a
  BY Sizes
<1>1. /\ Window(g, a, b) \in Seq(Held) /\ Len(Window(g, a, b)) = b - a
      /\ \A i \in 1 .. b - a : Window(g, a, b)[i] = g[a + i - 1]
  BY WindowIs
<1>2. /\ Window(h, a - k, b - k) \in Seq(Held) /\ Len(Window(h, a - k, b - k)) = b - a
      /\ \A i \in 1 .. b - a : Window(h, a - k, b - k)[i] = h[(a - k) + i - 1]
  <2>1. PICK x \in 0 .. NTx : x = a - k
    BY <1>0
  <2>2. PICK y \in 0 .. NTx : y = b - k
    BY <1>0
  <2>3. x <= y /\ y - x = b - a
    BY <1>0, <2>1, <2>2
  <2>4. /\ Window(h, x, y) \in Seq(Held) /\ Len(Window(h, x, y)) = y - x
        /\ \A i \in 1 .. y - x : Window(h, x, y)[i] = h[x + i - 1]
    BY <2>3, WindowIs
  <2>5. QED
    BY <2>1, <2>2, <2>3, <2>4
<1>3. PICK w : w = Window(g, a, b)
  OBVIOUS
<1>4. PICK v : v = Window(h, a - k, b - k)
  OBVIOUS
<1>5. ASSUME NEW i \in 1 .. b - a PROVE v[i] = w[i]
  <2>1. (a - k) + i - 1 \in a - k .. b - k - 1 /\ ((a - k) + i - 1) + k = a + i - 1
    OBVIOUS
  <2>2. QED
    BY <1>1, <1>2, <1>3, <1>4, <2>1 DEF Shifted
<1>6. v = w
  BY <1>1, <1>2, <1>3, <1>4, <1>5, SameSeq
<1>7. QED
  BY <1>3, <1>4, <1>6

LEMMA WindowRest ==
  ASSUME NEW g \in [0 .. NTx - 1 -> Held], NEW b \in 0 .. NTx, NEW k \in 0 .. b
  PROVE  SubSeq(Window(g, 0, b), k + 1, b) = Window(g, k, b)
<1>0. 0 \in 0 .. NTx /\ 0 <= b /\ b - 0 = b /\ k \in 0 .. NTx /\ k <= b
  BY Sizes
<1>1. /\ Window(g, 0, b) \in Seq(Held) /\ Len(Window(g, 0, b)) = b
      /\ \A i \in 1 .. b : Window(g, 0, b)[i] = g[i - 1]
  <2>1. /\ Window(g, 0, b) \in Seq(Held) /\ Len(Window(g, 0, b)) = b - 0
        /\ \A i \in 1 .. b - 0 : Window(g, 0, b)[i] = g[0 + i - 1]
    BY <1>0, WindowIs
  <2>2. \A i \in 1 .. b : 0 + i - 1 = i - 1
    OBVIOUS
  <2>3. QED
    BY <1>0, <2>1, <2>2
<1>2. /\ Window(g, k, b) \in Seq(Held) /\ Len(Window(g, k, b)) = b - k
      /\ \A i \in 1 .. b - k : Window(g, k, b)[i] = g[k + i - 1]
  BY <1>0, WindowIs
<1>3. PICK w : w = Window(g, 0, b)
  OBVIOUS
<1>4. PICK v : v = Window(g, k, b)
  OBVIOUS
<1>5. PICK t : t = SubSeq(w, k + 1, b)
  OBVIOUS
<1>6. /\ t \in Seq(Held) /\ Len(t) = b - k
      /\ \A i \in 1 .. b - k : t[i] = w[k + i]
  <2>1. /\ k + 1 \in 1 .. Len(w) + 1 /\ b \in 0 .. Len(w) /\ k + 1 <= b + 1 /\ w \in Seq(Held)
        /\ b + 1 - (k + 1) = b - k
    BY <1>1, <1>3
  <2>2. /\ t \in Seq(Held) /\ Len(t) = b + 1 - (k + 1)
        /\ \A i \in 1 .. b + 1 - (k + 1) : t[i] = w[i + (k + 1) - 1]
    BY <1>5, <2>1, SubIs
  <2>3. \A i \in 1 .. b - k : i + (k + 1) - 1 = k + i
    OBVIOUS
  <2>4. QED
    BY <2>1, <2>2, <2>3
<1>7. \A i \in 1 .. b - k : t[i] = v[i]
  <2> SUFFICES ASSUME NEW i \in 1 .. b - k PROVE t[i] = v[i]
    OBVIOUS
  <2>1. k + i \in 1 .. b
    OBVIOUS
  <2>2. t[i] = g[(k + i) - 1]
    BY <1>1, <1>3, <1>6, <2>1
  <2>3. QED
    BY <1>2, <1>4, <2>2
<1>8. t = v
  BY <1>2, <1>4, <1>6, <1>7, SameSeq
<1>9. QED
  BY <1>3, <1>4, <1>5, <1>8

(* The older MACs: the s oldest descriptors are sent. *)
LEMMA LineIs ==
  ASSUME NEW d \in RingDev
  PROVE  /\ Line(d) \in [0 .. NTx - 1 -> Held]
         /\ \A k \in 0 .. NTx - 1 :
              /\ Wrap(d.txUnReleasedDescp + k, NTx) \in 0 .. NTx - 1
              /\ Line(d)[k] = d.tx[Wrap(d.txUnReleasedDescp + k, NTx)].skb
<1>1. PICK u \in 0 .. NTx - 1 : u = d.txUnReleasedDescp
  BY RingFields
<1>2. PICK t \in TxRing : t = d.tx
  BY RingFields
<1>3. \A k \in 0 .. NTx - 1 : Wrap(u + k, NTx) \in 0 .. NTx - 1
  BY Sizes DEF Wrap
<1>4. \A k \in 0 .. NTx - 1 : t[Wrap(u + k, NTx)].skb \in Held
  BY <1>3 DEF TxRing
<1>5. Line(d) = [k \in 0 .. NTx - 1 |-> t[Wrap(u + k, NTx)].skb]
  BY <1>1, <1>2 DEF Line
<1>6. QED
  BY <1>1, <1>2, <1>3, <1>4, <1>5

LEMMA RingQueue ==
  ASSUME NEW m \in R!RingMacs, NEW d \in RingDev, NEW s \in 0 .. NTx, RingTx(m, d, s)
  PROVE  /\ s <= d.txUnReleasedBufCnt
         /\ R!RingPending(d) = Window(Line(d), s, d.txUnReleasedBufCnt)
         /\ R!RingSpent(d) = Window(Line(d), 0, s)
<1>1. PICK u \in 0 .. NTx - 1 : u = d.txUnReleasedDescp
  BY RingFields
<1>2. PICK n \in 0 .. NTx : n = d.txUnReleasedBufCnt
  BY RingFields
<1>3. PICK head \in 0 .. 2 * NTx - 1 : head = d.txHead
  BY RingFields
<1>4. s <= n /\ Wrap(head, NTx) = Wrap(u + s, NTx)
  BY <1>1, <1>2, <1>3 DEF RingTx, TxPlace
<1>5. R!Cardinality(R!RingOwned(d)) = n - s
  BY <1>2, RingCounts, SameCount
<1>6. R!TxIdx(d) = Wrap(u + s, NTx)
  <2>1. head % NTx = Wrap(head, NTx)
    BY WrapMod, Sizes
  <2>2. QED
    BY <1>3, <1>4, <2>1 DEF R!TxIdx
<1>7. /\ Line(d) \in [0 .. NTx - 1 -> Held]
      /\ \A k \in 0 .. NTx - 1 : Line(d)[k] = d.tx[Wrap(u + k, NTx)].skb
  BY <1>1, LineIs
<1>8. R!RingPending(d) = Window(Line(d), s, n)
  <2>1. ASSUME NEW i \in 1 .. n - s
        PROVE  d.tx[(R!TxIdx(d) + i - 1) % NTx].skb = Line(d)[s + i - 1]
    <3>1. PICK x : x = Wrap(u + s, NTx) + i - 1
      OBVIOUS
    <3>2. x \in 0 .. 2 * NTx - 1 /\ Wrap(x, NTx) = Wrap(u + (s + i - 1), NTx) /\ s + i - 1 \in 0 .. NTx - 1
      BY <1>4, <3>1, Sizes DEF Wrap
    <3>3. x % NTx = Wrap(x, NTx)
      BY <3>2, WrapMod, Sizes
    <3>4. QED
      BY <1>6, <1>7, <3>1, <3>2, <3>3
  <2>2. R!RingPending(d) = [i \in 1 .. n - s |-> d.tx[(R!TxIdx(d) + i - 1) % NTx].skb]
    BY <1>5 DEF R!RingPending
  <2>3. QED
    BY <2>1, <2>2 DEF Window
<1>9. R!RingSpent(d) = Window(Line(d), 0, s)
  <2>1. ASSUME NEW i \in 1 .. s
        PROVE  d.tx[R!TxAt(d, i - 1)].skb = Line(d)[0 + i - 1]
    <3>1. i - 1 \in 0 .. NTx /\ i - 1 \in 0 .. NTx - 1 /\ 0 + i - 1 = i - 1
      BY Sizes
    <3>2. R!TxAt(d, i - 1) = Wrap(u + (i - 1), NTx)
      BY <1>1, <3>1, SentIs
    <3>3. QED
      BY <1>7, <3>1, <3>2
  <2>2. n - (n - s) = s /\ s - 0 = s
    BY <1>4
  <2>3. R!RingSpent(d) = [i \in 1 .. s |-> d.tx[R!TxAt(d, i - 1)].skb]
    BY <1>2, <1>5, <2>2 DEF R!RingSpent
  <2>4. QED
    BY <2>1, <2>2, <2>3 DEF Window
<1>10. QED
  BY <1>2, <1>4, <1>8, <1>9

(* The steps of the queue. *)
Fresh(b, p, z) == (\A i \in 1 .. Len(p) : p[i] # b) /\ (\A i \in 1 .. Len(z) : z[i] # b)
Returned(p, z, p2, z2) ==
  p2 = p /\ \E k \in 0 .. Len(z) : z2 = SubSeq(z, k + 1, Len(z))
Queued(b, p, z, p2, z2) == p2 = p \o <<b>> /\ z2 = z
Sending(p, z, p2, z2) == p # <<>> /\ p2 = Tail(p) /\ z2 = Append(z, Head(p))
Queues(p, z) == p \in Seq(Held) /\ z \in Seq(Held)

LEMMA RingSends ==
  ASSUME NEW m \in R!RingMacs, NEW d, NEW busy \in BOOLEAN, RingOK(m, d, busy), R!TxMay(m, d),
         NEW e, e = R!RingTransmit(d)
  PROVE  Sending(R!RingPending(d), R!RingSpent(d), R!RingPending(e), R!RingSpent(e))
<1>1. d \in RingDev
  BY DEF RingOK
<1>2. PICK s \in 0 .. NTx : RingTx(m, d, s)
  BY DEF RingOK
<1>3. /\ RingOK(m, e, busy) /\ s < d.txUnReleasedBufCnt /\ RingTx(m, e, s + 1)
      /\ \A i \in 0 .. NTx - 1 : e.tx[i].skb = d.tx[i].skb
  BY <1>2, RingTransmitOK
<1>4. /\ e.txUnReleasedDescp = d.txUnReleasedDescp
      /\ e.txUnReleasedBufCnt = d.txUnReleasedBufCnt
  BY <1>1 DEF R!RingTransmit, RingDev
<1>5. PICK n \in 0 .. NTx : n = d.txUnReleasedBufCnt
  BY <1>1, RingFields
<1>6. e \in RingDev
  BY <1>3 DEF RingOK
<1>7. PICK g \in [0 .. NTx - 1 -> Held] : g = Line(d)
  BY <1>1, LineIs
<1>8. Line(e) = g
  BY <1>1, <1>3, <1>4, <1>6, <1>7, LineIs, ZenonT(30) DEF Line
<1>9. s < n /\ s + 1 \in 0 .. NTx /\ s \in 0 .. NTx - 1 /\ 0 <= s /\ 0 \in 0 .. NTx
  BY <1>3, <1>5, Sizes
<1>10. /\ R!RingPending(d) = Window(g, s, n) /\ R!RingSpent(d) = Window(g, 0, s)
  BY <1>1, <1>2, <1>5, <1>7, RingQueue
<1>11. /\ R!RingPending(e) = Window(g, s + 1, n) /\ R!RingSpent(e) = Window(g, 0, s + 1)
  BY <1>3, <1>4, <1>5, <1>6, <1>8, <1>9, RingQueue
<1>12. /\ Tail(Window(g, s, n)) = Window(g, s + 1, n) /\ Head(Window(g, s, n)) = g[s]
       /\ Window(g, s, n) # <<>>
  BY <1>9, WindowTail
<1>13. Append(Window(g, 0, s), g[s]) = Window(g, 0, s + 1)
  BY <1>9, WindowAppend
<1>14. QED
  BY <1>10, <1>11, <1>12, <1>13 DEF Sending

LEMMA RingReturns ==
  ASSUME NEW m \in R!RingMacs, NEW d, NEW busy \in BOOLEAN, RingOK(m, d, busy),
         NEW e, e = R!macTxRingProc(m, d)
  PROVE  Returned(R!RingPending(d), R!RingSpent(d), R!RingPending(e), R!RingSpent(e))
<1>1. d \in RingDev
  BY DEF RingOK
<1>2. PICK s \in 0 .. NTx : RingTx(m, d, s)
  BY DEF RingOK
<1>3. /\ RingOK(m, e, busy)
      /\ \A i \in 0 .. NTx - 1 : e.tx[i].skb = IF i \in R!Gone(m, d) THEN NBufs ELSE d.tx[i].skb
  BY RingReclaimOK
<1>4. PICK k : k = R!Released(m, d)
  OBVIOUS
<1>5. PICK u \in 0 .. NTx - 1 : u = d.txUnReleasedDescp
  BY <1>1, RingFields
<1>6. PICK n \in 0 .. NTx : n = d.txUnReleasedBufCnt
  BY <1>1, RingFields
<1>7. k \in 0 .. s /\ \A i \in 0 .. NTx : R!TxAt(d, i) = Wrap(u + i, NTx)
  BY <1>1, <1>2, <1>4, <1>5, SentIs
<1>8. /\ e.tx = [i \in R!TxSlots |-> IF i \in R!Gone(m, d) THEN [d.tx[i] EXCEPT !.skb = NBufs]
                                      ELSE d.tx[i]]
      /\ e.txUnReleasedDescp = R!TxAt(d, k) /\ e.txUnReleasedBufCnt = n - k
  BY <1>1, <1>4, <1>6, Sizes DEF R!macTxRingProc, RingDev
<1>9. R!RingOwned(e) = R!RingOwned(d)
  <2>1. \A i \in R!TxSlots : e.tx[i].own = d.tx[i].own
    BY <1>1, <1>8, RingFields, Sizes DEF TxRing
  <2>2. QED
    BY <2>1 DEF R!RingOwned
<1>10. e \in RingDev /\ k \in 0 .. NTx /\ e.txUnReleasedDescp = Wrap(u + k, NTx) /\ s <= n
  <2>1. k \in 0 .. NTx
    BY <1>7, Sizes
  <2>2. s <= n
    BY <1>1, <1>2, <1>6, RingQueue
  <2>3. QED
    BY <1>3, <1>7, <1>8, <2>1, <2>2 DEF RingOK
<1>11. PICK t \in 0 .. NTx : RingTx(m, e, t)
  BY <1>3 DEF RingOK
<1>12. t = s - k
  <2>1. Cardinality(R!RingOwned(d)) = n - s
    BY <1>1, <1>2, <1>6, RingCounts
  <2>2. Cardinality(R!RingOwned(e)) = (n - k) - t
    BY <1>8, <1>10, <1>11, RingCounts
  <2>3. QED
    BY <1>7, <1>9, <1>10, <2>1, <2>2
<1>13. PICK g \in [0 .. NTx - 1 -> Held] : g = Line(d)
  BY <1>1, LineIs
<1>14. PICK h \in [0 .. NTx - 1 -> Held] : h = Line(e)
  BY <1>10, LineIs
<1>15. ASSUME NEW j \in 0 .. n - k - 1 PROVE h[j] = g[j + k]
  <2>1. j \in 0 .. NTx - 1 /\ j + k \in 0 .. NTx - 1
    BY <1>7, <1>10, Sizes
  <2>2. PICK i \in 0 .. NTx - 1 : i = Wrap(u + (j + k), NTx)
    BY <1>1, <1>5, <2>1, LineIs
  <2>3. Wrap(Wrap(u + k, NTx) + j, NTx) = i
    BY <1>10, <2>1, <2>2, Sizes DEF Wrap
  <2>4. i \notin R!Gone(m, d)
    <3>1. ASSUME NEW l \in 0 .. k - 1 PROVE i # R!TxAt(d, l)
      <4>1. l \in 0 .. NTx /\ R!TxAt(d, l) = Wrap(u + l, NTx)
        BY <1>7, <1>10, Sizes
      <4>2. Wrap(u + l, NTx) # Wrap(u + (j + k), NTx)
        BY <1>10, <2>1, Sizes DEF Wrap
      <4>3. QED
        BY <2>2, <4>1, <4>2
    <3>2. QED
      BY <1>4, <3>1 DEF R!Gone
  <2>5. h[j] = e.tx[i].skb
    <3>1. PICK x : x = Wrap(u + k, NTx)
      OBVIOUS
    <3>2. h[j] = e.tx[Wrap(x + j, NTx)].skb
      <4>1. e \in RingDev /\ e.txUnReleasedDescp = x
        BY <1>10, <3>1
      <4>2. Line(e)[j] = e.tx[Wrap(e.txUnReleasedDescp + j, NTx)].skb
        BY <2>1, <4>1, LineIs
      <4>3. QED
        BY <1>14, <4>1, <4>2
    <3>3. QED
      BY <2>3, <3>1, <3>2
  <2>6. g[j + k] = d.tx[i].skb
    BY <1>1, <1>5, <1>13, <2>1, <2>2, LineIs
  <2>7. QED
    BY <1>3, <2>2, <2>4, <2>5, <2>6
<1>16. /\ R!RingPending(d) = Window(g, s, n) /\ R!RingSpent(d) = Window(g, 0, s)
  BY <1>1, <1>2, <1>6, <1>13, RingQueue
<1>17. /\ R!RingPending(e) = Window(h, s - k, n - k) /\ R!RingSpent(e) = Window(h, 0, s - k)
  BY <1>8, <1>10, <1>11, <1>12, <1>14, RingQueue
<1>18. Window(h, s - k, n - k) = Window(g, s, n)
  <2>1. k <= s /\ s <= n /\ \A j \in s - k .. n - k - 1 : j \in 0 .. n - k - 1
    BY <1>7, <1>10
  <2>2. Shifted(g, h, s, n, k)
    BY <1>15, <2>1 DEF Shifted
  <2>3. QED
    BY <1>10, <2>1, <2>2, WindowSub
<1>19. Window(h, 0, s - k) = Window(g, k, s)
  <2>1. k <= k /\ k <= s /\ k - k = 0 /\ \A j \in 0 .. s - k - 1 : j \in 0 .. n - k - 1
    BY <1>7, <1>10
  <2>2. Shifted(g, h, k, s, k)
    BY <1>15, <2>1 DEF Shifted
  <2>3. Window(h, k - k, s - k) = Window(g, k, s)
    BY <1>10, <2>1, <2>2, WindowSub
  <2>4. QED
    BY <2>1, <2>3
<1>20. Len(Window(g, 0, s)) = s /\ SubSeq(Window(g, 0, s), k + 1, s) = Window(g, k, s)
  <2>1. 0 \in 0 .. NTx /\ 0 <= s /\ s - 0 = s
    BY Sizes
  <2>2. QED
    BY <1>7, <2>1, WindowIs, WindowRest
<1>21. QED
  BY <1>7, <1>16, <1>17, <1>18, <1>19, <1>20 DEF Returned

LEMMA RingQueues ==
  ASSUME NEW m \in R!RingMacs, NEW d, NEW busy \in BOOLEAN, RingOK(m, d, busy),
         NEW b \in R!Bufs, ~R!TxBlocked(m, d), NEW e, e = R!RingPost(m, d, b)
  PROVE  Queued(b, R!RingPending(d), R!RingSpent(d), R!RingPending(e), R!RingSpent(e))
<1>1. d \in RingDev
  BY DEF RingOK
<1>2. PICK s \in 0 .. NTx : RingTx(m, d, s)
  BY DEF RingOK
<1>3. PICK c \in 0 .. NTx - 1 : c = d.txCurrentDescp
  BY <1>1, RingFields
<1>4. /\ RingOK(m, e, busy) /\ d.tx \in TxRing
      /\ e.tx = [d.tx EXCEPT ![c] = [own |-> TRUE, skb |-> b]]
  BY <1>3, RingPostOK
<1>5. PICK u \in 0 .. NTx - 1 : u = d.txUnReleasedDescp
  BY <1>1, RingFields
<1>6. PICK n \in 0 .. NTx : n = d.txUnReleasedBufCnt
  BY <1>1, RingFields
<1>7. e.txUnReleasedDescp = u /\ e.txUnReleasedBufCnt = n + 1
  BY <1>1, <1>5, <1>6 DEF R!RingPost, RingDev
<1>8. /\ \A i \in 0 .. NTx - 1 : i # c => e.tx[i] = d.tx[i]
      /\ e.tx[c].own = TRUE /\ e.tx[c].skb = b
  <2>1. PICK v : v = [own |-> TRUE, skb |-> b]
    OBVIOUS
  <2>2. v.own = TRUE /\ v.skb = b
    BY <2>1
  <2>3. PICK f \in TxRing : f = d.tx
    BY <1>4
  <2>4. e.tx = [f EXCEPT ![c] = v]
    BY <1>4, <2>1, <2>3
  <2>5. \A i \in 0 .. NTx - 1 : e.tx[i] = IF i = c THEN v ELSE f[i]
    BY <2>4 DEF TxRing
  <2>6. QED
    BY <2>2, <2>3, <2>5
<1>9. e \in RingDev /\ n + 1 \in 0 .. NTx
  <2>1. e \in RingDev
    BY <1>4 DEF RingOK
  <2>2. QED
    BY <1>7, <2>1, RingFields
<1>10. PICK t \in 0 .. NTx : RingTx(m, e, t)
  BY <1>4 DEF RingOK
<1>11. c = Wrap(u + n, NTx) /\ s <= n
  BY <1>2, <1>3, <1>5, <1>6 DEF RingTx, TxPlace
<1>12. t = s
  <2>1. Cardinality(R!RingOwned(d)) = n - s
    BY <1>1, <1>2, <1>6, RingCounts
  <2>2. Cardinality(R!RingOwned(e)) = (n + 1) - t
    BY <1>7, <1>9, <1>10, RingCounts
  <2>3. R!RingOwned(e) = R!RingOwned(d) \cup {c}
    <3>1. \A i \in 0 .. NTx - 1 : e.tx[i].own <=> d.tx[i].own \/ i = c
      BY <1>8
    <3>2. QED
      BY <3>1, Sizes DEF R!RingOwned
  <2>4. c \notin R!RingOwned(d)
    BY <1>3 DEF R!TxBlocked, R!RingOwned
  <2>5. IsFiniteSet(R!RingOwned(d))
    <3>1. R!RingOwned(d) \in SUBSET (0 .. NTx - 1)
      BY Sizes DEF R!RingOwned
    <3>2. IsFiniteSet(0 .. NTx - 1)
      BY FS_Interval, Sizes
    <3>3. QED
      BY <3>1, <3>2, FS_Subset
  <2>6. Cardinality(R!RingOwned(e)) = (n - s) + 1
    <3>1. Cardinality(R!RingOwned(e)) = Cardinality(R!RingOwned(d)) + 1
      BY <2>3, <2>4, <2>5, FS_AddElement
    <3>2. QED
      BY <2>1, <3>1
  <2>7. QED
    BY <1>11, <2>2, <2>6
<1>13. PICK g \in [0 .. NTx - 1 -> Held] : g = Line(d)
  BY <1>1, LineIs
<1>14. PICK h \in [0 .. NTx - 1 -> Held] : h = Line(e)
  BY <1>9, LineIs
<1>15. ASSUME NEW j \in 0 .. n - 1 PROVE h[j] = g[j]
  <2>1. j \in 0 .. NTx - 1
    BY <1>9, Sizes
  <2>2. PICK i \in 0 .. NTx - 1 : i = Wrap(u + j, NTx)
    BY <1>1, <1>5, <2>1, LineIs
  <2>3. i # c
    BY <1>9, <1>11, <2>2, Sizes DEF Wrap
  <2>4. h[j] = e.tx[i].skb
    BY <1>7, <1>9, <1>14, <2>1, <2>2, LineIs
  <2>5. g[j] = d.tx[i].skb
    BY <1>1, <1>5, <1>13, <2>1, <2>2, LineIs
  <2>6. QED
    BY <1>8, <2>3, <2>4, <2>5
<1>16. n \in 0 .. NTx - 1 /\ h[n] = b
  <2>1. n \in 0 .. NTx - 1
    BY <1>9, Sizes
  <2>2. h[n] = e.tx[c].skb
    BY <1>7, <1>9, <1>11, <1>14, <2>1, LineIs
  <2>3. QED
    BY <1>8, <2>1, <2>2
<1>17. /\ R!RingPending(d) = Window(g, s, n) /\ R!RingSpent(d) = Window(g, 0, s)
  BY <1>1, <1>2, <1>6, <1>13, RingQueue
<1>18. /\ R!RingPending(e) = Window(h, s, n + 1) /\ R!RingSpent(e) = Window(h, 0, s)
  BY <1>7, <1>9, <1>10, <1>12, <1>14, RingQueue
<1>19. Window(g, s, n) \o <<b>> = Window(h, s, n + 1)
  <2>1. \A j \in s .. n - 1 : h[j] = g[j]
    BY <1>15
  <2>2. Window(g, s, n) \o <<h[n]>> = Window(h, s, n + 1)
    BY <1>11, <1>16, <2>1, WindowAppend, ZenonT(30)
  <2>3. QED
    BY <1>16, <2>2
<1>20. Window(h, 0, s) = Window(g, 0, s)
  <2>1. 0 \in 0 .. NTx /\ s - 0 = s /\ 0 - 0 = 0 /\ 0 <= s /\ 0 <= 0
    BY Sizes
  <2>2. Shifted(g, h, 0, s, 0)
    <3>1. \A j \in 0 - 0 .. s - 0 - 1 : j \in 0 .. n - 1 /\ j + 0 = j
      BY <1>11
    <3>2. QED
      BY <1>15, <3>1 DEF Shifted
  <2>3. Window(h, 0 - 0, s - 0) = Window(g, 0, s)
    BY <2>1, <2>2, WindowSub
  <2>4. QED
    BY <2>1, <2>3
<1>21. QED
  BY <1>17, <1>18, <1>19, <1>20 DEF Queued

(* The QDMA: the chain is not sent yet, the interrupt queue is. *)
Skbs(tx, a, n) == [i \in 1 .. n |-> tx[a[i]].skb]

LEMMA SkbsIs ==
  ASSUME NEW tx \in TxChain, NEW a \in Seq(Dscps), NEW n \in 0 .. Len(a)
  PROVE  /\ Skbs(tx, a, n) \in Seq(Held) /\ Len(Skbs(tx, a, n)) = n
         /\ \A i \in 1 .. n : a[i] \in Dscps /\ Skbs(tx, a, n)[i] = tx[a[i]].skb
<1>1. n \in Nat /\ \A i \in 1 .. n : a[i] \in Dscps
  BY LenIs
<1>2. \A i \in 1 .. n : tx[a[i]].skb \in Held
  BY <1>1 DEF TxChain
<1>3. QED
  BY <1>1, <1>2 DEF Skbs

LEMMA ChainQueue ==
  ASSUME NEW d \in ChainDev, NEW c, ChainTx(d, c)
  PROVE  /\ d.tx \in TxChain /\ c \in Seq(Dscps) /\ d.irq \in Seq(Dscps) /\ Len(c) - 1 \in 0 .. Len(c)
         /\ Len(d.irq) \in 0 .. Len(d.irq)
         /\ Q!ChainPending(d) = Skbs(d.tx, c, Len(c) - 1)
         /\ Q!ChainSpent(d) = Skbs(d.tx, d.irq, Len(d.irq))
<1>1. Q!Chain(d) = c
  BY ChainIs
<1>2. c \in Seq(Dscps) /\ Len(c) > 0
  BY DEF ChainTx, Links
<1>3. d.tx \in TxChain /\ d.irq \in Seq(Dscps)
  BY ChainFields
<1>4. Len(c) - 1 \in 0 .. Len(c) /\ Len(d.irq) \in 0 .. Len(d.irq)
  BY <1>2, <1>3, LenIs
<1>5. QED
  BY <1>1, <1>2, <1>3, <1>4 DEF Q!ChainPending, Q!ChainSpent, Skbs

LEMMA ChainSends ==
  ASSUME NEW d, NEW busy \in BOOLEAN, ChainOK(d, busy), Q!ChainTxMay(d),
         NEW e, e = Q!ChainTransmit(d)
  PROVE  Sending(Q!ChainPending(d), Q!ChainSpent(d), Q!ChainPending(e), Q!ChainSpent(e))
<1>1. d \in ChainDev
  BY DEF ChainOK
<1>2. PICK c : ChainTx(d, c)
  BY DEF ChainOK
<1>3. PICK a : a = Tail(c)
  OBVIOUS
<1>4. PICK t : t = d.tx
  OBVIOUS
<1>5. /\ ChainOK(e, busy) /\ Len(c) > 1 /\ ChainTx(e, a) /\ e.tx = t /\ e.irq = Append(d.irq, d.txDma)
  BY <1>2, <1>3, <1>4, ChainTransmitOK
<1>6. PICK r : r = d.irq
  OBVIOUS
<1>7. PICK r2 : r2 = e.irq
  OBVIOUS
<1>8. /\ t \in TxChain /\ c \in Seq(Dscps) /\ r \in Seq(Dscps) /\ Len(c) - 1 \in 0 .. Len(c)
      /\ Len(r) \in 0 .. Len(r)
      /\ Q!ChainPending(d) = Skbs(t, c, Len(c) - 1) /\ Q!ChainSpent(d) = Skbs(t, r, Len(r))
  BY <1>1, <1>2, <1>4, <1>6, ChainQueue
<1>9. /\ a \in Seq(Dscps) /\ r2 \in Seq(Dscps) /\ Len(a) - 1 \in 0 .. Len(a)
      /\ Len(r2) \in 0 .. Len(r2)
      /\ Q!ChainPending(e) = Skbs(t, a, Len(a) - 1) /\ Q!ChainSpent(e) = Skbs(t, r2, Len(r2))
  <2>1. e \in ChainDev
    BY <1>5 DEF ChainOK
  <2>2. QED
    BY <1>5, <1>7, <2>1, ChainQueue
<1>10. /\ Len(a) = Len(c) - 1
       /\ \A k \in 1 .. Len(c) - 1 : a[k] = c[k + 1]
  BY <1>3, <1>5, <1>8, TailIs
<1>11. c[1] = d.txDma /\ c[1] \in Dscps
  BY <1>2, <1>5, <1>8 DEF ChainTx, Links
<1>12. /\ Len(r2) = Len(r) + 1 /\ r2[Len(r) + 1] = c[1]
       /\ \A k \in 1 .. Len(r) : r2[k] = r[k]
  BY <1>5, <1>6, <1>7, <1>8, <1>11, AppendIs
<1>13. PICK p : p = Skbs(t, c, Len(c) - 1)
  OBVIOUS
<1>14. PICK q : q = Skbs(t, a, Len(a) - 1)
  OBVIOUS
<1>15. PICK z : z = Skbs(t, r, Len(r))
  OBVIOUS
<1>16. PICK y : y = Skbs(t, r2, Len(r2))
  OBVIOUS
<1>17. /\ p \in Seq(Held) /\ Len(p) = Len(c) - 1 /\ \A i \in 1 .. Len(c) - 1 : p[i] = t[c[i]].skb
  BY <1>8, <1>13, SkbsIs
<1>18. /\ q \in Seq(Held) /\ Len(q) = Len(a) - 1 /\ \A i \in 1 .. Len(a) - 1 : q[i] = t[a[i]].skb
  BY <1>8, <1>9, <1>14, SkbsIs
<1>19. /\ z \in Seq(Held) /\ Len(z) = Len(r) /\ \A i \in 1 .. Len(r) : z[i] = t[r[i]].skb
  BY <1>8, <1>15, SkbsIs
<1>20. /\ y \in Seq(Held) /\ Len(y) = Len(r2) /\ \A i \in 1 .. Len(r2) : y[i] = t[r2[i]].skb
  BY <1>8, <1>9, <1>16, SkbsIs
<1>21. PICK n \in Nat : n = Len(c)
  BY <1>8, LenIs
<1>22. n > 1 /\ Len(a) = n - 1 /\ Len(p) = n - 1 /\ Len(q) = n - 2
  BY <1>5, <1>10, <1>17, <1>18, <1>21
<1>23. p # <<>> /\ Head(p) = p[1] /\ p[1] = t[c[1]].skb /\ p[1] \in Held
  <2>1. p # <<>> /\ Head(p) = p[1] /\ p[1] \in Held
    BY <1>17, <1>22
  <2>2. 1 \in 1 .. n - 1
    BY <1>22
  <2>3. QED
    BY <1>17, <1>21, <2>1, <2>2
<1>24. q = Tail(p)
  <2>1. PICK w : w = Tail(p)
    OBVIOUS
  <2>2. /\ w \in Seq(Held) /\ Len(w) = n - 2
        /\ \A k \in 1 .. n - 2 : w[k] = p[k + 1]
    <3>1. /\ w \in Seq(Held) /\ Len(w) = Len(p) - 1
          /\ \A k \in 1 .. Len(p) - 1 : w[k] = p[k + 1]
      BY <1>17, <1>22, <2>1, TailIs
    <3>2. n - 1 - 1 = n - 2
      OBVIOUS
    <3>3. QED
      BY <1>22, <3>1, <3>2
  <2>3. ASSUME NEW k \in 1 .. n - 2 PROVE q[k] = w[k]
    <3>1. /\ k \in 1 .. n - 1 /\ k + 1 \in 1 .. n - 1 /\ k \in 1 .. n - 1 - 1
      BY <1>22
    <3>2. w[k] = t[c[k + 1]].skb
      BY <1>17, <1>21, <2>2, <3>1
    <3>3. q[k] = t[a[k]].skb
      BY <1>18, <1>22, <3>1
    <3>4. a[k] = c[k + 1]
      BY <1>10, <1>21, <3>1
    <3>5. QED
      BY <3>2, <3>3, <3>4
  <2>4. q = w
    BY <1>18, <1>22, <2>2, <2>3, SameSeq
  <2>5. QED
    BY <2>1, <2>4
<1>25. y = Append(z, p[1])
  <2>1. PICK w : w = Append(z, p[1])
    OBVIOUS
  <2>2. PICK l \in Nat : l = Len(r)
    BY <1>8, LenIs
  <2>3. /\ w \in Seq(Held) /\ Len(w) = l + 1 /\ w[l + 1] = p[1] /\ \A k \in 1 .. l : w[k] = z[k]
    BY <1>19, <1>23, <2>1, <2>2, AppendIs
  <2>4. ASSUME NEW k \in 1 .. l + 1 PROVE y[k] = w[k]
    <3>1. y[k] = t[r2[k]].skb
      BY <1>12, <1>20, <2>2
    <3>2. CASE k = l + 1
      BY <1>12, <1>23, <2>2, <2>3, <3>1, <3>2
    <3>3. CASE k # l + 1
      <4>1. k \in 1 .. l
        BY <3>3
      <4>2. QED
        BY <1>12, <1>19, <2>2, <2>3, <3>1, <4>1
    <3>4. QED
      BY <3>2, <3>3
  <2>5. Len(y) = l + 1
    BY <1>12, <1>20, <2>2
  <2>6. y = w
    BY <1>20, <2>3, <2>4, <2>5, SameSeq
  <2>7. QED
    BY <2>1, <2>6
<1>26. QED
  BY <1>8, <1>9, <1>13, <1>14, <1>15, <1>16, <1>23, <1>24, <1>25 DEF Sending

LEMMA ChainReturns ==
  ASSUME NEW d, NEW busy \in BOOLEAN, ChainOK(d, busy), NEW e, e = Q!ChainReclaim(d)
  PROVE  Returned(Q!ChainPending(d), Q!ChainSpent(d), Q!ChainPending(e), Q!ChainSpent(e))
<1>1. d \in ChainDev
  BY DEF ChainOK
<1>2. PICK c : ChainTx(d, c)
  BY DEF ChainOK
<1>3. PICK t : t = d.tx
  OBVIOUS
<1>4. PICK r : r = d.irq
  OBVIOUS
<1>5. /\ t \in TxChain /\ c \in Seq(Dscps) /\ r \in Seq(Dscps) /\ Len(c) - 1 \in 0 .. Len(c)
      /\ Len(r) \in 0 .. Len(r)
      /\ Q!ChainPending(d) = Skbs(t, c, Len(c) - 1) /\ Q!ChainSpent(d) = Skbs(t, r, Len(r))
  BY <1>1, <1>2, <1>3, <1>4, ChainQueue
<1>6. PICK z : z = Skbs(t, r, Len(r))
  OBVIOUS
<1>7. /\ z \in Seq(Held) /\ Len(z) = Len(r) /\ \A i \in 1 .. Len(r) : z[i] = t[r[i]].skb
  BY <1>5, <1>6, SkbsIs
<1>8. PICK l \in Nat : l = Len(r)
  BY <1>5, LenIs
<1>9. CASE ~Q!Recycles(d)
  <2>1. e = d
    BY <1>9 DEF Q!ChainReclaim
  <2>2. SubSeq(z, 0 + 1, Len(z)) = z /\ 0 \in 0 .. Len(z)
    BY <1>7
  <2>3. QED
    BY <1>5, <1>6, <2>1, <2>2 DEF Returned
<1>10. CASE Q!Recycles(d)
  <2>1. PICK w : w = d.irqWritten
    OBVIOUS
  <2>2. w \in 0 .. l /\ w \in Nat
    BY <1>1, <1>2, <1>4, <1>8, <2>1, ChainFields DEF ChainTx
  <2>3. e.irq = SubSeq(r, w + 1, Len(r))
    BY <1>1, <1>4, <1>10, <2>1 DEF Q!ChainReclaim, Q!qdma_bm_transmit_done, ChainDev
  <2>4. PICK gone : gone = {r[k] : k \in 1 .. w}
    OBVIOUS
  <2>5. /\ ChainOK(e, busy) /\ ChainTx(e, c)
        /\ \A i \in 0 .. NTx - 1 : e.tx[i].skb = IF i \in gone THEN NBufs ELSE t[i].skb
    BY <1>2, <1>3, <1>4, <1>10, <2>1, <2>4, ChainReclaimOK
  <2>6. e \in ChainDev
    BY <2>5 DEF ChainOK
  <2>7. PICK t2 : t2 = e.tx
    OBVIOUS
  <2>8. PICK r2 : r2 = e.irq
    OBVIOUS
  <2>9. /\ t2 \in TxChain /\ r2 \in Seq(Dscps) /\ Len(r2) \in 0 .. Len(r2)
        /\ Q!ChainPending(e) = Skbs(t2, c, Len(c) - 1) /\ Q!ChainSpent(e) = Skbs(t2, r2, Len(r2))
    BY <2>5, <2>6, <2>7, <2>8, ChainQueue
  <2>10. \A i \in Dscps : i \notin gone => t2[i].skb = t[i].skb
    BY <2>5, <2>7 DEF Dscps
  <2>11. Disjoint(c, r) /\ Once(r)
    BY <1>2, <1>4 DEF ChainTx, Partition
  <2>12. /\ Len(r2) = l - w
         /\ \A k \in 1 .. l - w : r2[k] = r[w + k]
    <3>1. /\ w + 1 \in 1 .. Len(r) + 1 /\ Len(r) \in 0 .. Len(r) /\ w + 1 <= Len(r) + 1
          /\ l + 1 - (w + 1) = l - w
      BY <1>8, <2>2
    <3>2. /\ Len(r2) = Len(r) + 1 - (w + 1)
          /\ \A k \in 1 .. Len(r) + 1 - (w + 1) : r2[k] = r[k + (w + 1) - 1]
      BY <1>5, <2>3, <2>8, <3>1, SubIs
    <3>3. \A k \in 1 .. l - w : k + (w + 1) - 1 = w + k
      BY <2>2
    <3>4. QED
      BY <1>8, <3>1, <3>2, <3>3
  <2>13. Skbs(t2, c, Len(c) - 1) = Skbs(t, c, Len(c) - 1)
    <3>1. ASSUME NEW i \in 1 .. Len(c) - 1 PROVE t2[c[i]].skb = t[c[i]].skb
      <4>1. i \in 1 .. Len(c) /\ c[i] \in Dscps
        BY <1>5
      <4>2. \A k \in 1 .. w : k \in 1 .. Len(r)
        BY <1>8, <2>2
      <4>3. c[i] \notin gone
        BY <2>4, <2>11, <4>1, <4>2 DEF Disjoint
      <4>4. QED
        BY <2>10, <4>1, <4>3
    <3>2. QED
      BY <3>1 DEF Skbs
  <2>14. PICK y : y = Skbs(t2, r2, Len(r2))
    OBVIOUS
  <2>15. y \in Seq(Held) /\ Len(y) = Len(r2) /\ \A i \in 1 .. Len(r2) : y[i] = t2[r2[i]].skb
    BY <2>9, <2>14, SkbsIs
  <2>16. y = SubSeq(z, w + 1, Len(z))
    <3>1. PICK v : v = SubSeq(z, w + 1, Len(z))
      OBVIOUS
    <3>2. /\ v \in Seq(Held) /\ Len(v) = l - w /\ \A k \in 1 .. l - w : v[k] = z[w + k]
      <4>1. /\ w + 1 \in 1 .. Len(z) + 1 /\ Len(z) \in 0 .. Len(z) /\ w + 1 <= Len(z) + 1
            /\ l + 1 - (w + 1) = l - w
        BY <1>7, <1>8, <2>2
      <4>2. /\ v \in Seq(Held) /\ Len(v) = Len(z) + 1 - (w + 1)
            /\ \A k \in 1 .. Len(z) + 1 - (w + 1) : v[k] = z[k + (w + 1) - 1]
        BY <1>7, <3>1, <4>1, SubIs
      <4>3. \A k \in 1 .. l - w : k + (w + 1) - 1 = w + k
        BY <2>2
      <4>4. QED
        BY <1>7, <1>8, <4>1, <4>2, <4>3
    <3>3. ASSUME NEW k \in 1 .. l - w PROVE y[k] = v[k]
      <4>1. w + k \in 1 .. l /\ \A j \in 1 .. w : j \in 1 .. l /\ j # w + k
        BY <2>2
      <4>2. r[w + k] \in Dscps /\ r[w + k] \notin gone
        BY <1>5, <1>8, <2>4, <2>11, <4>1 DEF Once
      <4>3. y[k] = t2[r[w + k]].skb
        BY <2>12, <2>15
      <4>4. v[k] = t[r[w + k]].skb
        BY <1>7, <1>8, <3>2, <4>1
      <4>5. QED
        BY <2>10, <4>2, <4>3, <4>4
    <3>4. y = v
      BY <2>12, <2>15, <3>2, <3>3, SameSeq
    <3>5. QED
      BY <3>1, <3>4
  <2>17. w \in 0 .. Len(z)
    BY <1>7, <1>8, <2>2
  <2>18. QED
    BY <1>5, <1>6, <2>9, <2>13, <2>14, <2>16, <2>17 DEF Returned
<1>11. QED
  BY <1>9, <1>10

LEMMA ChainQueues ==
  ASSUME NEW d, NEW busy \in BOOLEAN, ChainOK(d, busy), ~Q!ChainBlocked(d), NEW b \in R!Bufs,
         NEW e, e = Q!ChainPost(d, b)
  PROVE  Queued(b, Q!ChainPending(d), Q!ChainSpent(d), Q!ChainPending(e), Q!ChainSpent(e))
<1>1. d \in ChainDev
  BY DEF ChainOK
<1>2. PICK c : ChainTx(d, c)
  BY DEF ChainOK
<1>3. PICK t : t = d.tx
  OBVIOUS
<1>4. PICK r : r = d.irq
  OBVIOUS
<1>5. PICK x : x = Head(d.unused)
  OBVIOUS
<1>6. PICK a : a = Append(c, x)
  OBVIOUS
<1>7. PICK u : u = d.txUsing
  OBVIOUS
<1>8. /\ ChainOK(e, busy) /\ ChainTx(e, a) /\ u \in Dscps
      /\ e.tx = [t EXCEPT ![u] = [skb |-> b, next_idx |-> x]]
  BY <1>2, <1>3, <1>5, <1>6, <1>7, ChainPostOK DEF Dscps
<1>9. e.irq = r
  BY <1>1, <1>4 DEF Q!ChainPost, ChainDev
<1>10. /\ t \in TxChain /\ c \in Seq(Dscps) /\ r \in Seq(Dscps) /\ Len(c) - 1 \in 0 .. Len(c)
       /\ Len(r) \in 0 .. Len(r)
       /\ Q!ChainPending(d) = Skbs(t, c, Len(c) - 1) /\ Q!ChainSpent(d) = Skbs(t, r, Len(r))
  BY <1>1, <1>2, <1>3, <1>4, ChainQueue
<1>11. PICK t2 : t2 = e.tx
  OBVIOUS
<1>12. /\ t2 \in TxChain /\ a \in Seq(Dscps) /\ Len(a) - 1 \in 0 .. Len(a)
       /\ Q!ChainPending(e) = Skbs(t2, a, Len(a) - 1) /\ Q!ChainSpent(e) = Skbs(t2, r, Len(r))
  <2>1. e \in ChainDev
    BY <1>8 DEF ChainOK
  <2>2. QED
    BY <1>8, <1>9, <1>11, <2>1, ChainQueue
<1>13. t2[u].skb = b /\ \A i \in Dscps : i # u => t2[i].skb = t[i].skb
  <2>1. PICK v : v = [skb |-> b, next_idx |-> x]
    OBVIOUS
  <2>2. v.skb = b
    BY <2>1
  <2>3. t2 = [t EXCEPT ![u] = v]
    BY <1>8, <1>11, <2>1
  <2>4. \A i \in Dscps : t2[i] = IF i = u THEN v ELSE t[i]
    BY <1>10, <2>3 DEF TxChain
  <2>5. QED
    BY <1>8, <2>2, <2>4
<1>14. /\ c[Len(c)] = u /\ Once(c) /\ Disjoint(c, r) /\ Len(c) > 0
  BY <1>2, <1>4, <1>7 DEF ChainTx, Links, Partition
<1>15. PICK n \in Nat : n = Len(c)
  BY <1>10, LenIs
<1>16. /\ Len(a) = n + 1 /\ \A k \in 1 .. n : a[k] = c[k]
  <2>1. x \in Dscps
    BY <1>1, <1>5, ChainFields DEF Q!ChainBlocked
  <2>2. QED
    BY <1>6, <1>10, <1>15, <2>1, AppendIs
<1>17. PICK p : p = Skbs(t, c, Len(c) - 1)
  OBVIOUS
<1>18. PICK q : q = Skbs(t2, a, Len(a) - 1)
  OBVIOUS
<1>19. /\ p \in Seq(Held) /\ Len(p) = n - 1 /\ \A i \in 1 .. n - 1 : p[i] = t[c[i]].skb
  BY <1>10, <1>15, <1>17, SkbsIs
<1>20. /\ q \in Seq(Held) /\ Len(q) = n /\ \A i \in 1 .. n : q[i] = t2[a[i]].skb
  <2>1. /\ q \in Seq(Held) /\ Len(q) = Len(a) - 1
        /\ \A i \in 1 .. Len(a) - 1 : q[i] = t2[a[i]].skb
    BY <1>12, <1>18, SkbsIs
  <2>2. n + 1 - 1 = n
    OBVIOUS
  <2>3. QED
    BY <1>16, <2>1, <2>2
<1>21. q = p \o <<b>>
  <2>1. b \in Held
    BY Sizes DEF Held
  <2>2. PICK w : w = Append(p, b)
    OBVIOUS
  <2>3. p \o <<b>> = w
    BY <1>19, <2>1, <2>2
  <2>4. /\ w \in Seq(Held) /\ Len(w) = n - 1 + 1 /\ w[n - 1 + 1] = b
        /\ \A k \in 1 .. n - 1 : w[k] = p[k]
    BY <1>19, <2>1, <2>2, AppendIs
  <2>5. n - 1 + 1 = n /\ n \in 1 .. n
    BY <1>14, <1>15
  <2>6. ASSUME NEW k \in 1 .. n PROVE q[k] = w[k]
    <3>1. q[k] = t2[c[k]].skb
      BY <1>16, <1>20
    <3>2. CASE k = n
      BY <1>13, <1>14, <1>15, <2>4, <2>5, <3>1, <3>2
    <3>3. CASE k # n
      <4>1. k \in 1 .. n - 1
        BY <3>3
      <4>2. c[k] \in Dscps /\ c[k] # u
        BY <1>10, <1>14, <1>15, <2>5, <3>3 DEF Once
      <4>3. QED
        BY <1>13, <1>19, <2>4, <3>1, <4>1, <4>2
    <3>4. QED
      BY <3>2, <3>3
  <2>7. q = w
    BY <1>20, <2>4, <2>5, <2>6, SameSeq
  <2>8. QED
    BY <2>3, <2>7
<1>22. Skbs(t2, r, Len(r)) = Skbs(t, r, Len(r))
  <2>1. ASSUME NEW i \in 1 .. Len(r) PROVE t2[r[i]].skb = t[r[i]].skb
    <3>1. r[i] \in Dscps
      BY <1>10
    <3>2. Len(c) \in 1 .. Len(c)
      BY <1>14, <1>15
    <3>3. r[i] # u
      BY <1>14, <3>2 DEF Disjoint
    <3>4. QED
      BY <1>13, <3>1, <3>3
  <2>2. QED
    BY <2>1 DEF Skbs
<1>23. QED
  BY <1>10, <1>12, <1>17, <1>18, <1>21, <1>22 DEF Queued

(* What does not touch the descriptors to send leaves the queue alone. *)
RingTxSame(d, e) ==
  /\ e.tx = d.tx /\ e.txHead = d.txHead
  /\ e.txUnReleasedDescp = d.txUnReleasedDescp /\ e.txUnReleasedBufCnt = d.txUnReleasedBufCnt
ChainTxSame(d, e) == e.tx = d.tx /\ e.txDma = d.txDma /\ e.txUsing = d.txUsing /\ e.irq = d.irq

LEMMA RingTxKept ==
  ASSUME NEW d, NEW e, RingTxSame(d, e)
  PROVE  R!RingPending(e) = R!RingPending(d) /\ R!RingSpent(e) = R!RingSpent(d)
<1>1. R!RingOwned(e) = R!RingOwned(d) /\ R!TxIdx(e) = R!TxIdx(d)
  BY DEF R!RingOwned, R!TxIdx, RingTxSame
<1>2. \A i : R!TxAt(e, i) = R!TxAt(d, i)
  BY DEF R!TxAt, RingTxSame
<1>3. QED
  BY <1>1, <1>2 DEF R!RingPending, R!RingSpent, RingTxSame

LEMMA ChainTxKept ==
  ASSUME NEW d, NEW e, ChainTxSame(d, e)
  PROVE  Q!ChainPending(e) = Q!ChainPending(d) /\ Q!ChainSpent(e) = Q!ChainSpent(d)
<1>1. Q!Chain(e) = Q!Chain(d)
  BY DEF Q!Chain, ChainTxSame
<1>2. QED
  BY <1>1 DEF Q!ChainPending, Q!ChainSpent, ChainTxSame

LEMMA RingOthers ==
  ASSUME NEW m, NEW d \in RingDev
  PROVE  /\ RingTxSame(d, d)
         /\ RingTxSame(d, R!RingTake(d)) /\ RingTxSame(d, R!RxPollDemand(m, d))
         /\ RingTxSame(d, [d EXCEPT !.txDoor = 0])
         /\ \A b : RingTxSame(d, R!RingRepost(m, d, b))
         /\ \A kind : RingTxSame(d, R!RingArrive(m, d, kind))
<1>1. RingTxSame(d, d) /\ RingTxSame(d, R!RingTake(d)) /\ RingTxSame(d, [d EXCEPT !.txDoor = 0])
  BY DEF RingTxSame, RingDev, R!RingTake
<1>2. RingTxSame(d, R!RxPollDemand(m, d))
  BY <1>1 DEF RingTxSame, RingDev, R!RxPollDemand
<1>3. ASSUME NEW b PROVE RingTxSame(d, R!RingRepost(m, d, b))
  BY DEF RingTxSame, RingDev, R!RingRepost
<1>4. ASSUME NEW kind PROVE RingTxSame(d, R!RingArrive(m, d, kind))
  BY <1>1 DEF RingTxSame, RingDev, R!RingArrive
<1>5. QED
  BY <1>1, <1>2, <1>3, <1>4

LEMMA ChainOthers ==
  ASSUME NEW d \in ChainDev
  PROVE  /\ ChainTxSame(d, d)
         /\ ChainTxSame(d, Q!ChainTake(d)) /\ ChainTxSame(d, Q!IrqWrite(d))
         /\ \A b : ChainTxSame(d, Q!qdma_bm_hook_receive_buffer(d, b))
         /\ \A kind : ChainTxSame(d, Q!ChainArrive(d, kind))
<1>1. ChainTxSame(d, d) /\ ChainTxSame(d, Q!ChainTake(d)) /\ ChainTxSame(d, Q!IrqWrite(d))
  BY DEF ChainTxSame, ChainDev, Q!ChainTake, Q!IrqWrite
<1>2. ASSUME NEW b PROVE ChainTxSame(d, Q!qdma_bm_hook_receive_buffer(d, b))
  BY <1>1 DEF ChainTxSame, ChainDev, Q!qdma_bm_hook_receive_buffer
<1>3. ASSUME NEW kind PROVE ChainTxSame(d, Q!ChainArrive(d, kind))
  BY <1>1 DEF ChainTxSame, ChainDev, Q!ChainArrive
<1>4. QED
  BY <1>1, <1>2, <1>3

-----------------------------------------------------------------------------
(* The queue of the driver in use. *)
Pending == IF IsQdma THEN Q!ChainPending(dev) ELSE R!RingPending(dev)
Spent == IF IsQdma THEN Q!ChainSpent(dev) ELSE R!RingSpent(dev)

TxKept == IF IsQdma THEN ChainTxSame(dev, dev') ELSE RingTxSame(dev, dev')

LEMMA KeptQueue ==
  ASSUME TxKept, mac' = mac
  PROVE  Pending' = Pending /\ Spent' = Spent
<1>1. IsQdma' = IsQdma
  BY DEF IsQdma
<1>2. CASE IsQdma
  BY <1>1, <1>2, ChainTxKept DEF TxKept, Pending, Spent
<1>3. CASE ~IsQdma
  BY <1>1, <1>3, RingTxKept DEF TxKept, Pending, Spent
<1>4. QED
  BY <1>2, <1>3

InSlots(a) == \A i \in 1 .. Len(a) : \E k \in 0 .. NTx - 1 : a[i] = dev.tx[k].skb

LEMMA WindowHolds ==
  ASSUME NEW a \in 0 .. NTx, NEW b \in 0 .. NTx, a <= b, dev \in RingDev
  PROVE  Window(Line(dev), a, b) \in Seq(Held) /\ InSlots(Window(Line(dev), a, b))
<1>1. PICK g \in [0 .. NTx - 1 -> Held] : g = Line(dev)
  BY LineIs
<1>2. PICK w : w = Window(g, a, b)
  OBVIOUS
<1>3. w \in Seq(Held) /\ Len(w) = b - a /\ \A i \in 1 .. b - a : w[i] = g[a + i - 1]
  BY <1>2, WindowIs
<1>4. ASSUME NEW i \in 1 .. b - a PROVE \E k \in 0 .. NTx - 1 : w[i] = dev.tx[k].skb
  <2>1. a + i - 1 \in 0 .. NTx - 1
    BY Sizes
  <2>2. \E k \in 0 .. NTx - 1 : g[a + i - 1] = dev.tx[k].skb
    BY <1>1, <2>1, LineIs
  <2>3. QED
    BY <1>3, <2>2
<1>5. InSlots(w)
  BY <1>3, <1>4 DEF InSlots
<1>6. QED
  BY <1>1, <1>2, <1>3, <1>5

LEMMA QueueHolds ==
  ASSUME TypeOK, DevOK
  PROVE  Queues(Pending, Spent) /\ InSlots(Pending) /\ InSlots(Spent)
<1>1. CASE IsQdma
  <2>1. dev \in ChainDev
    BY <1>1 DEF DevOK, ChainOK
  <2>2. PICK c : ChainTx(dev, c)
    BY <1>1 DEF DevOK, ChainOK
  <2>3. PICK t : t = dev.tx
    OBVIOUS
  <2>4. PICK r : r = dev.irq
    OBVIOUS
  <2>5. /\ t \in TxChain /\ c \in Seq(Dscps) /\ r \in Seq(Dscps) /\ Len(c) - 1 \in 0 .. Len(c)
        /\ Len(r) \in 0 .. Len(r)
        /\ Q!ChainPending(dev) = Skbs(t, c, Len(c) - 1) /\ Q!ChainSpent(dev) = Skbs(t, r, Len(r))
    BY <2>1, <2>2, <2>3, <2>4, ChainQueue
  <2>6. ASSUME NEW a \in Seq(Dscps), NEW n \in 0 .. Len(a)
        PROVE  Skbs(t, a, n) \in Seq(Held) /\ InSlots(Skbs(t, a, n))
    <3>1. PICK w : w = Skbs(t, a, n)
      OBVIOUS
    <3>2. w \in Seq(Held) /\ Len(w) = n /\ \A i \in 1 .. n : a[i] \in Dscps /\ w[i] = t[a[i]].skb
      BY <2>5, <3>1, SkbsIs
    <3>3. InSlots(w)
      BY <2>3, <3>2 DEF InSlots, Dscps
    <3>4. QED
      BY <3>1, <3>2, <3>3
  <2>7. QED
    BY <1>1, <2>5, <2>6 DEF Pending, Spent, Queues
<1>2. CASE ~IsQdma
  <2>1. dev \in RingDev /\ mac \in R!RingMacs
    BY <1>2, MacIs DEF DevOK, RingOK
  <2>2. PICK s \in 0 .. NTx : RingTx(mac, dev, s)
    BY <1>2 DEF DevOK, RingOK
  <2>3. PICK n \in 0 .. NTx : n = dev.txUnReleasedBufCnt
    BY <2>1, RingFields
  <2>4. /\ s <= n /\ R!RingPending(dev) = Window(Line(dev), s, n)
        /\ R!RingSpent(dev) = Window(Line(dev), 0, s)
    BY <2>1, <2>2, <2>3, RingQueue
  <2>5. 0 \in 0 .. NTx /\ 0 <= s
    BY Sizes
  <2>6. /\ Window(Line(dev), s, n) \in Seq(Held) /\ InSlots(Window(Line(dev), s, n))
        /\ Window(Line(dev), 0, s) \in Seq(Held) /\ InSlots(Window(Line(dev), 0, s))
    BY <2>1, <2>4, <2>5, WindowHolds
  <2>7. QED
    BY <1>2, <2>4, <2>6 DEF Pending, Spent, Queues
<1>3. QED
  BY <1>1, <1>2

(* How those steps look to TxQueue. *)
LEMMA CallReturns ==
  ASSUME Queues(Pending, Spent), Returned(Pending, Spent, Pending', Spent')
  PROVE  Order!Call
<1>1. PICK p : p = Pending
  OBVIOUS
<1>2. PICK z : z = Spent
  OBVIOUS
<1>3. PICK k \in 0 .. Len(z) : Spent' = SubSeq(z, k + 1, Len(z))
  BY <1>2 DEF Returned
<1>4. Pending' = p \o <<>>
  <2>1. p \in Seq(Held)
    BY <1>1 DEF Queues
  <2>2. Pending' = p
    BY <1>1 DEF Returned
  <2>3. QED
    BY <2>1, <2>2
<1>5. Order!ToSet(<<>>) = {}
  BY DEF Order!ToSet
<1>6. QED
  BY <1>1, <1>2, <1>3, <1>4, <1>5 DEF Order!Call, Pending, Spent

LEMMA CallQueues ==
  ASSUME Queues(Pending, Spent), NEW b \in R!Bufs, Fresh(b, Pending, Spent),
         Queued(b, Pending, Spent, Pending', Spent')
  PROVE  Order!Call
<1>1. PICK p : p = Pending
  OBVIOUS
<1>2. PICK z : z = Spent
  OBVIOUS
<1>3. p \in Seq(Held) /\ z \in Seq(Held)
  BY <1>1, <1>2 DEF Queues
<1>4. Spent' = SubSeq(z, 0 + 1, Len(z)) /\ 0 \in 0 .. Len(z)
  <2>1. Spent' = z
    BY <1>2 DEF Queued
  <2>2. QED
    BY <1>3, <2>1
<1>5. Pending' = p \o <<b>>
  BY <1>1 DEF Queued
<1>6. Order!ToSet(<<b>>) \cap (Order!ToSet(p) \cup Order!ToSet(z)) = {}
  <2>1. Order!ToSet(<<b>>) = {b}
    BY DEF Order!ToSet
  <2>2. b \notin Order!ToSet(p) /\ b \notin Order!ToSet(z)
    BY <1>1, <1>2, <1>3 DEF Order!ToSet, Fresh
  <2>3. QED
    BY <2>1, <2>2
<1>7. QED
  BY <1>1, <1>2, <1>4, <1>5, <1>6 DEF Order!Call, Pending, Spent

LEMMA SendingIs ==
  ASSUME Sending(Pending, Spent, Pending', Spent')
  PROVE  Order!Transmit
BY DEF Sending, Order!Transmit, Pending, Spent

Stutters == Pending' = Pending /\ Spent' = Spent

LEMMA ReclaimQueue ==
  ASSUME TypeOK, DevOK, Reclaim, mac' = mac
  PROVE  Order!Call
<1>1. IsQdma' = IsQdma
  BY DEF IsQdma
<1>2. CASE IsQdma
  <2>1. dev' = Q!ChainReclaim(dev) /\ ChainOK(dev, Busy)
    BY <1>2 DEF Reclaim, DevOK
  <2>2. Returned(Q!ChainPending(dev), Q!ChainSpent(dev), Q!ChainPending(dev'), Q!ChainSpent(dev'))
    BY <2>1, BusyType, ChainReturns
  <2>3. Returned(Pending, Spent, Pending', Spent')
    BY <1>1, <1>2, <2>2 DEF Pending, Spent
  <2>4. QED
    BY <2>3, QueueHolds, CallReturns
<1>3. CASE ~IsQdma
  <2>1. dev' = R!macTxRingProc(mac, dev) /\ RingOK(mac, dev, Busy) /\ mac \in R!RingMacs
    BY <1>3, MacIs DEF Reclaim, DevOK
  <2>2. Returned(R!RingPending(dev), R!RingSpent(dev), R!RingPending(dev'), R!RingSpent(dev'))
    BY <2>1, BusyType, RingReturns
  <2>3. Returned(Pending, Spent, Pending', Spent')
    BY <1>1, <1>3, <2>2 DEF Pending, Spent
  <2>4. QED
    BY <2>3, QueueHolds, CallReturns
<1>4. QED
  BY <1>2, <1>3

LEMMA PostQueue ==
  ASSUME TypeOK, DevOK, NEW b \in R!Bufs, NEW done, Post(b, done), mac' = mac,
         \A i \in 0 .. NTx - 1 : dev.tx[i].skb # b
  PROVE  Order!Call \/ Stutters
<1>1. IsQdma' = IsQdma
  BY DEF IsQdma
<1>2. Fresh(b, Pending, Spent)
  BY QueueHolds DEF Fresh, InSlots
<1>3. CASE Blocked
  <2>1. dev' = dev
    BY <1>3 DEF Post
  <2>2. QED
    BY <1>1, <2>1 DEF Stutters, Pending, Spent
<1>4. CASE ~Blocked /\ IsQdma
  <2>1. dev' = Q!ChainPost(dev, b) /\ ChainOK(dev, Busy) /\ ~Q!ChainBlocked(dev)
    BY <1>4 DEF Post, DevOK, Blocked
  <2>2. Queued(b, Q!ChainPending(dev), Q!ChainSpent(dev), Q!ChainPending(dev'), Q!ChainSpent(dev'))
    BY <2>1, BusyType, ChainQueues
  <2>3. Queued(b, Pending, Spent, Pending', Spent')
    BY <1>1, <1>4, <2>2 DEF Pending, Spent
  <2>4. QED
    BY <1>2, <2>3, QueueHolds, CallQueues
<1>5. CASE ~Blocked /\ ~IsQdma
  <2>1. /\ dev' = R!RingPost(mac, dev, b) /\ RingOK(mac, dev, Busy) /\ mac \in R!RingMacs
        /\ ~R!TxBlocked(mac, dev)
    BY <1>5, MacIs DEF Post, DevOK, Blocked
  <2>2. Queued(b, R!RingPending(dev), R!RingSpent(dev), R!RingPending(dev'), R!RingSpent(dev'))
    BY <2>1, BusyType, RingQueues
  <2>3. Queued(b, Pending, Spent, Pending', Spent')
    BY <1>1, <1>5, <2>2 DEF Pending, Spent
  <2>4. QED
    BY <1>2, <2>3, QueueHolds, CallQueues
<1>6. QED
  BY <1>3, <1>4, <1>5

(* The buffer a call hands over is in no descriptor: it has its own place. *)
LEMMA Elsewhere ==
  ASSUME NEW f, View(f, dev, held, out, job), Accounts(f, pool.used), NEW p \in Places,
         \A i : p # InTx(i), NEW b \in R!Bufs, f[p] = b
  PROVE  \A i \in 0 .. NTx - 1 : dev.tx[i].skb # b
<1> SUFFICES ASSUME NEW i \in 0 .. NTx - 1, dev.tx[i].skb = b PROVE FALSE
  OBVIOUS
<1>1. InTx(i) \in Places /\ f[InTx(i)] = b
  BY PlacesAre DEF View
<1>2. b # NBufs
  BY Sizes
<1>3. QED
  BY <1>1, <1>2 DEF Accounts

LEMMA PostStiQueue ==
  ASSUME IInv, Accounted, PostSti
  PROVE  Order!Call \/ Stutters
<1>0. TypeOK /\ DevOK /\ MainControl
  BY DEF IInv
<1>1. PICK f : View(f, dev, held, out, job) /\ Accounts(f, pool.used)
  BY DEF Accounted
<1>2. held \in Seq(R!Bufs)
  BY <1>0 DEF TypeOK
<1>3. PICK n \in {1, 2} : n = Len(held)
  <2>1. PICK m \in Nat : m = Len(held)
    BY <1>2
  <2>2. m <= 2
    BY <1>0, <2>1 DEF TypeOK
  <2>3. m > 0
    BY <1>0, <2>1 DEF PostSti, At, MainControl
  <2>4. m \in {1, 2}
    BY <2>2, <2>3
  <2>5. QED
    BY <2>1, <2>4
<1>4. PICK b \in R!Bufs : b = Last(held) /\ b = held[n]
  <2>1. Len(held) > 0
    BY <1>3
  <2>2. Last(held) = held[Len(held)] /\ Last(held) \in R!Bufs
    BY <1>2, <2>1, FrontIs
  <2>3. QED
    BY <1>3, <2>2
<1>5. PICK p \in Places : p = InHeld(n)
  BY PlacesAre
<1>6. \A i : p # InTx(i)
  BY <1>5, PlacesApart
<1>7. f[p] = b
  BY <1>1, <1>3, <1>4, <1>5 DEF View, Nth
<1>8. Post(b, {}) /\ mac' = mac
  BY <1>4 DEF PostSti
<1>9. \A i \in 0 .. NTx - 1 : dev.tx[i].skb # b
  BY <1>1, <1>6, <1>7, Elsewhere
<1>10. QED
  BY <1>0, <1>8, <1>9, PostQueue

LEMMA AnswerStiQueue ==
  ASSUME IInv, Accounted, AnswerSti
  PROVE  Order!Call \/ Stutters
<1>0. TypeOK /\ DevOK
  BY DEF IInv
<1>1. PICK f : View(f, dev, held, out, job) /\ Accounts(f, pool.used)
  BY DEF Accounted
<1>2. out \in Seq(R!Bufs) /\ out # <<>>
  <2>1. On("post")
    BY DEF AnswerSti
  <2>2. QED
    BY <1>0, <2>1, OnIs DEF TypeOK
<1>3. PICK n \in {1, 2} : n = Len(out)
  <2>1. PICK m \in Nat : m = Len(out)
    BY <1>2
  <2>2. m <= 2
    BY <1>0, <2>1 DEF TypeOK
  <2>3. m # 0
    BY <1>2, <2>1
  <2>4. m \in {1, 2}
    BY <2>2, <2>3
  <2>5. QED
    BY <2>1, <2>4
<1>4. PICK b \in R!Bufs : b = Last(out) /\ b = out[n]
  <2>1. Len(out) > 0
    BY <1>3
  <2>2. Last(out) = out[Len(out)] /\ Last(out) \in R!Bufs
    BY <1>2, <2>1, FrontIs
  <2>3. QED
    BY <1>3, <2>2
<1>5. PICK p \in Places : p = InOut(n)
  BY PlacesAre
<1>6. \A i : p # InTx(i)
  BY <1>5, PlacesApart
<1>7. f[p] = b
  BY <1>1, <1>3, <1>4, <1>5 DEF View, Nth
<1>8. PICK done : Post(b, done) /\ mac' = mac
  BY <1>4 DEF AnswerSti
<1>9. \A i \in 0 .. NTx - 1 : dev.tx[i].skb # b
  BY <1>1, <1>6, <1>7, Elsewhere
<1>10. QED
  BY <1>0, <1>8, <1>9, PostQueue

LEMMA KeepsQueue ==
  ASSUME TypeOK, DevOK, mac' = mac,
         \/ dev' = dev
         \/ IsQdma /\ \/ dev' = Q!ChainTake(dev) \/ dev' = Q!IrqWrite(dev)
                      \/ \E b : dev' = Q!qdma_bm_hook_receive_buffer(dev, b)
                      \/ \E kind : dev' = Q!ChainArrive(dev, kind)
         \/ ~IsQdma /\ \/ dev' = R!RingTake(dev) \/ dev' = R!RxPollDemand(mac, dev)
                       \/ dev' = [dev EXCEPT !.txDoor = 0]
                       \/ \E b : dev' = R!RingRepost(mac, dev, b)
                       \/ \E kind : dev' = R!RingArrive(mac, dev, kind)
  PROVE  Stutters
<1>1. CASE IsQdma
  <2>1. dev \in ChainDev
    BY <1>1 DEF DevOK, ChainOK
  <2>2. ChainTxSame(dev, dev')
    BY <1>1, <2>1, ChainOthers
  <2>3. QED
    BY <1>1, <2>2, KeptQueue DEF TxKept, Stutters
<1>2. CASE ~IsQdma
  <2>1. dev \in RingDev
    BY <1>2 DEF DevOK, RingOK
  <2>2. RingTxSame(dev, dev')
    BY <1>2, <2>1, RingOthers, ZenonT(60)
  <2>3. QED
    BY <1>2, <2>2, KeptQueue DEF TxKept, Stutters
<1>3. QED
  BY <1>1, <1>2

LEMMA TransmitQueue ==
  ASSUME TypeOK, DevOK, Transmit
  PROVE  Order!Transmit
<1>1. mac' = mac /\ IsQdma' = IsQdma
  BY DEF Transmit, Software, IsQdma
<1>2. CASE IsQdma
  <2>1. dev' = Q!ChainTransmit(dev) /\ ChainOK(dev, Busy) /\ Q!ChainTxMay(dev)
    BY <1>2 DEF Transmit, DevOK
  <2>2. Sending(Q!ChainPending(dev), Q!ChainSpent(dev), Q!ChainPending(dev'), Q!ChainSpent(dev'))
    BY <2>1, BusyType, ChainSends
  <2>3. Sending(Pending, Spent, Pending', Spent')
    BY <1>1, <1>2, <2>2 DEF Pending, Spent
  <2>4. QED
    BY <2>3, SendingIs
<1>3. CASE ~IsQdma
  <2>1. /\ dev' = R!RingTransmit(dev) /\ RingOK(mac, dev, Busy) /\ mac \in R!RingMacs
        /\ R!TxMay(mac, dev)
    BY <1>3, MacIs DEF Transmit, DevOK
  <2>2. Sending(R!RingPending(dev), R!RingSpent(dev), R!RingPending(dev'), R!RingSpent(dev'))
    BY <2>1, BusyType, RingSends
  <2>3. Sending(Pending, Spent, Pending', Spent')
    BY <1>1, <1>3, <2>2 DEF Pending, Spent
  <2>4. QED
    BY <2>3, SendingIs
<1>4. QED
  BY <1>2, <1>3

LEMMA QueueStep ==
  ASSUME IInv, Accounted, [Next]_vars
  PROVE  [Order!Next]_(Order!vars)
<1>0. TypeOK /\ DevOK
  BY DEF IInv
<1>1. CASE Cli \/ AnswerCli
  <2>1. Reclaim /\ mac' = mac
    BY <1>1 DEF Cli, AnswerCli
  <2>2. QED
    BY <1>0, <2>1, ReclaimQueue DEF Order!Next
<1>2. CASE PostSti \/ AnswerSti
  <2>1. Order!Call \/ Stutters
    BY <1>2, PostStiQueue, AnswerStiQueue
  <2>2. QED
    BY <2>1 DEF Order!Next, Order!vars, Stutters, Pending, Spent
<1>3. CASE Transmit
  BY <1>0, <1>3, TransmitQueue DEF Order!Next
<1>4. ASSUME Stutters PROVE [Order!Next]_(Order!vars)
  BY <1>4 DEF Order!vars, Stutters, Pending, Spent
<1>5. CASE Start \/ Pick \/ Advance \/ Test \/ Claim \/ Lookup \/ Drop
  <2>1. dev' = dev /\ mac' = mac
    BY <1>5 DEF Start, Pick, Advance, Test, Claim, Lookup, Drop
  <2>2. QED
    BY <1>0, <1>4, <2>1, KeepsQueue
<1>6. CASE mac_interrupt \/ eth_rcv \/ LoopEnds \/ Unmask \/ UNCHANGED vars
  <2>1. dev' = dev /\ mac' = mac
    BY <1>6 DEF mac_interrupt, eth_rcv, LoopEnds, Unmask, vars
  <2>2. QED
    BY <1>0, <1>4, <2>1, KeepsQueue
<1>7. CASE Take
  BY <1>0, <1>4, <1>7, KeepsQueue DEF Take
<1>8. CASE Discard
  BY <1>0, <1>4, <1>8, KeepsQueue DEF Discard
<1>9. CASE Repost
  BY <1>0, <1>4, <1>9, KeepsQueue DEF Repost
<1>10. CASE Return
  BY <1>0, <1>4, <1>10, KeepsQueue DEF Return
<1>11. CASE TransmitSleeps \/ EntryWritten
  BY <1>0, <1>4, <1>11, KeepsQueue DEF TransmitSleeps, EntryWritten, Software
<1>12. CASE Arrive
  BY <1>0, <1>4, <1>12, KeepsQueue DEF Arrive, Software
<1>13. QED
  BY <1>1, <1>2, <1>3, <1>5, <1>6, <1>7, <1>8, <1>9, <1>10, <1>11, <1>12
  DEF Next, Main, Handler, Hardware

LEMMA QueueInit == ASSUME Init PROVE Order!Init
<1>1. TypeOK /\ DevOK
  BY InitOK DEF IInv
<1>2. CASE IsQdma
  <2>1. dev = Q!ChainInit
    BY <1>2 DEF Init
  <2>2. dev \in ChainDev
    BY <1>1, <1>2 DEF DevOK, ChainOK
  <2>3. dev.irq = <<>> /\ dev.txDma = 0 /\ dev.txUsing = 0
    BY <2>1 DEF Q!ChainInit
  <2>4. PICK c : ChainTx(dev, c)
    BY <1>1, <1>2 DEF DevOK, ChainOK
  <2>5. c \in Seq(Dscps) /\ Len(c) > 0 /\ c[1] = 0 /\ c[Len(c)] = 0 /\ Once(c)
    BY <2>3, <2>4 DEF ChainTx, Links, Partition
  <2>6. PICK n \in Nat : n = Len(c)
    BY <2>5, LenIs
  <2>7. n = 1
    <3>1. 1 \in 1 .. n /\ n \in 1 .. n
      BY <2>5, <2>6
    <3>2. QED
      BY <2>5, <2>6, <3>1 DEF Once
  <2>8. Q!ChainPending(dev) = Skbs(dev.tx, c, 0) /\ Q!ChainSpent(dev) = Skbs(dev.tx, dev.irq, 0)
    <3>1. /\ Q!ChainPending(dev) = Skbs(dev.tx, c, Len(c) - 1)
          /\ Q!ChainSpent(dev) = Skbs(dev.tx, dev.irq, Len(dev.irq))
      BY <2>2, <2>4, ChainQueue
    <3>2. Len(c) - 1 = 0 /\ Len(dev.irq) = 0
      BY <2>3, <2>6, <2>7
    <3>3. QED
      BY <3>1, <3>2
  <2>9. \A t, a : Skbs(t, a, 0) = <<>>
    BY DEF Skbs
  <2>10. QED
    BY <1>2, <2>8, <2>9 DEF Order!Init
<1>3. CASE ~IsQdma
  <2>1. dev = R!RingInit(mac)
    BY <1>3 DEF Init
  <2>2. dev \in RingDev /\ mac \in R!RingMacs
    BY <1>1, <1>3, MacIs DEF DevOK, RingOK
  <2>3. dev.txUnReleasedBufCnt = 0
    BY <2>1 DEF R!RingInit
  <2>4. PICK s \in 0 .. NTx : RingTx(mac, dev, s)
    BY <1>1, <1>3 DEF DevOK, RingOK
  <2>5. /\ s <= 0 /\ R!RingPending(dev) = Window(Line(dev), s, 0)
        /\ R!RingSpent(dev) = Window(Line(dev), 0, s)
    BY <2>2, <2>3, <2>4, RingQueue
  <2>6. s = 0
    BY <2>5
  <2>7. \A g : Window(g, 0, 0) = <<>>
    BY DEF Window
  <2>8. QED
    BY <1>3, <2>5, <2>6, <2>7 DEF Order!Init
<1>4. QED
  BY <1>2, <1>3

(***************************************************************************)
(* Every driver is a queue (TxQueue): frames leave in the order in which   *)
(* tc3162_eth_send was called, a buffer is freed only after it has left,    *)
(* once and in the same order, and none is queued that is still there,      *)
(* whatever the interrupt does between cli() and the rest; again as long as *)
(* alloc_skb marks a buffer that is still free, since one with two owners   *)
(* could be queued twice.                                                   *)
(***************************************************************************)
THEOREM SendsInOrderAlways == Spec /\ []ClaimIsFree => SendsInOrder
<1>1. Init => Accounted
  BY AccountInit
<1>2. IInv /\ ClaimIsFree /\ Accounted /\ [Next]_vars => Accounted'
  BY AccountStep
<1>3. Init => Order!Init
  BY QueueInit
<1>4. IInv /\ Accounted /\ [Next]_vars => [Order!Next]_(Order!vars)
  BY QueueStep
<1>5. QED
  BY <1>1, <1>2, <1>3, <1>4, Always, PTL DEF Spec, SendsInOrder, Order!Spec

=============================================================================
