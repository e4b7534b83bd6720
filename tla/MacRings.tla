------------------------------ MODULE MacRings -------------------------------
(***************************************************************************)
(* The descriptor rings of the four older Ethernet MACs of the boot loader: *)
(*   mac    mac.c          TC3162                                           *)
(*   l2mac  tc3162l2mac.c  TC3162 with an L2 switch                         *)
(*   gmac   tc3262gmac.c   TC3262                                           *)
(*   femac  femac.c        the frame engine of the MT7510 and MT7520        *)
(* One of them is linked into a loader.  They are one algorithm with the    *)
(* differences named below; a ring d is a record of its descriptors and of  *)
(* the indices the driver and the hardware keep.                            *)
(***************************************************************************)
EXTENDS PacketBuffers

CONSTANTS NTx, NRx        \* descriptors in each ring

RingMacs == {"mac", "l2mac", "gmac", "femac"}

TxSlots == 0 .. NTx - 1
RxSlots == 0 .. NRx - 1

\* What a received frame is to the loader.
FrameKinds == {"arp", "tftp", "noise", "short", "damaged"}

(***************************************************************************)
(* Where the drivers differ.                                                *)
(***************************************************************************)
\* mac.c gives back at most one descriptor for each frame it sends.
ReclaimsOne(mac) == mac = "mac"
\* and leaves one descriptor unused.
TxLimit(mac) == IF mac = "mac" THEN NTx - 1 ELSE NTx
\* mac.c and tc3162l2mac.c wake a DMA engine that went to sleep; the others move an index.
Polled(mac) == mac \in {"mac", "l2mac"}
\* femac.c looks at the length and at nothing else.
Rejected(mac, kind) == kind = "short" \/ (kind = "damaged" /\ mac # "femac")

(***************************************************************************)
(* Set-up: every receive descriptor gets a buffer and is the hardware's.    *)
(* txHead and rxHead are the hardware's positions, in tc3262gmac.c with the *)
(* wrap bit above the index; txDoor and rxDoor are what the driver last     *)
(* told it: awake or not, the index with the wrap bit, or the bare index.   *)
(***************************************************************************)
RingPool == [used |-> RxSlots, cur |-> NRx % NBufs]

EmptyTx == [i \in TxSlots |-> [own |-> FALSE, skb |-> NoBuf]]

PostedRx == [i \in RxSlots |-> [own |-> TRUE, skb |-> i, frame |-> "noise"]]

FirstRxDoor(mac) == CASE Polled(mac) -> 1 [] mac = "gmac" -> NRx [] OTHER -> NRx - 1

RingInit(mac) ==
  [tx |-> EmptyTx, rx |-> PostedRx,
   txCurrentDescp |-> 0, txUnReleasedDescp |-> 0, txUnReleasedBufCnt |-> 0,
   rxCurrentDescp |-> 0,
   txHead |-> 0, rxHead |-> 0,
   txDoor |-> 0, rxDoor |-> FirstRxDoor(mac)]

(***************************************************************************)
(* Sending.  macTxRingProc gives back the descriptors the hardware is done  *)
(* with, oldest first, up to the first one that is still the hardware's.    *)
(***************************************************************************)
TxAt(d, i) == (d.txUnReleasedDescp + i) % NTx

\* Mutation: descriptors are given back whoever owns them.
SentAnyOwner(d) == 0 .. d.txUnReleasedBufCnt

Sent(d) == {n \in 0 .. d.txUnReleasedBufCnt : \A i \in 0 .. n - 1 : ~d.tx[TxAt(d, i)].own}

Released(mac, d) ==
  LET all == CHOOSE n \in Sent(d) : \A k \in Sent(d) : k <= n
  IN  IF ReclaimsOne(mac) /\ all > 1 THEN 1 ELSE all

Gone(mac, d) == {TxAt(d, i) : i \in 0 .. Released(mac, d) - 1}

macTxRingProc(mac, d) ==
  LET n == Released(mac, d)
      gone == Gone(mac, d)
  IN  [d EXCEPT
         !.tx = [i \in TxSlots |-> IF i \in gone THEN [@[i] EXCEPT !.skb = NoBuf] ELSE @[i]],
         !.txUnReleasedDescp = TxAt(d, n),
         !.txUnReleasedBufCnt = @ - n]

\* The buffers it frees.
RingFreed(mac, d) == {d.tx[i].skb : i \in Gone(mac, d)}

\* Mutation: the index of tc3262gmac.c without its wrap bit.
TxDoorNoWrap(mac, d) ==
  CASE Polled(mac) -> 1
    [] OTHER       -> (d.txCurrentDescp + 1) % NTx

\* Mutation: a sleeping engine is not woken.
TxDoorNoPoll(mac, d) ==
  CASE Polled(mac)  -> d.txDoor
    [] mac = "gmac" -> (d.txDoor + 1) % (2 * NTx)
    [] OTHER        -> (d.txCurrentDescp + 1) % NTx

\* The doorbell after a descriptor: wake up, the next index with its wrap bit, or the next index.
TxDoorAfter(mac, d) ==
  CASE Polled(mac)  -> 1
    [] mac = "gmac" -> (d.txDoor + 1) % (2 * NTx)
    [] OTHER        -> (d.txCurrentDescp + 1) % NTx

TxBlocked(mac, d) == d.txUnReleasedBufCnt = TxLimit(mac) \/ d.tx[d.txCurrentDescp].own

\* The second half of tc3162_eth_send, when the frame is not dropped.
RingPost(mac, d, b) ==
  [d EXCEPT !.tx[d.txCurrentDescp] = [own |-> TRUE, skb |-> b],
            !.txCurrentDescp = (@ + 1) % NTx,
            !.txUnReleasedBufCnt = @ + 1,
            !.txDoor = TxDoorAfter(mac, d)]

(***************************************************************************)
(* Receiving: one turn of the loop in macRxRingProc.  A frame that is       *)
(* rejected leaves its buffer in the descriptor; otherwise the buffer is    *)
(* taken, and when eth_rcv is done with it another takes its place.         *)
(***************************************************************************)
RingRxReady(d) == ~d.rx[d.rxCurrentDescp].own
RingFrame(d) == d.rx[d.rxCurrentDescp]

RxDoorAfter(mac, d) ==
  CASE Polled(mac)  -> d.rxDoor
    [] mac = "gmac" -> (d.rxDoor + 1) % (2 * NRx)
    [] OTHER        -> d.rxCurrentDescp

RingTake(d) == [d EXCEPT !.rx[d.rxCurrentDescp].skb = NoBuf]

RingRepost(mac, d, b) ==
  [d EXCEPT !.rx[d.rxCurrentDescp] = [own |-> TRUE, skb |-> b, frame |-> "noise"],
            !.rxCurrentDescp = (@ + 1) % NRx,
            !.rxDoor = RxDoorAfter(mac, d)]

\* MAC_RX_POLL_DEMAND_ at the end of the interrupt handler.
RxPollDemand(mac, d) == IF Polled(mac) THEN [d EXCEPT !.rxDoor = 1] ELSE d

(***************************************************************************)
(* The hardware, as the drivers use it.                                     *)
(***************************************************************************)
TxIdx(d) == d.txHead % NTx
RxIdx(d) == d.rxHead % NRx

TxMay(mac, d) ==
  CASE Polled(mac)  -> d.txDoor = 1 /\ d.tx[TxIdx(d)].own
    [] mac = "gmac" -> d.txHead # d.txDoor
    [] OTHER        -> TxIdx(d) # d.txDoor

RxMay(mac, d) ==
  CASE Polled(mac)  -> d.rxDoor = 1 /\ d.rx[RxIdx(d)].own
    [] mac = "gmac" -> d.rxHead # d.rxDoor
    [] OTHER        -> RxIdx(d) # d.rxDoor

RingTransmit(d) == [d EXCEPT !.tx[TxIdx(d)].own = FALSE,
                             !.txHead = (@ + 1) % (2 * NTx)]

\* An engine that is polled goes to sleep on a descriptor that is not its own.
TxSleeps(mac, d) == Polled(mac) /\ d.txDoor = 1 /\ ~d.tx[TxIdx(d)].own

RingArrive(mac, d, kind) ==
  IF RxMay(mac, d)
  THEN [d EXCEPT !.rx[RxIdx(d)].own = FALSE, !.rx[RxIdx(d)].frame = kind,
                 !.rxHead = (@ + 1) % (2 * NRx)]
  ELSE IF Polled(mac) THEN [d EXCEPT !.rxDoor = 0] ELSE d

(***************************************************************************)
(* What the ring holds, for the properties.                                 *)
(***************************************************************************)
RingOwned(d) == {i \in TxSlots : d.tx[i].own}

\* The buffers given to the hardware and not sent, and those sent and not given back.
RingPending(d) ==
  [i \in 1 .. Cardinality(RingOwned(d)) |-> d.tx[(TxIdx(d) + i - 1) % NTx].skb]
RingSpent(d) ==
  [i \in 1 .. d.txUnReleasedBufCnt - Cardinality(RingOwned(d)) |-> d.tx[TxAt(d, i - 1)].skb]

RingHolds(d) ==
  [p \in {<<"tx", i>> : i \in {j \in TxSlots : d.tx[j].skb # NoBuf}}
         \cup {<<"rx", i>> : i \in {j \in RxSlots : d.rx[j].skb # NoBuf}} |->
     IF p[1] = "tx" THEN d.tx[p[2]].skb ELSE d.rx[p[2]].skb]

\* The hardware's side of each index is exactly the descriptors that are the hardware's.
RingIndicesAgree(mac, d) ==
  /\ d.txUnReleasedBufCnt = Cardinality({i \in TxSlots : d.tx[i].skb # NoBuf})
  /\ TxAt(d, d.txUnReleasedBufCnt) = d.txCurrentDescp
  /\ mac = "gmac" => /\ (d.txDoor + 2 * NTx - d.txHead) % (2 * NTx) = Cardinality(RingOwned(d))
                     /\ (d.rxDoor + 2 * NRx - d.rxHead) % (2 * NRx)
                          = Cardinality({i \in RxSlots : d.rx[i].own})
  /\ mac = "femac" /\ RxMay(mac, d) => d.rx[RxIdx(d)].own
=============================================================================
