----------------------------- MODULE QdmaChains ------------------------------
(***************************************************************************)
(* The descriptor chains of the EN7512's QDMA in the boot loader            *)
(* (7512_eth.c).  A transmit descriptor names its successor, the driver     *)
(* takes one off a list of unused ones for each frame, and the hardware     *)
(* returns the indices of sent ones through an interrupt queue in memory;   *)
(* receive descriptors form a ring in which one is always the end.          *)
(***************************************************************************)
EXTENDS PacketBuffers, Sequences, SequencesExt

CONSTANTS NTx,        \* CONFIG_TX0_DSCP_NUM
          NRx,        \* CONFIG_RX0_DSCP_NUM
          Threshold   \* QDMA_TX_THRESHOLD

TxDscps == 0 .. NTx - 1
RxDscps == 0 .. NRx - 1
After(i) == (i + 1) % NRx          \* the receive ring's `next' pointers

(***************************************************************************)
(* qdma_bm_dscp_init: the unused transmit descriptors in order, the first   *)
(* taken off as the null descriptor the next frame goes to (txUsingPtr);    *)
(* the receive ring filled up to one descriptor.  irq holds the entries of  *)
(* the interrupt queue by their count in the status register; irqWritten of *)
(* them have reached memory, the others still read as the default value.    *)
(***************************************************************************)
ChainPool == [used |-> 0 .. NRx - 2, cur |-> (NRx - 1) % NBufs]

ChainInit ==
  [tx |-> [i \in TxDscps |-> [skb |-> NoBuf, next_idx |-> 0]],
   unused |-> [i \in 1 .. NTx - 1 |-> i],
   txUsing |-> 0, txDma |-> 0,
   irq |-> <<>>, irqWritten |-> 0,
   rx |-> [i \in RxDscps |-> [skb |-> IF i = NRx - 2 THEN NoBuf ELSE After(i),
                              done |-> FALSE, frame |-> "noise"]],
   rxStart |-> NRx - 1, rxEnd |-> NRx - 2, rxDma |-> NRx - 1]

(***************************************************************************)
(* qdma_bm_transmit_done(0): every entry that can be read; the first that   *)
(* cannot ends the loop.  An index that is on the unused list and not its   *)
(* last (its next pointer is not NULL) is refused and stays as it was.      *)
(***************************************************************************)
Refused(d, i) == \E k \in 1 .. Len(d.unused) - 1 : d.unused[k] = i

Readable(d) ==
  LET read[n \in 0 .. d.irqWritten] ==
        IF n = 0 THEN <<>>
        ELSE IF Refused(d, d.irq[n]) THEN read[n - 1]
        ELSE Append(read[n - 1], d.irq[n])
  IN  read[d.irqWritten]

qdma_bm_transmit_done(d) ==
  LET read == Readable(d)
  IN  [d EXCEPT
         !.tx = [i \in TxDscps |-> IF i \in ToSet(read) THEN [@[i] EXCEPT !.skb = NoBuf]
                                   ELSE @[i]],
         !.unused = @ \o read,
         !.irq = SubSeq(@, d.irqWritten + 1, Len(@)),
         !.irqWritten = 0]

\* The first half of qdma_bm_transmit_packet, and the buffers it frees.
Recycles(d) == Len(d.irq) >= Threshold
ChainReclaim(d) == IF Recycles(d) THEN qdma_bm_transmit_done(d) ELSE d
ChainFreed(d) == IF Recycles(d) THEN {d.tx[i].skb : i \in ToSet(Readable(d))} ELSE {}

\* The second half; without an unused descriptor the frame is dropped.
ChainBlocked(d) == d.unused = <<>>
ChainPost(d, b) ==
  [d EXCEPT !.tx[d.txUsing] = [skb |-> b, next_idx |-> Head(d.unused)],
            !.txUsing = Head(d.unused),
            !.unused = Tail(@)]

(***************************************************************************)
(* qdma_bm_receive_packets, one turn: the loop stops at the end descriptor  *)
(* or at one that is not done.  The new buffer is hooked to the descriptor  *)
(* rxUsingPtr names, which is the end of the ring, and the end moves on.    *)
(***************************************************************************)
ChainRxReady(d) == d.rxStart # d.rxEnd /\ d.rx[d.rxStart].done

qdma_bm_hook_receive_buffer(d, b) ==
  IF After(d.rxEnd) = d.rxStart THEN d
  ELSE [d EXCEPT !.rx[d.rxEnd] = [skb |-> b, done |-> FALSE, frame |-> "noise"],
                 !.rxEnd = After(@)]

ChainFrame(d) == d.rx[d.rxStart]

ChainTake(d) == [d EXCEPT !.rx[d.rxStart].skb = NoBuf, !.rxStart = After(@)]

(***************************************************************************)
(* The hardware, as the driver uses it: it works from its own index up to   *)
(* the index the CPU gave it.                                               *)
(***************************************************************************)
ChainTxMay(d) == d.txDma # d.txUsing
ChainTransmit(d) == [d EXCEPT !.txDma = d.tx[@].next_idx, !.irq = Append(@, d.txDma)]
IrqLate(d) == d.irqWritten < Len(d.irq)
IrqWrite(d) == [d EXCEPT !.irqWritten = @ + 1]

ChainRxMay(d) == d.rxDma # d.rxEnd
ChainArrive(d, kind) ==
  IF ChainRxMay(d)
  THEN [d EXCEPT !.rx[d.rxDma].done = TRUE, !.rx[d.rxDma].frame = kind, !.rxDma = After(@)]
  ELSE d

(***************************************************************************)
(* What the chains hold, for the properties.                                *)
(***************************************************************************)
\* The descriptors from the hardware's index to the CPU's, in the order of their links.
Chain(d) ==
  LET step[k \in 0 .. NTx] == IF k = 0 THEN <<d.txDma>>
                             ELSE Append(step[k - 1], d.tx[Last(step[k - 1])].next_idx)
      n == CHOOSE k \in 0 .. NTx : /\ k = NTx \/ Last(step[k]) = d.txUsing
                               /\ \A j \in 0 .. k - 1 : Last(step[j]) # d.txUsing
  IN  step[n]
ChainPending(d) == LET c == Chain(d) IN [i \in 1 .. Len(c) - 1 |-> d.tx[c[i]].skb]
ChainSpent(d) == [i \in 1 .. Len(d.irq) |-> d.tx[d.irq[i]].skb]

ChainHolds(d) ==
  [p \in {<<"tx", i>> : i \in {j \in TxDscps : d.tx[j].skb # NoBuf}}
         \cup {<<"rx", i>> : i \in {j \in RxDscps : d.rx[j].skb # NoBuf}} |->
     IF p[1] = "tx" THEN d.tx[p[2]].skb ELSE d.rx[p[2]].skb]

\* The links lead from the hardware's index to the CPU's, and every descriptor is in one place.
ChainsAgree(d) ==
  LET c == Chain(d)
      all == c \o d.unused \o d.irq
  IN  /\ Last(c) = d.txUsing
      /\ Len(all) = NTx /\ ToSet(all) = TxDscps
=============================================================================
