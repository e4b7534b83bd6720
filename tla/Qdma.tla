-------------------------------- MODULE Qdma ---------------------------------
(***************************************************************************)
(* The Linux driver of the QDMA Ethernet engine (src/eth.c).  Two network   *)
(* devices share one transmit ring and one receive ring.  mtk_start_xmit    *)
(* runs on any processor under page_lock; the interrupt handler takes no    *)
(* lock and runs beside it, and so does the hardware.  A socket buffer is   *)
(* known by the number of the send, a received frame by its number.         *)
(***************************************************************************)
EXTENDS Naturals, Sequences, FiniteSets

CONSTANTS
  TX0_DSCP_NUM, RX0_DSCP_NUM,
  Cpus, Devs,
  MaxSends, MaxFrames, MaxTraffic, \* bounds: frames sent, frames received, both together,
  MaxOpens,                        \* calls of mtk_open,
  MaxFails                         \* calls of rx0_new_skb, dma_map_single, skb_padto that fail

ASSUME QdmaAssumption ==
  /\ TX0_DSCP_NUM \in Nat /\ TX0_DSCP_NUM > 2
  /\ RX0_DSCP_NUM \in Nat /\ RX0_DSCP_NUM > 1
  /\ MaxSends \in Nat /\ MaxFrames \in Nat /\ MaxTraffic \in Nat
  /\ MaxOpens \in Nat /\ MaxFails \in Nat
  /\ IsFiniteSet(Devs)

VARIABLES
  opened,     \* devices between mtk_open and mtk_stop
  refcnt,     \* eth->dma_refcnt
  enabled,    \* the DMA engine runs: QDMA_CSR_GLB_CFG
  rxMask,     \* INT_STATUS_RX0_DONE is in MTK_QDMA_INT_MASK
  stopped,    \* the last device was stopped once
  tx,         \* TX descriptors: pkt_addr # 0, ctrl.done, and dscp_sk_buff_p_ary
  txCpu, txDma,
  lock,       \* who holds page_lock
  xmit,       \* per processor: where mtk_start_xmit is, its buffer, its device, its idx
  rx,         \* RX descriptors: the frame received last, ctrl.done, pkt_addr # 0, whether
              \* dscp_sk_buff_p_ary has a buffer, and the frame that buffer holds
  rxCpu, rxDma,
  rx0Done,    \* INT_STATUS_RX0_DONE
  entries,    \* the length of the interrupt queue: INT_STATUS_TX0_DONE while it is not 0
  irq,        \* the interrupt handler: where it is, the mask, status and index it read
  sends, opens, arrived, fails, \* counters
  freed,      \* how often the driver freed each buffer
  unpadded,   \* buffers that skb_padto freed because it could not make room
  lost,       \* buffers in the ring when it was set up anew
  delivered,  \* frames given to netif_rx
  blank,      \* a buffer that nothing was received into was given to netif_rx
  served,     \* the last frame the handler took or dropped
  quiet       \* the last frame that arrived while no handler ran

txVars == <<tx, txCpu, txDma>>
rxVars == <<rx, rxCpu, rxDma, rx0Done, arrived, quiet>>
rcvd == <<delivered, blank, served>>
admin == <<opened, refcnt, enabled, rxMask, stopped, opens, lost>>
frees == <<freed, unpadded>>
vars == <<admin, txVars, lock, xmit, rxVars, entries, irq, sends, fails, frees, rcvd>>

Count(b) == IF b THEN 1 ELSE 0
TxIdx == 0 .. TX0_DSCP_NUM - 1
RxIdx == 0 .. RX0_DSCP_NUM - 1
Skbs == 1 .. MaxSends
NoSkb == 0
NoFrame == 0
Nobody == "nobody"

ASSUME LockAssumption == Nobody \notin Cpus

\* next_idx: qdma_initialize_tx_ring links all but the last, whose 0 comes from the memset.
NextIdx(i) == IF i = TX0_DSCP_NUM - 1 THEN 0 ELSE i + 1

IdleXmit == [pc |-> "idle", skb |-> NoSkb, dev |-> Nobody, idx |-> 0]
IdleIrq == [pc |-> "idle", mask |-> FALSE, rx |-> FALSE, val |-> 0, len |-> 0]

Init ==
  /\ opened = {} /\ refcnt = 0 /\ enabled = FALSE /\ rxMask = FALSE /\ stopped = FALSE
  /\ opens = 0 /\ lost = {}
  /\ tx = [i \in TxIdx |-> [addr |-> FALSE, done |-> FALSE, skb |-> NoSkb]]
  /\ txCpu = 0 /\ txDma = 0
  /\ lock = Nobody /\ xmit = [c \in Cpus |-> IdleXmit]
  /\ rx = [i \in RxIdx |-> [frame |-> NoFrame, done |-> FALSE, addr |-> FALSE,
                             skb |-> FALSE, held |-> NoFrame]]
  /\ rxCpu = 0 /\ rxDma = 0 /\ rx0Done = FALSE
  /\ entries = 0 /\ irq = IdleIrq
  /\ sends = 0 /\ arrived = 0 /\ fails = 0 /\ quiet = 0
  /\ freed = [s \in Skbs |-> 0] /\ unpadded = {}
  /\ delivered = <<>> /\ blank = FALSE /\ served = 0

(***************************************************************************)
(* mtk_open and mtk_stop, one at a time under the RTNL lock, beside the     *)
(* interrupt handler and the engine.  qdma_config sets the rings up without *)
(* looking at what dscp_sk_buff_p_ary or the status register still hold; a  *)
(* receive descriptor that gets no buffer has no address, and keeps what    *)
(* dscp_sk_buff_p_ary had for it (eth.c:1113 ignores the failure).          *)
(***************************************************************************)
Ring == {tx[i].skb : i \in {j \in TxIdx : tx[j].skb # NoSkb}}

NewBuffer == [frame |-> NoFrame, done |-> FALSE, addr |-> TRUE, skb |-> TRUE, held |-> NoFrame]
NoBuffer(r) ==
  [frame |-> NoFrame, done |-> FALSE, addr |-> FALSE, skb |-> r.skb, held |-> r.held]

qdma_initialize_rx_ring ==
  \E full \in SUBSET RxIdx :
    /\ fails' = fails + Cardinality(RxIdx \ full) /\ fails' <= MaxFails
    /\ rx' = [i \in RxIdx |-> IF i \in full THEN NewBuffer ELSE NoBuffer(rx[i])]

qdma_config ==
  /\ tx' = [i \in TxIdx |-> [addr |-> FALSE, done |-> FALSE, skb |-> tx[i].skb]]
  /\ txCpu' = 0 /\ txDma' = 0
  /\ lost' = lost \cup Ring
  /\ qdma_initialize_rx_ring
  /\ rxCpu' = RX0_DSCP_NUM /\ rxDma' = 0 /\ quiet' = 0
  /\ entries' = 0
  /\ enabled' = TRUE /\ rxMask' = TRUE

mtk_open(d) ==
  /\ d \notin opened /\ opens < MaxOpens
  /\ opened' = opened \cup {d}
  /\ opens' = opens + 1
  /\ IF refcnt = 0
     THEN qdma_config /\ refcnt' = 1
     ELSE /\ refcnt' = refcnt + 1
          /\ UNCHANGED <<txVars, rx, rxCpu, rxDma, quiet, entries, fails, enabled, rxMask, lost>>
  /\ UNCHANGED <<stopped, lock, xmit, rx0Done, arrived, irq, sends, frees, rcvd>>

\* What the last stop does: mtk_stop_dma writes MTK_QDMA_GLO_CFG and MTK_PDMA_GLO_CFG, which
\* are not QDMA_CSR_GLB_CFG, so the engine runs on.  mtk_tx_irq_disable clears MTK_TX_DONE_INT
\* in MTK_QDMA_INT_MASK; whether the kernel's value of it covers INT_STATUS_RX0_DONE, either way.
mtk_stop_dma ==
  /\ lock = Nobody
  /\ stopped' = TRUE
  /\ rxMask' \in {rxMask, FALSE}

\* Mutation: every stop does it, not only that of the last user.
StopAlways(d) ==
  /\ d \in opened
  /\ \A c \in Cpus : xmit[c].dev # d
  /\ opened' = opened \ {d}
  /\ refcnt' = refcnt - 1
  /\ mtk_stop_dma
  /\ UNCHANGED <<enabled, opens, lost, txVars, lock, xmit, rxVars, entries, irq, sends, fails,
                 frees, rcvd>>

\* netif_tx_disable waits for the transmissions of the device that are under way.
mtk_stop(d) ==
  /\ d \in opened
  /\ \A c \in Cpus : xmit[c].dev # d
  /\ opened' = opened \ {d}
  /\ refcnt' = refcnt - 1
  /\ IF refcnt = 1 THEN mtk_stop_dma ELSE UNCHANGED <<stopped, rxMask>>
  /\ UNCHANGED <<enabled, opens, lost, txVars, lock, xmit, rxVars, entries, irq, sends, fails,
                 frees, rcvd>>

(***************************************************************************)
(* mtk_start_xmit.                                                          *)
(***************************************************************************)
Within == sends + arrived < MaxTraffic
At(c, l) == xmit[c].pc = l
Rest == UNCHANGED <<admin, rxVars, entries, irq, unpadded, rcvd>>

\* Mutation: page_lock is not waited for.
XmitUnlocked(c, d) ==
  /\ At(c, "idle") /\ d \in opened /\ sends < MaxSends /\ Within
  /\ lock' = c
  /\ sends' = sends + 1
  /\ xmit' = [xmit EXCEPT ![c] = [pc |-> "busy", skb |-> sends + 1, dev |-> d, idx |-> 0]]
  /\ UNCHANGED <<fails, txVars, freed>> /\ Rest

Xmit(c, d) ==
  /\ At(c, "idle") /\ d \in opened /\ sends < MaxSends /\ Within
  /\ lock = Nobody /\ lock' = c
  /\ sends' = sends + 1
  /\ xmit' = [xmit EXCEPT ![c] = [pc |-> "busy", skb |-> sends + 1, dev |-> d, idx |-> 0]]
  /\ UNCHANGED <<fails, txVars, freed>> /\ Rest

\* The drop label: unlock and free the buffer.
DropOnEntry(c) ==
  /\ xmit' = [xmit EXCEPT ![c] = IdleXmit]
  /\ lock' = Nobody
  /\ freed' = [freed EXCEPT ![xmit[c].skb] = @ + 1]

\* GLB_CFG_TX_DMA_BUSY: the engine has descriptors to send.
TxBusy == enabled /\ txDma # txCpu

\* Mutation: the busy bit is not looked at.
BusyIgnored(c) ==
  /\ At(c, "busy")
  /\ xmit' = [xmit EXCEPT ![c].pc = "map", ![c].idx = txCpu]
  /\ UNCHANGED <<fails, txVars, sends, lock, freed>> /\ Rest

qdma_busy_wait(c) ==
  /\ At(c, "busy")
  /\ IF TxBusy
     THEN DropOnEntry(c)
     ELSE /\ xmit' = [xmit EXCEPT ![c].pc = "map", ![c].idx = txCpu]
          /\ UNCHANGED <<lock, freed>>
  /\ UNCHANGED <<fails, txVars, sends>> /\ Rest

\* A short frame is padded first.  Where that fails skb_padto frees the buffer, and mtk_tx_map
\* goes on with it (eth.c:748): it is mapped and sent, or dropped, and freed once more.
tx0_dscp_pkt_addr(c) ==
  /\ At(c, "map")
  /\ \E padFails, mapFails \in BOOLEAN :
       /\ fails' = fails + Count(padFails) + Count(mapFails) /\ fails' <= MaxFails
       /\ unpadded' = IF padFails THEN unpadded \cup {xmit[c].skb} ELSE unpadded
       /\ IF mapFails
          THEN tx' = [tx EXCEPT ![xmit[c].idx].addr = FALSE] /\ DropOnEntry(c)
          ELSE /\ tx' = [tx EXCEPT ![xmit[c].idx].addr = TRUE, ![xmit[c].idx].skb = xmit[c].skb]
               /\ xmit' = [xmit EXCEPT ![c].pc = "free"]
               /\ UNCHANGED <<lock, freed>>
  /\ UNCHANGED <<admin, rxVars, entries, irq, rcvd, txCpu, txDma, sends>>

Ahead(c) == {NextIdx(xmit[c].idx), NextIdx(NextIdx(xmit[c].idx))}

FreeAhead(c) ==
  /\ freed' = [s \in Skbs |-> freed[s] + Cardinality({i \in Ahead(c) : tx[i].addr /\ tx[i].skb = s})]
  /\ xmit' = [xmit EXCEPT ![c].pc = "cpu"]
  /\ UNCHANGED <<fails, txCpu, txDma, sends, lock>> /\ Rest

\* Mutation: the descriptors ahead keep their done bit.
FreeSomeKeepsDone(c) ==
  /\ At(c, "free")
  /\ tx' = [i \in TxIdx |->
             IF i \in Ahead(c)
             THEN [tx[i] EXCEPT !.addr = FALSE, !.skb = IF tx[i].addr THEN NoSkb ELSE @]
             ELSE tx[i]]
  /\ FreeAhead(c)

\* The two descriptors ahead are emptied whether or not they have been sent.
tx0_free_some(c) ==
  /\ At(c, "free")
  /\ tx' = [i \in TxIdx |->
             IF i \in Ahead(c)
             THEN [addr |-> FALSE, done |-> FALSE, skb |-> IF tx[i].addr THEN NoSkb ELSE tx[i].skb]
             ELSE tx[i]]
  /\ FreeAhead(c)

\* Mutation: the index runs past the ring.
CpuIdxNoWrap(c) ==
  /\ At(c, "cpu")
  /\ txCpu' = xmit[c].idx + 1
  /\ xmit' = [xmit EXCEPT ![c] = IdleXmit]
  /\ lock' = Nobody
  /\ UNCHANGED <<fails, tx, txDma, sends, freed>> /\ Rest

TxCpuIdx(c) ==
  /\ At(c, "cpu")
  /\ txCpu' = NextIdx(xmit[c].idx)
  /\ xmit' = [xmit EXCEPT ![c] = IdleXmit]
  /\ lock' = Nobody
  /\ UNCHANGED <<fails, tx, txDma, sends, freed>> /\ Rest

mtk_start_xmit(c) ==
  \/ \E d \in Devs : Xmit(c, d)
  \/ qdma_busy_wait(c) \/ tx0_dscp_pkt_addr(c) \/ tx0_free_some(c) \/ TxCpuIdx(c)

(***************************************************************************)
(* mtk_handle_irq: received frames come first and exclude the rest; what    *)
(* was read from the status register is acknowledged at the end.            *)
(***************************************************************************)
IrqAt(l) == irq.pc = l
Beside == UNCHANGED <<admin, txVars, lock, xmit, sends, frees>>

\* The interrupt line: what is pending and not masked, and sent descriptors (eth.c:1165).
Raised == (rx0Done /\ rxMask) \/ entries > 0

\* Mutation: sent descriptors come first.
StatusTxFirst ==
  /\ IrqAt("idle") /\ Raised
  /\ irq' = [IdleIrq EXCEPT !.mask = rxMask, !.rx = rx0Done, !.pc = IF entries > 0 THEN "len" ELSE "index"]
  /\ UNCHANGED <<rxVars, entries, fails, rcvd>> /\ Beside

IrqStatus ==
  /\ IrqAt("idle") /\ Raised
  /\ irq' = [IdleIrq EXCEPT !.mask = rxMask, !.rx = rx0Done, !.pc = IF rx0Done THEN "index" ELSE "len"]
  /\ UNCHANGED <<rxVars, entries, fails, rcvd>> /\ Beside

rx0_done ==
  /\ IrqAt("index")
  /\ irq' = [irq EXCEPT !.val = (rxDma + RX0_DSCP_NUM - 1) % RX0_DSCP_NUM, !.pc = "pop"]
  /\ UNCHANGED <<rxVars, entries, fails, rcvd>> /\ Beside

Reuse(r) == [frame |-> NoFrame, done |-> FALSE, addr |-> r.addr, skb |-> r.skb, held |-> r.held]

\* What rx0_pop_skb does at descriptor i: the stack gets the buffer that is there and the
\* descriptor a new one; without memory for that the frame is dropped.
TakeAt(i) ==
  /\ \/ /\ rx' = [rx EXCEPT ![i] = NewBuffer]
        /\ delivered' = IF rx[i].skb /\ rx[i].held # NoFrame
                        THEN Append(delivered, rx[i].held) ELSE delivered
        /\ blank' = (blank \/ (rx[i].skb /\ rx[i].held = NoFrame))
        /\ UNCHANGED fails
     \/ /\ fails < MaxFails /\ fails' = fails + 1
        /\ rx' = [rx EXCEPT ![i] = Reuse(rx[i])]
        /\ UNCHANGED <<delivered, blank>>
  /\ rxCpu' = i
  /\ served' = rx[i].frame

\* Mutation: the descriptor at the index is taken, not the one before it.
PopAtIndex ==
  /\ IrqAt("pop")
  /\ TakeAt((irq.val + 1) % RX0_DSCP_NUM)
  /\ irq' = [irq EXCEPT !.pc = "ack"]
  /\ UNCHANGED <<rxDma, rx0Done, arrived, quiet, entries>> /\ Beside

rx0_pop_skb ==
  /\ IrqAt("pop")
  /\ TakeAt(irq.val)
  /\ irq' = [irq EXCEPT !.pc = "ack"]
  /\ UNCHANGED <<rxDma, rx0Done, arrived, quiet, entries>> /\ Beside

QueueLength ==
  /\ IrqAt("len")
  /\ irq' = [irq EXCEPT !.len = entries, !.pc = "clear"]
  /\ UNCHANGED <<rxVars, entries, fails, rcvd>> /\ Beside

\* Mutation: the queue is not emptied.
RecycleNothing ==
  /\ IrqAt("clear")
  /\ irq' = [irq EXCEPT !.pc = "ack"]
  /\ UNCHANGED <<rxVars, entries, fails, rcvd>> /\ Beside

tx0_recycle_if_required ==
  /\ IrqAt("clear")
  /\ entries' = IF irq.len > entries THEN 0 ELSE entries - irq.len
  /\ irq' = [irq EXCEPT !.pc = "ack"]
  /\ UNCHANGED <<rxVars, fails, rcvd>> /\ Beside

\* status & mask, both as read at the start; INT_STATUS_TX0_DONE is never in the mask.
Acknowledge ==
  /\ IrqAt("ack")
  /\ rx0Done' = (rx0Done /\ ~(irq.rx /\ irq.mask))
  /\ irq' = IdleIrq
  /\ UNCHANGED <<rx, rxCpu, rxDma, arrived, quiet, entries, fails, rcvd>> /\ Beside

mtk_handle_irq ==
  IrqStatus \/ rx0_done \/ rx0_pop_skb \/ QueueLength \/ tx0_recycle_if_required \/ Acknowledge

(***************************************************************************)
(* The engine, as the driver uses it.  It sends up to the processor's index *)
(* and stands still at a descriptor that is already done.  It receives up   *)
(* to the processor's index and writes over frames nobody took; what comes  *)
(* to a descriptor without an address reaches no buffer.                    *)
(***************************************************************************)
Transmit ==
  /\ TxBusy /\ ~tx[txDma].done
  /\ tx' = [tx EXCEPT ![txDma].done = TRUE]
  /\ txDma' = NextIdx(txDma)
  /\ entries' = entries + 1
  /\ UNCHANGED <<admin, txCpu, lock, xmit, rxVars, irq, sends, fails, frees, rcvd>>

Fill(r, f) ==
  [frame |-> f, done |-> TRUE, addr |-> r.addr, skb |-> r.skb,
   held |-> IF r.addr THEN f ELSE r.held]

Arrive ==
  /\ enabled /\ arrived < MaxFrames /\ Within
  /\ arrived' = arrived + 1
  /\ IF rxDma # rxCpu
     THEN /\ rx' = [rx EXCEPT ![rxDma] = Fill(rx[rxDma], arrived + 1)]
          /\ rxDma' = (rxDma + 1) % RX0_DSCP_NUM
          /\ rx0Done' = TRUE
          /\ quiet' = IF IrqAt("idle") THEN arrived + 1 ELSE quiet
     ELSE UNCHANGED <<rx, rxDma, rx0Done, quiet>>
  /\ UNCHANGED <<admin, txVars, lock, xmit, rxCpu, entries, irq, sends, fails, frees, rcvd>>

-----------------------------------------------------------------------------
Next ==
  \/ \E d \in Devs : mtk_open(d) \/ mtk_stop(d)
  \/ \E c \in Cpus : mtk_start_xmit(c)
  \/ mtk_handle_irq
  \/ Transmit \/ Arrive

Spec == Init /\ [][Next]_vars

\* Processors finish what they started, a pending interrupt is taken, the engine sends.
Fairness ==
  /\ \A c \in Cpus : WF_vars(qdma_busy_wait(c) \/ tx0_dscp_pkt_addr(c)
                              \/ tx0_free_some(c) \/ TxCpuIdx(c))
  /\ WF_vars(mtk_handle_irq)
  /\ WF_vars(Transmit)

FairSpec == Spec /\ Fairness

-----------------------------------------------------------------------------
TypeOK ==
  /\ opened \subseteq Devs /\ refcnt \in 0 .. Cardinality(Devs)
  /\ enabled \in BOOLEAN /\ rxMask \in BOOLEAN /\ stopped \in BOOLEAN /\ blank \in BOOLEAN
  /\ tx \in [TxIdx -> [addr : BOOLEAN, done : BOOLEAN, skb : Skbs \cup {NoSkb}]]
  /\ txCpu \in TxIdx /\ txDma \in TxIdx
  /\ lock \in Cpus \cup {Nobody}
  /\ xmit \in [Cpus -> [pc : {"idle", "busy", "map", "free", "cpu"},
                        skb : Skbs \cup {NoSkb}, dev : Devs \cup {Nobody}, idx : TxIdx]]
  /\ rx \in [RxIdx -> [frame : 0 .. MaxFrames, done : BOOLEAN, addr : BOOLEAN,
                        skb : BOOLEAN, held : 0 .. MaxFrames]]
  /\ rxCpu \in 0 .. RX0_DSCP_NUM /\ rxDma \in RxIdx
  /\ rx0Done \in BOOLEAN /\ entries \in 0 .. MaxSends
  /\ freed \in [Skbs -> 0 .. MaxSends] /\ unpadded \subseteq Skbs
  /\ opens \in 0 .. MaxOpens /\ fails \in 0 .. MaxFails /\ lost \subseteq Skbs

\* The descriptors the engine has still to send.
Queued == {i \in TxIdx : (i + TX0_DSCP_NUM - txDma) % TX0_DSCP_NUM
                           < (txCpu + TX0_DSCP_NUM - txDma) % TX0_DSCP_NUM}

\* How often a buffer was freed, by the driver and by skb_padto.
TimesFreed(s) == freed[s] + Count(s \in unpadded)

(***************************************************************************)
(* No buffer is freed twice, and none that the engine has still to read is  *)
(* freed, although mtk_start_xmit frees ahead of itself without asking      *)
(* whether the descriptors were sent (eth.c:663): the busy bit is up from   *)
(* the write of the index to the last fetch.  The one exception, and it is  *)
(* the only one, is a buffer that could not be padded (eth.c:748).          *)
(***************************************************************************)
NotFreedUnsent ==
  /\ \A s \in Skbs : TimesFreed(s) > 1 => s \in unpadded /\ freed[s] = 1
  /\ \A i \in Queued :
       /\ tx[i].skb # NoSkb
       /\ TimesFreed(tx[i].skb) > 0 => tx[i].skb \in unpadded /\ freed[tx[i].skb] = 0

\* Every buffer handed to the driver is freed, in exactly one descriptor, or in the hands of
\* the call that brought it, except those left in the ring by an earlier session (eth.c:1117);
\* one that could not be padded is in one of these places and freed on top of it (eth.c:748).
SkbsAccounted ==
  \A s \in 1 .. sends :
    s \notin lost =>
      TimesFreed(s) + Cardinality({i \in TxIdx : tx[i].addr /\ tx[i].skb = s})
        + Cardinality({c \in Cpus : xmit[c].skb = s /\ xmit[c].pc \in {"busy", "map"}})
      = 1 + Count(s \in unpadded)

\* While any device is open the engine runs and its receive interrupt is on, in whatever order
\* the two that share it are opened and stopped (eth.c:1210, eth.c:1265).  Nothing is said of
\* the time when none is open: the engine then runs on.
RunsWhileOpen == opened # {} => enabled /\ rxMask

\* The stack gets no frame twice; and until the last device is stopped for the first time it
\* gets no empty buffer and the frames in the order of their arrival, although the handler
\* guesses the descriptor from the engine's index (eth.c:934).  Once the rings are set up anew
\* beside the handler, with the status of before, an empty buffer can be handed up (eth.c:1210).
DeliveredOnce ==
  /\ \A j, k \in DOMAIN delivered : j # k => delivered[j] # delivered[k]
  /\ ~stopped => ~blank /\ \A k \in 1 .. Len(delivered) - 1 : delivered[k] < delivered[k + 1]

\* A frame that arrives while no handler runs is served or a later one is, unless the receive
\* interrupt is masked or the ring set up anew: the acknowledgement at the end never covers a
\* receive the handler has not looked at (eth.c:1022).
QuietIsServed == \A f \in 1 .. MaxFrames : quiet = f ~> served >= f \/ quiet = 0 \/ ~rxMask

\* What is queued is sent: the engine never stands before a done bit (eth.c:663).
QueuedIsSent == Queued # {} ~> Queued = {}

\* The interrupt queue does not fill up (eth.c:978), unless the receive interrupt is masked: a
\* receive that is pending then is served before the queue for ever and never acknowledged.
QueueIsEmptied == entries > 0 ~> entries = 0 \/ ~rxMask
=============================================================================
