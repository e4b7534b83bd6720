----------------------------- MODULE QdmaProofs ------------------------------
(***************************************************************************)
(* The QDMA driver, for rings of any size, any processors and devices, and  *)
(* any number of failures of padding, mapping and allocation.               *)
(*                                                                         *)
(* mtk_start_xmit frees the two descriptors ahead of its own whether they   *)
(* were sent or not.  What makes that safe is that it passes the busy bit   *)
(* under page_lock: past it the engine has nothing to send (Caught), and    *)
(* the write of the index gives it one descriptor, whose buffer nobody has  *)
(* freed (OneToSend).  A buffer is in at most one descriptor (Holding) or   *)
(* in the hands of the call that brought it (InHand).  None is forgotten in *)
(* its descriptor (Somewhere), because the next call to use that one finds  *)
(* it emptied by the calls before (Spare).                                  *)
(*                                                                         *)
(* On the receive side the handler guesses the descriptor from the engine's *)
(* index while the engine goes on.  Until the last device is stopped for    *)
(* the first time, from the status to the pop, and from an arrival to the   *)
(* next status, the descriptor it will look at holds a frame younger than   *)
(* any it looked at (Pending), so what it hands up is in order and never    *)
(* empty (Handed).  At all times no buffer holds what was handed up (Once). *)
(***************************************************************************)
EXTENDS Qdma, FiniteSetTheorems, TLAPS

Past(c) == xmit[c].pc \in {"map", "free", "cpu"}
Laid(c) == xmit[c].pc \in {"free", "cpu"}
Has(c)  == xmit[c].pc \in {"busy", "map"}

XmitType == [pc : {"idle", "busy", "map", "free", "cpu"},
             skb : Skbs \cup {NoSkb}, dev : Devs \cup {Nobody}, idx : TxIdx]
TxType == [addr : BOOLEAN, done : BOOLEAN, skb : Skbs \cup {NoSkb}]
IrqType == [pc : {"idle", "index", "pop", "len", "clear", "ack"},
            mask : BOOLEAN, rx : BOOLEAN, val : RxIdx, len : Nat]
RxType == [frame : 0 .. MaxFrames, done : BOOLEAN, addr : BOOLEAN,
           skb : BOOLEAN, held : 0 .. MaxFrames]

Types ==
  /\ tx \in [TxIdx -> TxType]
  /\ txCpu \in TxIdx /\ txDma \in TxIdx
  /\ lock \in Cpus \cup {Nobody}
  /\ xmit \in [Cpus -> XmitType]
  /\ entries \in Nat /\ sends \in 0 .. MaxSends
  /\ freed \in [Skbs -> 0 .. 1]
  /\ opens \in 0 .. MaxOpens /\ lost \subseteq Skbs

RxTypes ==
  /\ rx \in [RxIdx -> RxType]
  /\ rxCpu \in 0 .. RX0_DSCP_NUM /\ rxDma \in RxIdx /\ rx0Done \in BOOLEAN
  /\ arrived \in 0 .. MaxFrames
  /\ irq \in IrqType

FaultTypes == unpadded \subseteq Skbs /\ fails \in 0 .. MaxFails

\* Before the first stop of the last device the engine runs for the first session only.
Session ==
  /\ opened \subseteq Devs
  /\ refcnt = Cardinality(opened)
  /\ enabled \in BOOLEAN /\ rxMask \in BOOLEAN /\ stopped \in BOOLEAN
  /\ RunsWhileOpen
  /\ ~stopped /\ enabled => opened # {}

Locked ==
  \A c \in Cpus : xmit[c].pc # "idle" => lock = c /\ xmit[c].dev \in opened

OneToSend == txDma = txCpu \/ (txCpu = NextIdx(txDma) /\ tx[txDma].addr)

Caught ==
  \A c \in Cpus :
    /\ Past(c) => txDma = txCpu /\ xmit[c].idx = txCpu
    /\ Laid(c) => tx[xmit[c].idx].addr

Holding ==
  \A i \in TxIdx : tx[i].addr =>
    /\ tx[i].skb \in 1 .. sends /\ freed[tx[i].skb] = 0
    /\ \A j \in TxIdx : tx[j].addr /\ tx[j].skb = tx[i].skb => j = i

InHand ==
  \A c \in Cpus : Has(c) =>
    /\ xmit[c].skb \in 1 .. sends /\ freed[xmit[c].skb] = 0
    /\ \A i \in TxIdx : tx[i].addr => tx[i].skb # xmit[c].skb

NotYet == \A s \in Skbs : s > sends => freed[s] = 0

\* Every done descriptor was sent by a call of its own, and the call under way is one more.
Counted ==
  entries + (IF txDma = txCpu THEN 0 ELSE 1) + (IF lock = Nobody THEN 0 ELSE 1) <= sends

\* The descriptor a call lays its buffer in is empty.
Spare ==
  /\ (\A c \in Cpus : ~Laid(c)) => ~tx[txCpu].addr
  /\ \A c \in Cpus : xmit[c].pc = "cpu" => ~tx[NextIdx(xmit[c].idx)].addr

Somewhere ==
  \A s \in 1 .. sends : s \notin lost =>
    \/ freed[s] = 1
    \/ \E i \in TxIdx : tx[i].addr /\ tx[i].skb = s
    \/ \E c \in Cpus : Has(c) /\ xmit[c].skb = s

\* The descriptor the engine filled last, and a descriptor whose frame was not handed up yet.
LastFilled == (rxDma + RX0_DSCP_NUM - 1) % RX0_DSCP_NUM
Fresh(i) == served < rx[i].frame

\* What the stack got is older than anything the handler has still to look at.
Handed ==
  /\ served \in 0 .. arrived /\ blank \in BOOLEAN /\ delivered \in Seq(Nat)
  /\ ~stopped =>
       /\ ~blank
       /\ \A k \in 1 .. Len(delivered) : 0 < delivered[k] /\ delivered[k] <= served
       /\ \A k \in 1 .. Len(delivered) - 1 : delivered[k] < delivered[k + 1]

\* Every frame is in one buffer or handed up.
Once ==
  /\ \A k \in 1 .. Len(delivered) : delivered[k] <= arrived
  /\ \A j, k \in 1 .. Len(delivered) : j # k => delivered[j] # delivered[k]
  /\ \A i \in RxIdx : rx[i].held <= arrived
  /\ \A i \in RxIdx : rx[i].held # NoFrame =>
       /\ \A k \in 1 .. Len(delivered) : delivered[k] # rx[i].held
       /\ \A j \in RxIdx : j # i => rx[j].held # rx[i].held

\* Nothing was received before the first set-up.
Untouched ==
  ~enabled => /\ ~rx0Done /\ irq.pc = "idle" /\ entries = 0
              /\ \A i \in RxIdx : ~rx[i].skb

\* The pending bit, and the handler from the status to the pop, stand for a fresh frame.
Pending ==
  /\ \A i \in RxIdx : rx[i].frame <= arrived
  /\ irq.pc \in {"idle", "len", "clear"} => ~irq.rx
  /\ irq.pc \in {"index", "pop"} => irq.rx
  /\ ~stopped =>
       /\ irq.rx => irq.mask
       /\ rx0Done /\ ~irq.rx => Fresh(LastFilled)
       /\ irq.pc = "index" => Fresh(LastFilled)
       /\ irq.pc = "pop" => Fresh(irq.val)
       /\ \A i \in RxIdx : rx[i].skb =>
            rx[i].addr /\ (rx[i].frame # NoFrame => rx[i].held = rx[i].frame)

IInv ==
  /\ Types /\ RxTypes /\ FaultTypes /\ Session
  /\ Locked /\ OneToSend /\ Caught /\ Holding /\ InHand /\ NotYet /\ Counted
  /\ Spare /\ Somewhere /\ Untouched /\ Handed /\ Once /\ Pending

-----------------------------------------------------------------------------
(* Indices, sets and sizes.                                                *)

\* The sets of records are expanded everywhere.
USE DEF XmitType, TxType, IrqType, RxType

LEMMA SizeFacts ==
  /\ TX0_DSCP_NUM \in Nat /\ TX0_DSCP_NUM > 2
  /\ RX0_DSCP_NUM \in Nat /\ RX0_DSCP_NUM > 1
  /\ MaxSends \in Nat /\ MaxFrames \in Nat /\ MaxOpens \in Nat /\ MaxFails \in Nat
  /\ IsFiniteSet(Devs) /\ Nobody \notin Cpus
BY QdmaAssumption, LockAssumption

LEMMA RingFacts ==
  ASSUME NEW i \in TxIdx
  PROVE  /\ NextIdx(i) \in TxIdx /\ 0 \in TxIdx
         /\ NextIdx(i) # i /\ NextIdx(NextIdx(i)) \in TxIdx /\ NextIdx(NextIdx(i)) # i
BY SizeFacts DEF TxIdx, NextIdx

LEMMA ModFacts ==
  ASSUME NEW n \in Nat, n > 0, NEW a \in 0 .. 2 * n - 1
  PROVE  a % n = IF a < n THEN a ELSE a - n
OBVIOUS

\* What the engine has still to send is the one descriptor it stands at, or nothing.
LEMMA QueuedIs ==
  ASSUME Types, OneToSend
  PROVE  \A i \in Queued : i = txDma /\ tx[txDma].addr
<1> DEFINE N == TX0_DSCP_NUM
<1>1. txCpu \in 0 .. N - 1 /\ txDma \in 0 .. N - 1 /\ N \in Nat /\ N > 2
  BY SizeFacts DEF Types, TxIdx
<1>2. SUFFICES ASSUME NEW i \in 0 .. N - 1,
                      (i + N - txDma) % N < (txCpu + N - txDma) % N
               PROVE  i = txDma /\ tx[txDma].addr
  BY DEF Queued, TxIdx
<1>3. i + N - txDma \in 0 .. 2 * N - 1 /\ txCpu + N - txDma \in 0 .. 2 * N - 1
  BY <1>1
<1> HIDE DEF N
<1>4. /\ (i + N - txDma) % N = IF i < txDma THEN i + N - txDma ELSE i - txDma
      /\ (txCpu + N - txDma) % N = IF txCpu < txDma THEN txCpu + N - txDma ELSE txCpu - txDma
  <2>1. /\ i + N - txDma < N <=> i < txDma
        /\ txCpu + N - txDma < N <=> txCpu < txDma
        /\ (i + N - txDma) - N = i - txDma /\ (txCpu + N - txDma) - N = txCpu - txDma
    BY <1>1
  <2>2. /\ (i + N - txDma) % N = IF i + N - txDma < N THEN i + N - txDma ELSE i + N - txDma - N
        /\ (txCpu + N - txDma) % N
             = IF txCpu + N - txDma < N THEN txCpu + N - txDma ELSE txCpu + N - txDma - N
    BY <1>1, <1>3, ModFacts
  <2>3. QED
    BY <2>1, <2>2, <1>1
<1>5. txDma # txCpu
  BY <1>1, <1>2, <1>4
<1>6. txCpu = (IF txDma = N - 1 THEN 0 ELSE txDma + 1) /\ tx[txDma].addr
  BY <1>5 DEF OneToSend, NextIdx, N
<1>7. QED
  BY <1>1, <1>2, <1>4, <1>6

-----------------------------------------------------------------------------
(* The sessions: mtk_open and mtk_stop.                                    *)

\* What the transmit side is made of.
Sending ==
  Types /\ Locked /\ OneToSend /\ Caught /\ Holding /\ InHand /\ NotYet /\ Counted

LEMMA Start ==
  Init => Sending /\ RxTypes /\ FaultTypes /\ Session
<1> SUFFICES ASSUME Init PROVE Sending /\ RxTypes /\ FaultTypes /\ Session
  OBVIOUS
<1>1. 0 \in TxIdx /\ 0 \in RxIdx
  BY SizeFacts DEF TxIdx, RxIdx
<1>2. Types
  <2>1. IdleXmit \in XmitType
    BY <1>1 DEF IdleXmit
  <2>2. QED
    BY <1>1, <2>1, SizeFacts DEF Init, Types
<1>3. Locked /\ OneToSend /\ Caught /\ Holding /\ InHand /\ NotYet /\ Counted
  <2>1. \A c \in Cpus : xmit[c].pc = "idle"
    BY DEF Init, IdleXmit
  <2>2. Locked /\ Caught /\ InHand
    BY <2>1 DEF Locked, Caught, InHand, Past, Laid, Has
  <2>3. OneToSend /\ Holding /\ NotYet /\ Counted
    BY DEF Init, OneToSend, Holding, NotYet, Counted
  <2>4. QED
    BY <2>2, <2>3
<1>4. RxTypes
  <2>1. [frame |-> NoFrame, done |-> FALSE, addr |-> FALSE, skb |-> FALSE,
         held |-> NoFrame] \in RxType
    BY SizeFacts DEF NoFrame
  <2>2. IdleIrq \in IrqType
    BY <1>1 DEF IdleIrq
  <2>3. rx \in [RxIdx -> RxType]
    BY <2>1 DEF Init
  <2>4. irq = IdleIrq /\ rxCpu = 0 /\ rxDma = 0 /\ rx0Done = FALSE /\ arrived = 0
    BY DEF Init
  <2>5. rxCpu \in 0 .. RX0_DSCP_NUM /\ arrived \in 0 .. MaxFrames
    BY <2>4, SizeFacts
  <2>6. QED
    BY <1>1, <2>2, <2>3, <2>4, <2>5, Zenon DEF RxTypes
<1>5. Session
  BY FS_EmptySet DEF Init, Session, RunsWhileOpen
<1>6. FaultTypes
  BY SizeFacts DEF Init, FaultTypes
<1>7. QED
  BY <1>2, <1>3, <1>4, <1>5, <1>6 DEF Sending

\* The first open starts the engine; only the last stop masks the receive interrupt.
LEMMA SessionKept ==
  ASSUME Session, [Next]_vars
  PROVE  Session'
<1>1. IsFiniteSet(opened) /\ Cardinality(opened) \in Nat
  BY SizeFacts, FS_Subset, FS_CardinalityType DEF Session
<1>2. ASSUME NEW d \in Devs, mtk_open(d) PROVE Session'
  <2>1. /\ opened' = opened \cup {d} /\ opened' \subseteq Devs /\ opened' # {}
        /\ Cardinality(opened') = refcnt + 1 /\ UNCHANGED stopped
    BY <1>1, <1>2, FS_AddElement DEF mtk_open, Session
  <2>2. enabled' = TRUE /\ rxMask' = TRUE /\ refcnt' = refcnt + 1
    <3>1. CASE refcnt = 0
      BY <3>1, <1>2 DEF mtk_open, qdma_config
    <3>2. CASE refcnt # 0
      <4>1. opened # {}
        BY <3>2, FS_EmptySet DEF Session
      <4>2. QED
        BY <4>1, <3>2, <1>2 DEF mtk_open, Session, RunsWhileOpen
    <3>3. QED
      BY <3>1, <3>2
  <2>3. QED
    BY <2>1, <2>2 DEF Session, RunsWhileOpen
<1>3. ASSUME NEW d \in Devs, mtk_stop(d) PROVE Session'
  <2>1. /\ opened' = opened \ {d} /\ opened' \subseteq Devs
        /\ Cardinality(opened') = refcnt - 1 /\ IsFiniteSet(opened')
        /\ refcnt' = refcnt - 1 /\ opened # {} /\ UNCHANGED enabled
    BY <1>1, <1>3, FS_RemoveElement DEF mtk_stop, Session
  <2>2. opened' = {} <=> refcnt = 1
    BY <2>1, <1>1, FS_EmptySet DEF Session
  <2>3. CASE refcnt = 1
    <3>1. stopped' = TRUE /\ rxMask' \in BOOLEAN
      BY <2>3, <1>3 DEF mtk_stop, mtk_stop_dma, Session
    <3>2. QED
      BY <2>1, <2>2, <2>3, <3>1 DEF Session, RunsWhileOpen
  <2>4. CASE refcnt # 1
    <3>1. UNCHANGED <<stopped, rxMask>>
      BY <2>4, <1>3 DEF mtk_stop
    <3>2. QED
      BY <2>1, <2>2, <2>4, <3>1 DEF Session, RunsWhileOpen
  <2>5. QED
    BY <2>3, <2>4
<1>4. ASSUME UNCHANGED admin PROVE Session'
  BY <1>4 DEF admin, Session, RunsWhileOpen
<1>5. ASSUME NEW c \in Cpus, mtk_start_xmit(c) PROVE UNCHANGED admin
  BY <1>5 DEF mtk_start_xmit, Xmit, qdma_busy_wait, tx0_dscp_pkt_addr, tx0_free_some,
     FreeAhead, TxCpuIdx, Rest
<1>6. ASSUME mtk_handle_irq PROVE UNCHANGED admin
  BY <1>6 DEF mtk_handle_irq, IrqStatus, rx0_done, rx0_pop_skb, QueueLength,
     tx0_recycle_if_required, Acknowledge, Beside
<1>7. ASSUME Transmit \/ Arrive PROVE UNCHANGED admin
  BY <1>7 DEF Transmit, Arrive
<1>8. ASSUME UNCHANGED vars PROVE UNCHANGED admin
  BY <1>8 DEF vars
<1>9. QED
  BY <1>2, <1>3, <1>4, <1>5, <1>6, <1>7, <1>8 DEF Next

\* A ring set up anew is empty; no call is under way when the first device is opened.
LEMMA OpenSends ==
  ASSUME Sending, Session, NEW d \in Devs, mtk_open(d)
  PROVE  Sending'
<1>1. /\ opened' = opened \cup {d} /\ opens' \in 0 .. MaxOpens
      /\ UNCHANGED <<lock, xmit, sends, freed>>
  BY SizeFacts DEF mtk_open, frees, Sending, Types
<1>2. CASE refcnt = 0
  <2>1. opened = {}
    <3>1. IsFiniteSet(opened)
      BY SizeFacts, FS_Subset DEF Session
    <3>2. QED
      BY <1>2, <3>1, FS_EmptySet DEF Session
  <2>2. \A c \in Cpus : xmit[c].pc = "idle"
    BY <2>1 DEF Sending, Locked
  <2>3. txCpu' = 0 /\ txDma' = 0 /\ entries' = 0 /\ lost' = lost \cup Ring
    BY <1>2 DEF mtk_open, qdma_config
  <2>4. /\ tx' \in [TxIdx -> TxType]
        /\ \A i \in TxIdx : ~tx'[i].addr
    <3>1. tx' = [i \in TxIdx |-> [addr |-> FALSE, done |-> FALSE, skb |-> tx[i].skb]]
      BY <1>2 DEF mtk_open, qdma_config
    <3>2. \A i \in TxIdx : tx[i].skb \in Skbs \cup {NoSkb}
      BY DEF Sending, Types
    <3>3. QED
      BY <3>1, <3>2
  <2>5. Ring \subseteq Skbs
    BY DEF Ring, Sending, Types
  <2>6. Types'
    <3>1. 0 \in TxIdx /\ 0 \in Nat
      BY SizeFacts DEF TxIdx
    <3>2. QED
      BY <1>1, <2>3, <2>4, <2>5, <3>1 DEF Sending, Types
  <2>7. (Locked /\ OneToSend /\ Caught /\ Holding /\ InHand /\ NotYet)'
    BY <1>1, <2>2, <2>3, <2>4
       DEF Sending, Locked, OneToSend, Caught, Holding, InHand, NotYet, Past, Laid, Has
  <2>8. Counted'
    <3>1. sends' \in Nat /\ (lock' # Nobody => sends' >= 1)
      BY <1>1, SizeFacts DEF Sending, Counted, Types
    <3>2. QED
      BY <2>3, <3>1 DEF Counted
  <2>9. QED
    BY <2>6, <2>7, <2>8 DEF Sending
<1>3. CASE refcnt # 0
  <2>1. UNCHANGED <<txVars, entries, lost>>
    BY <1>3 DEF mtk_open
  <2>2. QED
    BY <1>1, <2>1 DEF Sending, Types, Locked, OneToSend, Caught, Holding, InHand, NotYet,
       Counted, Past, Laid, Has, txVars
<1>4. QED
  BY <1>2, <1>3

LEMMA StopSends ==
  ASSUME Sending, NEW d \in Devs, mtk_stop(d)
  PROVE  Sending'
<1>1. /\ opened' = opened \ {d} /\ \A c \in Cpus : xmit[c].dev # d
      /\ UNCHANGED <<txVars, lock, xmit, entries, sends, freed, opens, lost>>
  BY DEF mtk_stop, frees
<1>2. QED
  BY <1>1 DEF Sending, Types, Locked, OneToSend, Caught, Holding, InHand, NotYet,
     Counted, Past, Laid, Has, txVars

-----------------------------------------------------------------------------
(* mtk_start_xmit.                                                         *)

LEMMA XmitSends ==
  ASSUME Sending, NEW c \in Cpus, NEW d \in Devs, Xmit(c, d)
  PROVE  Sending'
<1> DEFINE new == [pc |-> "busy", skb |-> sends + 1, dev |-> d, idx |-> 0]
<1>1. /\ xmit[c].pc = "idle" /\ d \in opened /\ sends < MaxSends
      /\ lock = Nobody /\ lock' = c /\ sends' = sends + 1 /\ xmit' = [xmit EXCEPT ![c] = new]
      /\ UNCHANGED <<tx, txCpu, txDma, freed, opened, opens, lost, entries>>
  BY DEF Xmit, At, Rest, txVars, admin
<1>2. \A e \in Cpus : xmit[e].pc = "idle"
  BY <1>1, SizeFacts DEF Sending, Locked
<1>3. sends \in Nat /\ sends + 1 \in Skbs /\ 0 \in TxIdx
  BY <1>1, SizeFacts DEF Sending, Types, Skbs, TxIdx
<1>4. /\ xmit'[c] = new /\ \A e \in Cpus : e # c => xmit'[e] = xmit[e]
      /\ new.pc = "busy" /\ new.skb = sends + 1 /\ new.dev = d
  BY <1>1 DEF Sending, Types
<1>5. Types'
  <2>1. new \in XmitType
    BY <1>3
  <2>2. sends' \in 0 .. MaxSends
    BY <1>1, SizeFacts DEF Sending, Types
  <2> HIDE DEF new
  <2>3. QED
    BY <1>1, <2>1, <2>2 DEF Sending, Types
<1> HIDE DEF new
<1>6. Locked'
  BY <1>1, <1>2, <1>4 DEF Locked
<1>7. OneToSend' /\ Caught'
  BY <1>1, <1>2, <1>4 DEF Sending, OneToSend, Caught, Past, Laid
<1>8. Holding'
  <2>1. 1 .. sends \subseteq 1 .. sends'
    BY <1>1, <1>3
  <2>2. QED
    BY <1>1, <2>1 DEF Sending, Holding
<1>9. InHand'
  <2>1. freed[sends + 1] = 0 /\ sends + 1 \in 1 .. sends'
    BY <1>1, <1>3 DEF Sending, NotYet
  <2>2. \A i \in TxIdx : tx[i].addr => tx[i].skb # sends + 1
    BY <1>3 DEF Sending, Holding
  <2>3. \A e \in Cpus : Has(e)' => e = c
    BY <1>2, <1>4 DEF Has
  <2>4. QED
    BY <1>1, <1>4, <2>1, <2>2, <2>3 DEF InHand
<1>10. NotYet'
  BY <1>1, <1>3 DEF Sending, NotYet, Skbs
<1>11. Counted'
  <2>1. c # Nobody
    BY SizeFacts
  <2>2. QED
    BY <1>1, <1>3, <2>1 DEF Sending, Types, Counted
<1>12. QED
  BY <1>5, <1>6, <1>7, <1>8, <1>9, <1>10, <1>11 DEF Sending

\* A call that gives its buffer up: nobody else has it.
LEMMA DropSends ==
  ASSUME Sending, NEW c \in Cpus, Has(c), DropOnEntry(c),
         UNCHANGED <<txCpu, txDma, opened, opens, lost, entries, sends>>,
         tx' \in [TxIdx -> TxType],
         \A i \in TxIdx : tx'[i].addr => tx[i].addr /\ tx'[i].skb = tx[i].skb,
         txDma # txCpu => UNCHANGED tx
  PROVE  Sending'
<1> DEFINE b == xmit[c].skb
<1>1. /\ xmit' = [xmit EXCEPT ![c] = IdleXmit] /\ lock' = Nobody
      /\ freed' = [freed EXCEPT ![b] = @ + 1]
  BY DEF DropOnEntry
<1>2. /\ b \in 1 .. sends /\ b \in Skbs /\ freed[b] = 0 /\ sends \in Nat
      /\ \A i \in TxIdx : tx[i].addr => tx[i].skb # b
  BY SizeFacts DEF Sending, InHand, Types, Skbs
<1>3. freed'[b] = 1 /\ \A s \in Skbs : s # b => freed'[s] = freed[s]
  BY <1>1, <1>2 DEF Sending, Types
<1>4. \A e \in Cpus : xmit'[e].pc = "idle"
  <2>1. \A e \in Cpus : e # c => xmit[e].pc = "idle"
    BY SizeFacts DEF Sending, Locked, Has
  <2>2. QED
    BY <1>1, <2>1 DEF Sending, Types, IdleXmit
<1> HIDE DEF b
<1>5. Types'
  <2>1. IdleXmit \in XmitType
    BY SizeFacts DEF IdleXmit, TxIdx
  <2>2. freed' \in [Skbs -> 0 .. 1]
    BY <1>1, <1>2 DEF Sending, Types
  <2>3. xmit' \in [Cpus -> XmitType]
    BY <1>1, <2>1 DEF Sending, Types
  <2>4. QED
    BY <1>1, <2>2, <2>3 DEF Sending, Types
<1>6. (Locked /\ Caught /\ InHand)'
  BY <1>4 DEF Locked, Caught, InHand, Past, Laid, Has
<1>7. OneToSend'
  BY DEF Sending, OneToSend
<1>8. Holding'
  <2>1. \A i \in TxIdx : tx[i].addr => tx[i].skb \in Skbs
    BY <1>2, SizeFacts DEF Sending, Holding, Types, Skbs
  <2>2. QED
    BY <1>2, <1>3, <2>1 DEF Sending, Holding
<1>9. NotYet'
  BY <1>2, <1>3 DEF Sending, NotYet, Skbs
<1>10. Counted'
  BY <1>1, <1>2 DEF Sending, Types, Counted
<1>11. QED
  BY <1>5, <1>6, <1>7, <1>8, <1>9, <1>10 DEF Sending

\* Behind the busy bit the engine stands still at the processor's index.
LEMMA BusySends ==
  ASSUME Sending, Session, NEW c \in Cpus, qdma_busy_wait(c)
  PROVE  Sending'
<1>1. /\ xmit[c].pc = "busy" /\ Has(c)
      /\ UNCHANGED <<tx, txCpu, txDma, opened, opens, lost, entries, sends>>
  BY DEF qdma_busy_wait, At, Has, Rest, txVars, admin
<1>2. CASE TxBusy
  <2>1. DropOnEntry(c)
    BY <1>2 DEF qdma_busy_wait
  <2>2. tx' \in [TxIdx -> TxType]
    BY <1>1 DEF Sending, Types
  <2>3. QED
    BY <1>1, <2>1, <2>2, DropSends
<1>3. CASE ~TxBusy
  <2> DEFINE new == [xmit[c] EXCEPT !.pc = "map", !.idx = txCpu]
  <2>1. xmit' = [xmit EXCEPT ![c] = new] /\ UNCHANGED <<lock, freed>>
    BY <1>3, Zenon DEF qdma_busy_wait
  <2>2. lock = c /\ xmit[c].dev \in opened /\ enabled
    BY <1>1 DEF Sending, Locked, Session, RunsWhileOpen
  <2>3. txDma = txCpu
    BY <1>3, <2>2 DEF TxBusy
  <2>4. /\ new \in XmitType
        /\ new.pc = "map" /\ new.idx = txCpu
        /\ new.skb = xmit[c].skb /\ new.dev = xmit[c].dev
    <3>1. /\ xmit[c] \in XmitType
          /\ txCpu \in TxIdx
      BY DEF Sending, Types
    <3>2. QED
      BY <3>1
  <2> HIDE DEF new
  <2>5. xmit'[c] = new /\ \A e \in Cpus : e # c => xmit'[e] = xmit[e]
    BY <2>1 DEF Sending, Types
  <2>6. Types'
    BY <1>1, <2>1, <2>4 DEF Sending, Types
  <2>7. Locked'
    BY <1>1, <2>1, <2>2, <2>4, <2>5 DEF Sending, Locked
  <2>8. Caught'
    <3>1. ASSUME NEW e \in Cpus, e # c PROVE xmit'[e].pc = "idle"
      BY <2>2, <2>5, <3>1 DEF Sending, Locked
    <3>2. QED
      BY <1>1, <2>3, <2>4, <2>5, <3>1 DEF Caught, Past, Laid
  <2>9. InHand'
    BY <1>1, <2>1, <2>4, <2>5 DEF Sending, InHand, Has
  <2>10. (OneToSend /\ Holding /\ NotYet /\ Counted)'
    BY <1>1, <2>1 DEF Sending, OneToSend, Holding, NotYet, Counted
  <2>11. QED
    BY <2>6, <2>7, <2>8, <2>9, <2>10 DEF Sending
<1>4. QED
  BY <1>2, <1>3

\* The call goes on to the place l with the lock, its buffer and its index.
LEMMA GoesOn ==
  ASSUME Sending, NEW c \in Cpus, xmit[c].pc # "idle",
         NEW l \in {"free", "cpu"}, xmit' = [xmit EXCEPT ![c].pc = l],
         UNCHANGED <<lock, opened>>
  PROVE  /\ xmit' \in [Cpus -> XmitType]
         /\ xmit'[c].pc = l /\ xmit'[c].idx = xmit[c].idx /\ xmit'[c].skb = xmit[c].skb
         /\ \A e \in Cpus : e # c => xmit'[e].pc = "idle"
         /\ Locked'
<1> DEFINE new == [xmit[c] EXCEPT !.pc = l]
<1>1. xmit' = [xmit EXCEPT ![c] = new]
  BY Zenon
<1>2. /\ xmit \in [Cpus -> XmitType]
      /\ xmit[c] \in XmitType
  BY DEF Sending, Types
<1>3. /\ new \in XmitType
      /\ new.pc = l /\ new.idx = xmit[c].idx
      /\ new.skb = xmit[c].skb /\ new.dev = xmit[c].dev
  BY <1>2
<1> HIDE DEF new
<1>4. xmit'[c] = new /\ \A e \in Cpus : e # c => xmit'[e] = xmit[e]
  BY <1>1, <1>2
<1>5. lock = c /\ \A e \in Cpus : e # c => xmit[e].pc = "idle"
  BY DEF Sending, Locked
<1>6. Locked'
  BY <1>3, <1>4, <1>5 DEF Sending, Locked
<1>7. QED
  BY <1>1, <1>2, <1>3, <1>4, <1>5, <1>6

LEMMA MapSends ==
  ASSUME Sending, NEW c \in Cpus, tx0_dscp_pkt_addr(c)
  PROVE  Sending'
<1> DEFINE k == xmit[c].idx
<1>1. /\ xmit[c].pc = "map" /\ Has(c)
      /\ UNCHANGED <<txCpu, txDma, opened, opens, lost, entries, sends>>
  BY DEF tx0_dscp_pkt_addr, At, Has, Rest, admin
<1>2. k \in TxIdx /\ k = txCpu /\ txDma = txCpu
  BY <1>1 DEF Sending, Types, Caught, Past
<1>3. /\ xmit[c].skb \in 1 .. sends /\ freed[xmit[c].skb] = 0 /\ xmit[c].skb \in Skbs
      /\ \A i \in TxIdx : tx[i].addr => tx[i].skb # xmit[c].skb
  BY <1>1, SizeFacts DEF Sending, InHand, Types, Skbs
<1> HIDE DEF k
<1>4. CASE /\ tx' = [tx EXCEPT ![k].addr = TRUE, ![k].skb = xmit[c].skb]
           /\ xmit' = [xmit EXCEPT ![c].pc = "free"] /\ UNCHANGED <<lock, freed>>
  <2> DEFINE new == [[tx[k] EXCEPT !.addr = TRUE] EXCEPT !.skb = xmit[c].skb]
  <2>1. /\ tx \in [TxIdx -> TxType]
        /\ tx[k] \in TxType
    BY <1>2 DEF Sending, Types
  <2>2. tx' = [tx EXCEPT ![k] = new]
    BY <1>2, <1>4, <2>1
  <2>3. /\ new \in TxType
        /\ new.addr /\ new.skb = xmit[c].skb
    BY <1>3, <2>1
  <2> HIDE DEF new
  <2>4. /\ tx' \in [TxIdx -> TxType]
        /\ tx'[k] = new /\ \A i \in TxIdx : i # k => tx'[i] = tx[i]
    BY <1>2, <2>1, <2>2, <2>3
  <2>5. /\ xmit' \in [Cpus -> XmitType]
        /\ xmit'[c].pc = "free" /\ xmit'[c].idx = k
        /\ \A e \in Cpus : e # c => xmit'[e].pc = "idle"
        /\ Locked'
    BY <1>1, <1>4, GoesOn DEF k
  <2>6. Types'
    BY <1>1, <1>4, <2>4, <2>5 DEF Sending, Types
  <2>7. OneToSend' /\ Caught'
    BY <1>1, <1>2, <2>3, <2>4, <2>5 DEF OneToSend, Caught, Past, Laid
  <2>8. Holding'
    BY <1>1, <1>3, <1>4, <2>3, <2>4 DEF Sending, Holding
  <2>9. InHand'
    BY <2>5 DEF InHand, Has
  <2>10. NotYet' /\ Counted'
    BY <1>1, <1>4 DEF Sending, NotYet, Counted
  <2>11. QED
    BY <2>5, <2>6, <2>7, <2>8, <2>9, <2>10 DEF Sending
<1>5. CASE tx' = [tx EXCEPT ![k].addr = FALSE] /\ DropOnEntry(c)
  <2>1. /\ tx \in [TxIdx -> TxType]
        /\ tx[k] \in TxType
    BY <1>2 DEF Sending, Types
  <2> DEFINE new == [tx[k] EXCEPT !.addr = FALSE]
  <2>2. tx' = [tx EXCEPT ![k] = new]
    BY <1>5, Zenon
  <2>3. new \in TxType /\ ~new.addr
    BY <2>1
  <2> HIDE DEF new
  <2>4. /\ tx' \in [TxIdx -> TxType]
        /\ tx'[k] = new /\ \A i \in TxIdx : i # k => tx'[i] = tx[i]
    BY <1>2, <2>1, <2>2, <2>3
  <2>5. \A i \in TxIdx : tx'[i].addr => tx[i].addr /\ tx'[i].skb = tx[i].skb
    BY <2>3, <2>4
  <2>6. QED
    BY <1>1, <1>2, <1>5, <2>4, <2>5, DropSends
<1>6. QED
  BY <1>4, <1>5 DEF tx0_dscp_pkt_addr, k

\* The descriptors ahead are not the call's own, and each frees a buffer of its own.
LEMMA FreeSends ==
  ASSUME Sending, NEW c \in Cpus, tx0_free_some(c)
  PROVE  Sending'
<1> DEFINE k == xmit[c].idx
           Of(s) == {i \in Ahead(c) : tx[i].addr /\ tx[i].skb = s}
<1>1. /\ xmit[c].pc = "free" /\ xmit' = [xmit EXCEPT ![c].pc = "cpu"]
      /\ UNCHANGED <<txCpu, txDma, lock, opened, opens, lost, entries, sends>>
  BY DEF tx0_free_some, FreeAhead, At, Rest, admin
<1>2. /\ k \in TxIdx /\ k = txCpu /\ txDma = txCpu /\ tx[k].addr
      /\ Ahead(c) \subseteq TxIdx /\ k \notin Ahead(c)
  <2>1. k \in TxIdx
    BY DEF Sending, Types
  <2>2. k = txCpu /\ txDma = txCpu /\ tx[k].addr
    BY <1>1 DEF Sending, Caught, Past, Laid
  <2>3. QED
    BY <2>1, <2>2, RingFacts DEF Ahead
<1>3. \A i \in TxIdx :
        IF i \in Ahead(c)
        THEN ~tx'[i].addr
        ELSE tx'[i] = tx[i]
  BY DEF tx0_free_some
<1>4. tx' \in [TxIdx -> TxType]
  <2> DEFINE new(i) ==
        IF i \in Ahead(c)
        THEN [addr |-> FALSE, done |-> FALSE, skb |-> IF tx[i].addr THEN NoSkb ELSE tx[i].skb]
        ELSE tx[i]
  <2>1. tx' = [i \in TxIdx |-> new(i)]
    BY DEF tx0_free_some
  <2>2. ASSUME NEW i \in TxIdx
        PROVE  new(i) \in TxType
    <3>1. /\ tx[i] \in TxType
          /\ tx[i].skb \in Skbs \cup {NoSkb}
      BY DEF Sending, Types
    <3>2. QED
      BY <3>1
  <2> HIDE DEF new
  <2>3. QED
    BY <2>1, <2>2
<1>5. freed' = [s \in Skbs |-> freed[s] + Cardinality(Of(s))]
  BY DEF tx0_free_some, FreeAhead
<1>6. ASSUME NEW s \in Skbs
      PROVE  /\ freed'[s] \in 0 .. 1
             /\ Of(s) = {} => freed'[s] = freed[s]
             /\ Of(s) # {} => s \in 1 .. sends
  <2>1. freed'[s] = freed[s] + Cardinality(Of(s)) /\ freed[s] \in 0 .. 1
    BY <1>5 DEF Sending, Types
  <2>2. CASE Of(s) = {}
    <3>1. Cardinality(Of(s)) = 0
      BY <2>2, FS_EmptySet
    <3> HIDE DEF Of
    <3>2. QED
      BY <2>1, <2>2, <3>1
  <2>3. CASE Of(s) # {}
    <3>1. PICK j \in Of(s) : TRUE
      BY <2>3
    <3>2. j \in TxIdx /\ tx[j].addr /\ tx[j].skb = s
      BY <1>2, <3>1
    <3>3. Of(s) = {j}
      BY <1>2, <3>1, <3>2 DEF Sending, Holding
    <3>4. Cardinality(Of(s)) = 1
      BY <3>3, FS_Singleton
    <3>5. freed[s] = 0 /\ s \in 1 .. sends
      BY <3>2 DEF Sending, Holding
    <3>6. QED
      BY <2>1, <2>3, <3>4, <3>5
  <2>4. QED
    BY <2>2, <2>3
<1>7. \A i \in TxIdx \ Ahead(c) : tx[i].addr => Of(tx[i].skb) = {}
  BY <1>2 DEF Sending, Holding
<1>8. /\ xmit' \in [Cpus -> XmitType]
      /\ xmit'[c].pc = "cpu" /\ xmit'[c].idx = k
      /\ \A e \in Cpus : e # c => xmit'[e].pc = "idle"
      /\ Locked'
  BY <1>1, GoesOn
<1> HIDE DEF k, Of
<1>9. Types'
  <2>1. freed' \in [Skbs -> 0 .. 1]
    <3>1. DOMAIN freed' = Skbs /\ freed' = [s \in DOMAIN freed' |-> freed'[s]]
      BY <1>5
    <3>2. QED
      BY <1>6, <3>1
  <2>2. QED
    BY <1>1, <1>4, <1>8, <2>1 DEF Sending, Types
<1>10. OneToSend' /\ Caught'
  BY <1>1, <1>2, <1>3, <1>8 DEF OneToSend, Caught, Past, Laid
<1>11. Holding'
  <2>1. \A i \in TxIdx : tx'[i].addr => i \notin Ahead(c) /\ tx[i].addr /\ tx'[i] = tx[i]
    BY <1>3
  <2>2. \A i \in TxIdx : tx[i].addr => tx[i].skb \in Skbs
    BY SizeFacts DEF Sending, Holding, Types, Skbs
  <2>3. QED
    BY <1>1, <1>6, <1>7, <2>1, <2>2 DEF Sending, Holding
<1>12. InHand'
  BY <1>8 DEF InHand, Has
<1>13. NotYet'
  <2>1. sends \in Nat
    BY SizeFacts DEF Sending, Types
  <2>2. QED
    BY <1>1, <1>6, <2>1 DEF Sending, NotYet, Skbs
<1>14. Counted'
  BY <1>1 DEF Sending, Counted
<1>15. QED
  BY <1>8, <1>9, <1>10, <1>11, <1>12, <1>13, <1>14 DEF Sending

\* The write of the index hands over the call's own descriptor and no other.
LEMMA IndexSends ==
  ASSUME Sending, NEW c \in Cpus, TxCpuIdx(c)
  PROVE  Sending'
<1>1. /\ xmit[c].pc = "cpu" /\ xmit' = [xmit EXCEPT ![c] = IdleXmit]
      /\ txCpu' = NextIdx(xmit[c].idx) /\ lock' = Nobody
      /\ UNCHANGED <<tx, txDma, freed, opened, opens, lost, entries, sends>>
  BY DEF TxCpuIdx, At, Rest, admin
<1>2. /\ xmit[c].idx \in TxIdx /\ xmit[c].idx = txDma /\ txDma = txCpu /\ tx[txDma].addr
      /\ lock = c
  BY <1>1 DEF Sending, Types, Caught, Past, Laid, Locked
<1>3. \A e \in Cpus : xmit'[e].pc = "idle"
  BY <1>1, <1>2 DEF Sending, Types, Locked, IdleXmit
<1>4. Types'
  <2>1. IdleXmit \in XmitType
    BY SizeFacts DEF IdleXmit, TxIdx
  <2>2. xmit' \in [Cpus -> XmitType]
    BY <1>1, <2>1 DEF Sending, Types
  <2>3. txCpu' \in TxIdx
    BY <1>1, <1>2, RingFacts
  <2>4. QED
    BY <1>1, <2>2, <2>3 DEF Sending, Types
<1>5. (Locked /\ Caught /\ InHand)'
  BY <1>3 DEF Locked, Caught, InHand, Past, Laid, Has
<1>6. OneToSend'
  BY <1>1, <1>2 DEF OneToSend, NextIdx
<1>7. (Holding /\ NotYet)'
  BY <1>1 DEF Sending, Holding, NotYet
<1>8. Counted'
  <2>1. c # Nobody /\ entries \in Nat /\ sends \in Nat
    BY SizeFacts DEF Sending, Types
  <2>2. entries + 1 <= sends
    BY <1>2, <2>1 DEF Sending, Counted
  <2>3. QED
    BY <1>1, <2>1, <2>2 DEF Counted
<1>9. QED
  BY <1>4, <1>5, <1>6, <1>7, <1>8 DEF Sending

-----------------------------------------------------------------------------
(* The engine and the interrupt handler.                                   *)

LEMMA TransmitSends ==
  ASSUME Sending, Transmit
  PROVE  Sending'
<1>1. /\ txDma # txCpu /\ tx' = [tx EXCEPT ![txDma].done = TRUE]
      /\ txDma' = NextIdx(txDma) /\ entries' = entries + 1
      /\ UNCHANGED <<txCpu, lock, xmit, freed, opened, opens, lost, sends>>
  BY DEF Transmit, TxBusy, admin, frees
<1>2. txDma \in TxIdx /\ txDma' = txCpu
  BY <1>1 DEF Sending, Types, OneToSend
<1> DEFINE new == [tx[txDma] EXCEPT !.done = TRUE]
<1>3. /\ tx \in [TxIdx -> TxType]
      /\ tx[txDma] \in TxType
  BY <1>2 DEF Sending, Types
<1>4. tx' = [tx EXCEPT ![txDma] = new]
  BY <1>1, Zenon
<1>5. /\ new \in TxType
      /\ new.addr = tx[txDma].addr /\ new.skb = tx[txDma].skb
  BY <1>3
<1> HIDE DEF new
<1>6. /\ tx' \in [TxIdx -> TxType]
      /\ \A i \in TxIdx : tx'[i].addr = tx[i].addr /\ tx'[i].skb = tx[i].skb
  BY <1>2, <1>3, <1>4, <1>5
<1>7. Types'
  BY <1>1, <1>2, <1>6 DEF Sending, Types
<1>8. (Locked /\ OneToSend /\ Holding /\ InHand /\ NotYet)'
  BY <1>1, <1>2, <1>6 DEF Sending, Locked, OneToSend, Holding, InHand, NotYet, Has
<1>9. Caught'
  BY <1>1 DEF Sending, Caught, Past, Laid
<1>10. Counted'
  <2>1. entries \in Nat /\ sends \in Nat
    BY SizeFacts DEF Sending, Types
  <2>2. QED
    BY <1>1, <1>2, <2>1 DEF Sending, Counted
<1>11. QED
  BY <1>7, <1>8, <1>9, <1>10 DEF Sending

\* Neither the handler nor what arrives touches the transmit side; the queue only gets shorter.
LEMMA OthersSend ==
  ASSUME Sending, entries' \in 0 .. entries, UNCHANGED sends, UNCHANGED txCpu,
         UNCHANGED txDma, UNCHANGED lock,
         UNCHANGED <<tx, xmit, freed, opened, opens, lost>>
  PROVE  Sending'
<1>1. entries \in Nat /\ sends \in Nat
  BY SizeFacts DEF Sending, Types
<1>2. (Types /\ Locked /\ OneToSend /\ Caught /\ Holding /\ InHand /\ NotYet)'
  BY <1>1 DEF Sending, Types, Locked, OneToSend, Caught, Holding, InHand, NotYet, Past, Laid, Has
<1>3. Counted'
  <2>1. PICK n \in 0 .. 2 :
          n = (IF txDma = txCpu THEN 0 ELSE 1) + (IF lock = Nobody THEN 0 ELSE 1)
    OBVIOUS
  <2>2. entries + n <= sends
    BY <1>1, <2>1 DEF Sending, Counted
  <2>3. PICK e \in 0 .. entries : entries' = e
    OBVIOUS
  <2>4. e + n <= sends
    BY <1>1, <2>1, <2>2, <2>3
  <2>5. QED
    BY <1>1, <2>1, <2>3, <2>4 DEF Counted
<1>4. QED
  BY <1>2, <1>3 DEF Sending

\* The four things a receive descriptor is set to.
LEMMA BufferTypes ==
  /\ NewBuffer \in RxType /\ 0 \in RxIdx
  /\ \A r \in RxType : NoBuffer(r) \in RxType /\ Reuse(r) \in RxType
  /\ \A r \in RxType, f \in 1 .. MaxFrames : Fill(r, f) \in RxType
<1>1. NewBuffer \in RxType /\ 0 \in RxIdx
  BY SizeFacts DEF NewBuffer, NoFrame, RxIdx
<1>2. ASSUME NEW r \in RxType
      PROVE  /\ NoBuffer(r) \in RxType /\ Reuse(r) \in RxType
             /\ \A f \in 1 .. MaxFrames : Fill(r, f) \in RxType
  <2>1. r.addr \in BOOLEAN /\ r.skb \in BOOLEAN /\ r.held \in 0 .. MaxFrames
    OBVIOUS
  <2>2. NoBuffer(r) \in RxType
    BY <2>1, SizeFacts DEF NoBuffer, NoFrame
  <2>3. Reuse(r) \in RxType
    BY <2>1, SizeFacts DEF Reuse, NoFrame
  <2>4. \A f \in 1 .. MaxFrames : Fill(r, f) \in RxType
    BY <2>1, SizeFacts DEF Fill
  <2>5. QED
    BY <2>2, <2>3, <2>4
<1>3. QED
  BY <1>1, <1>2

\* What a set-up of the receive ring leaves in each descriptor.
LEMMA SetUp ==
  ASSUME qdma_initialize_rx_ring, NEW i \in RxIdx
  PROVE  rx'[i] = NewBuffer \/ rx'[i] = NoBuffer(rx[i])
BY DEF qdma_initialize_rx_ring

LEMMA RxKept ==
  ASSUME RxTypes, entries \in Nat, rxMask \in BOOLEAN, [Next]_vars
  PROVE  RxTypes'
<1>1. /\ rx \in [RxIdx -> RxType] /\ irq \in IrqType /\ irq.val \in RxIdx
      /\ rxDma \in RxIdx /\ rx0Done \in BOOLEAN /\ arrived \in 0 .. MaxFrames
      /\ rxCpu \in 0 .. RX0_DSCP_NUM
  BY DEF RxTypes
<1>2. SUFFICES /\ rx' \in [RxIdx -> RxType] /\ irq' \in IrqType
               /\ rxDma' \in RxIdx /\ rx0Done' \in BOOLEAN /\ arrived' \in 0 .. MaxFrames
               /\ rxCpu' \in 0 .. RX0_DSCP_NUM
  BY Zenon DEF RxTypes
<1>3. ASSUME NEW d \in Devs, mtk_open(d)
      PROVE  /\ rx' \in [RxIdx -> RxType] /\ rxDma' \in RxIdx
             /\ rxCpu' \in 0 .. RX0_DSCP_NUM /\ UNCHANGED <<rx0Done, arrived, irq>>
  <2>1. UNCHANGED <<rx0Done, arrived, irq>>
    BY <1>3 DEF mtk_open
  <2>2. CASE refcnt = 0
    <3>1. qdma_initialize_rx_ring /\ rxCpu' = RX0_DSCP_NUM /\ rxDma' = 0
      BY <1>3, <2>2 DEF mtk_open, qdma_config
    <3>2. \A i \in RxIdx : rx'[i] \in RxType
      BY <1>1, <3>1, SetUp, BufferTypes
    <3>3. rx' = [i \in RxIdx |-> rx'[i]]
      BY <3>1 DEF qdma_initialize_rx_ring
    <3>4. QED
      BY <2>1, <3>1, <3>2, <3>3, BufferTypes, SizeFacts
  <2>3. CASE refcnt # 0
    BY <1>1, <1>3, <2>1, <2>3 DEF mtk_open
  <2>4. QED
    BY <2>2, <2>3
<1>4. ASSUME NEW d \in Devs, mtk_stop(d) PROVE UNCHANGED <<rxVars, irq>>
  BY <1>4 DEF mtk_stop
<1>5. ASSUME NEW c \in Cpus, mtk_start_xmit(c) PROVE UNCHANGED <<rxVars, irq>>
  BY <1>5 DEF mtk_start_xmit, Xmit, qdma_busy_wait, tx0_dscp_pkt_addr, tx0_free_some,
     FreeAhead, TxCpuIdx, Rest
<1>6. IdleIrq \in IrqType
  BY BufferTypes DEF IdleIrq
<1>7. ASSUME IrqStatus PROVE irq' \in IrqType /\ UNCHANGED rxVars
  BY <1>1, <1>6, <1>7 DEF IrqStatus
<1>8. ASSUME rx0_done PROVE irq' \in IrqType /\ UNCHANGED rxVars
  <2>1. (rxDma + RX0_DSCP_NUM - 1) % RX0_DSCP_NUM \in RxIdx
    <3>1. rxDma + RX0_DSCP_NUM - 1 \in Nat
      BY <1>1, SizeFacts DEF RxIdx
    <3>2. QED
      BY <3>1, SizeFacts DEF RxIdx
  <2>2. QED
    BY <1>1, <1>8, <2>1 DEF rx0_done
<1>9. ASSUME rx0_pop_skb
      PROVE  /\ rx' \in [RxIdx -> RxType] /\ irq' \in IrqType
             /\ rxCpu' \in 0 .. RX0_DSCP_NUM /\ UNCHANGED <<rxDma, rx0Done, arrived>>
  <2> DEFINE old == Reuse(rx[irq.val])
  <2>1. /\ rx' = [rx EXCEPT ![irq.val] = NewBuffer] \/ rx' = [rx EXCEPT ![irq.val] = old]
        /\ rxCpu' = irq.val /\ irq' = [irq EXCEPT !.pc = "ack"]
        /\ UNCHANGED <<rxDma, rx0Done, arrived>>
    BY <1>9 DEF rx0_pop_skb, TakeAt
  <2>2. irq' \in IrqType
    BY <1>1, <2>1
  <2>3. rxCpu' \in 0 .. RX0_DSCP_NUM
    BY <1>1, <2>1, SizeFacts DEF RxIdx
  <2>4. old \in RxType
    BY <1>1, BufferTypes
  <2> HIDE DEF old
  <2>5. QED
    BY <1>1, <2>1, <2>2, <2>3, <2>4, BufferTypes
<1>10. ASSUME QueueLength \/ tx0_recycle_if_required
       PROVE  irq' \in IrqType /\ UNCHANGED rxVars
  BY <1>1, <1>10 DEF QueueLength, tx0_recycle_if_required
<1>11. ASSUME Acknowledge
       PROVE  /\ irq' \in IrqType /\ rx0Done' \in BOOLEAN
              /\ UNCHANGED <<rx, rxCpu, rxDma, arrived>>
  BY <1>6, <1>11 DEF Acknowledge
<1>12. ASSUME Arrive
       PROVE  /\ rx' \in [RxIdx -> RxType] /\ rxDma' \in RxIdx /\ rx0Done' \in BOOLEAN
              /\ arrived' \in 0 .. MaxFrames /\ UNCHANGED <<rxCpu, irq>>
  <2>1. arrived' = arrived + 1 /\ arrived' \in 0 .. MaxFrames /\ UNCHANGED <<rxCpu, irq>>
    BY <1>1, <1>12, SizeFacts DEF Arrive
  <2>2. CASE rxDma # rxCpu
    <3> DEFINE new == Fill(rx[rxDma], arrived + 1)
    <3>1. new \in RxType
      <4>1. rx[rxDma] \in RxType /\ arrived + 1 \in 1 .. MaxFrames
        BY <1>1, <2>1
      <4>2. QED
        BY <4>1, BufferTypes
    <3>2. (rxDma + 1) % RX0_DSCP_NUM \in RxIdx
      BY <1>1, SizeFacts DEF RxIdx
    <3>3. /\ rx' = [rx EXCEPT ![rxDma] = new]
          /\ rxDma' = (rxDma + 1) % RX0_DSCP_NUM /\ rx0Done' = TRUE
      BY <1>12, <2>2 DEF Arrive
    <3> HIDE DEF new
    <3>4. QED
      BY <1>1, <2>1, <3>1, <3>2, <3>3
  <2>3. CASE rxDma = rxCpu
    BY <1>1, <1>12, <2>1, <2>3 DEF Arrive
  <2>4. QED
    BY <2>2, <2>3
<1>13. ASSUME Transmit \/ UNCHANGED vars PROVE UNCHANGED <<rxVars, irq>>
  BY <1>13 DEF Transmit, vars
<1>14. UNCHANGED rxVars => UNCHANGED <<rx, rxCpu, rxDma, rx0Done, arrived>>
  BY DEF rxVars
<1>15. QED
  BY <1>1, <1>3, <1>4, <1>5, <1>7, <1>8, <1>9, <1>10, <1>11, <1>12, <1>13, <1>14
     DEF Next, mtk_handle_irq

\* No more failures than the bound allows, and only a buffer in hand is freed by skb_padto.
LEMMA FaultsKept ==
  ASSUME FaultTypes, Sending, [Next]_vars
  PROVE  FaultTypes'
<1>1. unpadded \subseteq Skbs /\ fails \in Nat /\ fails <= MaxFails /\ MaxFails \in Nat
  BY SizeFacts DEF FaultTypes
<1>2. ASSUME NEW d \in Devs, mtk_open(d) PROVE FaultTypes'
  <2>1. UNCHANGED unpadded
    BY <1>2 DEF mtk_open, frees
  <2>2. CASE refcnt = 0
    <3>1. PICK full \in SUBSET RxIdx :
            fails' = fails + Cardinality(RxIdx \ full) /\ fails' <= MaxFails
      BY <1>2, <2>2 DEF mtk_open, qdma_config, qdma_initialize_rx_ring
    <3>2. IsFiniteSet(RxIdx)
      BY SizeFacts, FS_Interval DEF RxIdx
    <3>3. Cardinality(RxIdx \ full) \in Nat
      BY <3>2, FS_Difference, FS_CardinalityType
    <3>4. QED
      BY <1>1, <2>1, <3>1, <3>3 DEF FaultTypes
  <2>3. CASE refcnt # 0
    BY <1>2, <2>1, <2>3 DEF mtk_open, FaultTypes
  <2>4. QED
    BY <2>2, <2>3
<1>3. ASSUME NEW c \in Cpus, tx0_dscp_pkt_addr(c) PROVE FaultTypes'
  <2>1. PICK padFails \in BOOLEAN, mapFails \in BOOLEAN :
          /\ fails' = fails + Count(padFails) + Count(mapFails) /\ fails' <= MaxFails
          /\ unpadded' = IF padFails THEN unpadded \cup {xmit[c].skb} ELSE unpadded
    BY <1>3 DEF tx0_dscp_pkt_addr
  <2>2. xmit[c].skb \in Skbs
    BY <1>3, SizeFacts DEF tx0_dscp_pkt_addr, At, Has, Sending, InHand, Types, Skbs
  <2>3. Count(padFails) \in Nat /\ Count(mapFails) \in Nat
    BY DEF Count
  <2>4. QED
    BY <1>1, <2>1, <2>2, <2>3 DEF FaultTypes
<1>4. ASSUME rx0_pop_skb PROVE FaultTypes'
  BY <1>1, <1>4 DEF rx0_pop_skb, TakeAt, Beside, frees, FaultTypes
<1>5. ASSUME UNCHANGED <<unpadded, fails>> PROVE FaultTypes'
  BY <1>5 DEF FaultTypes
<1>6. ASSUME NEW c \in Cpus, mtk_start_xmit(c), ~tx0_dscp_pkt_addr(c)
      PROVE  UNCHANGED <<unpadded, fails>>
  BY <1>6 DEF mtk_start_xmit, Xmit, qdma_busy_wait, tx0_free_some, FreeAhead, TxCpuIdx, Rest
<1>7. ASSUME mtk_handle_irq, ~rx0_pop_skb PROVE UNCHANGED <<unpadded, fails>>
  BY <1>7 DEF mtk_handle_irq, IrqStatus, rx0_done, QueueLength, tx0_recycle_if_required,
     Acknowledge, Beside, frees
<1>8. ASSUME (\E d \in Devs : mtk_stop(d)) \/ Transmit \/ Arrive \/ UNCHANGED vars
      PROVE  UNCHANGED <<unpadded, fails>>
  BY <1>8 DEF mtk_stop, Transmit, Arrive, vars, frees
<1>9. QED
  BY <1>2, <1>3, <1>4, <1>5, <1>6, <1>7, <1>8 DEF Next

-----------------------------------------------------------------------------
(* Where the buffers are.  The descriptor a call lays its buffer in is      *)
(* empty (Spare), because the call before it has emptied the two ahead; so  *)
(* no buffer is forgotten there (Somewhere).                                *)

Placing == Sending /\ Spare /\ Somewhere

\* While one call is under way the others have not begun.
LEMMA Alone ==
  ASSUME Sending, NEW c \in Cpus, xmit[c].pc # "idle"
  PROVE  \A e \in Cpus : e # c => xmit[e].pc = "idle"
BY DEF Sending, Locked

LEMMA StartPlaces ==
  Init => Spare /\ Somewhere
<1> SUFFICES ASSUME Init PROVE Spare /\ Somewhere
  OBVIOUS
<1>1. 0 \in TxIdx
  BY SizeFacts DEF TxIdx
<1>2. tx[txCpu] = [addr |-> FALSE, done |-> FALSE, skb |-> NoSkb]
  BY <1>1 DEF Init
<1>3. (\A c \in Cpus : xmit[c].pc = "idle") /\ sends = 0
  BY DEF Init, IdleXmit
<1>4. QED
  BY <1>2, <1>3 DEF Spare, Somewhere

LEMMA OpenPlaces ==
  ASSUME Placing, Session, NEW d \in Devs, mtk_open(d)
  PROVE  (Spare /\ Somewhere)'
<1>1. UNCHANGED <<xmit, sends, freed>>
  BY DEF mtk_open, frees
<1>2. CASE refcnt = 0
  <2>1. opened = {}
    <3>1. IsFiniteSet(opened)
      BY SizeFacts, FS_Subset DEF Session
    <3>2. QED
      BY <1>2, <3>1, FS_EmptySet DEF Session
  <2>2. \A c \in Cpus : xmit[c].pc = "idle"
    BY <2>1 DEF Placing, Sending, Locked
  <2>3. /\ tx' = [i \in TxIdx |-> [addr |-> FALSE, done |-> FALSE, skb |-> tx[i].skb]]
        /\ txCpu' = 0 /\ lost' = lost \cup Ring
    BY <1>2 DEF mtk_open, qdma_config
  <2>4. (\A i \in TxIdx : ~tx'[i].addr) /\ 0 \in TxIdx
    BY <2>3, SizeFacts DEF TxIdx
  <2>5. Spare'
    BY <1>1, <2>2, <2>3, <2>4 DEF Spare
  <2>6. ASSUME NEW s \in 1 .. sends, s \notin lost' PROVE freed[s] = 1
    <3>1. s \notin lost /\ s \notin Ring /\ s # NoSkb
      BY <2>3, <2>6, SizeFacts DEF Placing, Sending, Types, NoSkb
    <3>2. \A i \in TxIdx : tx[i].skb # s
      BY <3>1 DEF Ring
    <3>3. QED
      BY <2>2, <3>1, <3>2 DEF Placing, Somewhere, Has
  <2>7. Somewhere'
    BY <1>1, <2>6 DEF Somewhere
  <2>8. QED
    BY <2>5, <2>7
<1>3. CASE refcnt # 0
  <2>1. UNCHANGED <<tx, txCpu, lost>>
    BY <1>3 DEF mtk_open, txVars
  <2>2. QED
    BY <1>1, <2>1 DEF Placing, Spare, Somewhere, Laid, Has
<1>4. QED
  BY <1>2, <1>3

LEMMA XmitPlaces ==
  ASSUME Placing, NEW c \in Cpus, NEW d \in Devs, Xmit(c, d)
  PROVE  (Spare /\ Somewhere)'
<1> DEFINE new == [pc |-> "busy", skb |-> sends + 1, dev |-> d, idx |-> 0]
<1>1. /\ xmit[c].pc = "idle" /\ lock = Nobody /\ sends' = sends + 1
      /\ xmit' = [xmit EXCEPT ![c] = new] /\ UNCHANGED <<tx, txCpu, freed, lost>>
  BY DEF Xmit, At, Rest, txVars, admin
<1>2. /\ \A e \in Cpus : xmit[e].pc = "idle"
      /\ sends \in Nat
  BY <1>1, SizeFacts DEF Placing, Sending, Locked, Types
<1>3. /\ xmit'[c] = new /\ \A e \in Cpus : e # c => xmit'[e] = xmit[e]
      /\ new.pc = "busy" /\ new.skb = sends + 1
  BY <1>1 DEF Placing, Sending, Types
<1> HIDE DEF new
<1>4. Spare'
  BY <1>1, <1>2, <1>3 DEF Placing, Spare, Laid
<1>5. Somewhere'
  <2>1. \A s \in 1 .. sends' : s \in 1 .. sends \/ s = sends + 1
    BY <1>1, <1>2
  <2>2. Has(c)' /\ xmit'[c].skb = sends + 1
    BY <1>3 DEF Has
  <2>3. \A e \in Cpus : ~Has(e)
    BY <1>2 DEF Has
  <2>4. QED
    BY <1>1, <2>1, <2>2, <2>3 DEF Placing, Somewhere
<1>6. QED
  BY <1>4, <1>5

\* A dropped buffer is freed; no other one moves.
LEMMA DropPlaces ==
  ASSUME Placing, NEW c \in Cpus, Has(c), DropOnEntry(c), UNCHANGED sends, UNCHANGED lost,
         UNCHANGED txCpu,
         \A i \in TxIdx : tx'[i].addr = tx[i].addr /\ (tx[i].addr => tx'[i].skb = tx[i].skb)
  PROVE  (Spare /\ Somewhere)'
<1> DEFINE b == xmit[c].skb
<1>1. /\ xmit' = [xmit EXCEPT ![c] = IdleXmit]
      /\ freed' = [freed EXCEPT ![b] = @ + 1]
  BY DEF DropOnEntry
<1>2. b \in Skbs /\ freed[b] = 0
  BY SizeFacts DEF Placing, Sending, InHand, Types, Skbs
<1>3. freed'[b] = 1 /\ \A s \in Skbs : s # b => freed'[s] = freed[s]
  BY <1>1, <1>2 DEF Placing, Sending, Types
<1>4. \A e \in Cpus : e # c => xmit[e].pc = "idle"
  BY Alone DEF Placing, Has
<1>5. \A e \in Cpus : xmit'[e].pc = "idle"
  BY <1>1, <1>4 DEF Placing, Sending, Types, IdleXmit
<1>6. 1 .. sends \subseteq Skbs /\ txCpu \in TxIdx
  BY SizeFacts DEF Placing, Sending, Types, Skbs
<1>7. \A e \in Cpus : ~Laid(e)
  BY <1>4 DEF Laid, Has
<1>8. \A e \in Cpus : Has(e) => xmit[e].skb = b
  BY <1>4 DEF Has
<1> HIDE DEF b
<1>9. Spare'
  BY <1>5, <1>6, <1>7 DEF Placing, Spare
<1>10. Somewhere'
  BY <1>3, <1>6, <1>8 DEF Placing, Somewhere
<1>11. QED
  BY <1>9, <1>10

LEMMA BusyPlaces ==
  ASSUME Placing, NEW c \in Cpus, qdma_busy_wait(c)
  PROVE  (Spare /\ Somewhere)'
<1>1. /\ xmit[c].pc = "busy" /\ Has(c)
      /\ UNCHANGED <<tx, txCpu, lost, sends>>
  BY DEF qdma_busy_wait, At, Has, Rest, txVars, admin
<1>2. CASE TxBusy
  <2>1. DropOnEntry(c)
    BY <1>2 DEF qdma_busy_wait
  <2>2. QED
    BY <1>1, <2>1, DropPlaces
<1>3. CASE ~TxBusy
  <2> DEFINE new == [xmit[c] EXCEPT !.pc = "map", !.idx = txCpu]
  <2>1. xmit' = [xmit EXCEPT ![c] = new] /\ UNCHANGED freed
    BY <1>3, Zenon DEF qdma_busy_wait
  <2>2. new.pc = "map" /\ new.skb = xmit[c].skb
    <3>1. xmit[c] \in XmitType
      BY DEF Placing, Sending, Types
    <3>2. QED
      BY <3>1
  <2> HIDE DEF new
  <2>3. xmit'[c] = new /\ \A e \in Cpus : e # c => xmit'[e] = xmit[e]
    BY <2>1 DEF Placing, Sending, Types
  <2>4. Spare'
    BY <1>1, <2>2, <2>3 DEF Placing, Spare, Laid
  <2>5. \A e \in Cpus : Has(e) => Has(e)' /\ xmit'[e].skb = xmit[e].skb
    BY <2>2, <2>3 DEF Has
  <2>6. Somewhere'
    BY <1>1, <2>1, <2>5 DEF Placing, Somewhere
  <2>7. QED
    BY <2>4, <2>6
<1>4. QED
  BY <1>2, <1>3

LEMMA MapPlaces ==
  ASSUME Placing, NEW c \in Cpus, tx0_dscp_pkt_addr(c)
  PROVE  (Spare /\ Somewhere)'
<1> DEFINE k == xmit[c].idx
<1>1. xmit[c].pc = "map" /\ Has(c) /\ UNCHANGED <<txCpu, lost, sends>>
  BY DEF tx0_dscp_pkt_addr, At, Has, Rest, admin
<1>2. /\ k \in TxIdx /\ k = txCpu
      /\ tx \in [TxIdx -> TxType] /\ tx[k] \in TxType
  BY <1>1 DEF Placing, Sending, Types, Caught, Past
<1>3. \A e \in Cpus : e # c => xmit[e].pc = "idle"
  BY <1>1, Alone DEF Placing
<1>4. ~tx[k].addr
  BY <1>1, <1>2, <1>3 DEF Placing, Spare, Laid
<1> HIDE DEF k
<1>5. CASE /\ tx' = [tx EXCEPT ![k].addr = TRUE, ![k].skb = xmit[c].skb]
           /\ xmit' = [xmit EXCEPT ![c].pc = "free"] /\ UNCHANGED <<lock, freed>>
  <2> DEFINE new == [[tx[k] EXCEPT !.addr = TRUE] EXCEPT !.skb = xmit[c].skb]
  <2>1. tx' = [tx EXCEPT ![k] = new]
    BY <1>2, <1>5
  <2>2. new.addr /\ new.skb = xmit[c].skb
    BY <1>2
  <2> HIDE DEF new
  <2>3. tx'[k] = new /\ \A i \in TxIdx : i # k => tx'[i] = tx[i]
    BY <1>2, <2>1
  <2>4. UNCHANGED <<lock, opened>>
    BY <1>5 DEF tx0_dscp_pkt_addr, Rest, admin
  <2>5. xmit'[c].pc = "free" /\ \A e \in Cpus : e # c => xmit'[e].pc = "idle"
    BY <1>1, <1>5, <2>4, GoesOn DEF Placing
  <2>6. Spare'
    BY <2>5 DEF Spare, Laid
  <2>7. \A e \in Cpus : Has(e) => e = c
    BY <1>3 DEF Has
  <2>8. Somewhere'
    BY <1>1, <1>2, <1>4, <1>5, <2>2, <2>3, <2>7 DEF Placing, Somewhere
  <2>9. QED
    BY <2>6, <2>8
<1>6. CASE tx' = [tx EXCEPT ![k].addr = FALSE] /\ DropOnEntry(c)
  <2> DEFINE new == [tx[k] EXCEPT !.addr = FALSE]
  <2>1. tx' = [tx EXCEPT ![k] = new]
    BY <1>6, Zenon
  <2>2. new.addr = FALSE
    BY <1>2
  <2> HIDE DEF new
  <2>3. tx[k].addr = FALSE
    BY <1>2, <1>4
  <2>4. \A i \in TxIdx : tx'[i].addr = tx[i].addr /\ (tx[i].addr => tx'[i].skb = tx[i].skb)
    BY <1>2, <2>1, <2>2, <2>3
  <2>5. QED
    BY <1>1, <1>6, <2>4, DropPlaces
<1>7. QED
  BY <1>5, <1>6 DEF tx0_dscp_pkt_addr, k

LEMMA FreePlaces ==
  ASSUME Placing, NEW c \in Cpus, tx0_free_some(c)
  PROVE  (Spare /\ Somewhere)'
<1> DEFINE k == xmit[c].idx
           Of(s) == {i \in Ahead(c) : tx[i].addr /\ tx[i].skb = s}
<1>1. /\ xmit[c].pc = "free" /\ xmit' = [xmit EXCEPT ![c].pc = "cpu"]
      /\ UNCHANGED <<txCpu, lock, opened, lost, sends>>
  BY DEF tx0_free_some, FreeAhead, At, Rest, admin
<1>2. k \in TxIdx /\ NextIdx(k) \in Ahead(c) /\ Ahead(c) \subseteq TxIdx
  <2>1. k \in TxIdx
    BY DEF Placing, Sending, Types
  <2>2. QED
    BY <2>1, RingFacts DEF Ahead
<1>3. \A i \in TxIdx : IF i \in Ahead(c) THEN tx'[i].addr = FALSE ELSE tx'[i] = tx[i]
  BY DEF tx0_free_some
<1>4. /\ xmit'[c].pc = "cpu" /\ xmit'[c].idx = k
      /\ \A e \in Cpus : e # c => xmit'[e].pc = "idle"
  BY <1>1, GoesOn DEF Placing
<1>5. \A s \in Skbs : freed'[s] = freed[s] + Cardinality(Of(s))
  BY DEF tx0_free_some, FreeAhead
<1>6. ASSUME NEW s \in Skbs, Of(s) # {} PROVE freed'[s] = 1
  <2>1. PICK j \in Of(s) : TRUE
    BY <1>6
  <2>2. j \in TxIdx /\ tx[j].addr /\ tx[j].skb = s
    BY <1>2, <2>1
  <2>3. Of(s) = {j} /\ freed[s] = 0
    BY <1>2, <2>1, <2>2 DEF Placing, Sending, Holding
  <2>4. Cardinality(Of(s)) = 1
    BY <2>3, FS_Singleton
  <2>5. QED
    BY <1>5, <2>3, <2>4
<1>7. ASSUME NEW s \in Skbs, Of(s) = {} PROVE freed'[s] = freed[s]
  <2>1. Cardinality(Of(s)) = 0 /\ freed[s] \in 0 .. 1
    BY <1>7, FS_EmptySet DEF Placing, Sending, Types
  <2>2. QED
    BY <1>5, <2>1
<1>8. Spare'
  BY <1>2, <1>3, <1>4 DEF Spare, Laid
<1>9. Somewhere'
  <2>1. \A e \in Cpus : ~Has(e)
    BY <1>1, Alone DEF Placing, Has
  <2>2. 1 .. sends \subseteq Skbs
    BY SizeFacts DEF Placing, Sending, Types, Skbs
  <2>3. \A s \in 1 .. sends : Of(s) = {} =>
          \A i \in TxIdx : tx[i].addr /\ tx[i].skb = s => tx'[i] = tx[i]
    BY <1>3
  <2> HIDE DEF Of
  <2>4. QED
    BY <1>1, <1>6, <1>7, <2>1, <2>2, <2>3 DEF Placing, Somewhere
<1>10. QED
  BY <1>8, <1>9

LEMMA IndexPlaces ==
  ASSUME Placing, NEW c \in Cpus, TxCpuIdx(c)
  PROVE  (Spare /\ Somewhere)'
<1>1. /\ xmit[c].pc = "cpu" /\ xmit' = [xmit EXCEPT ![c] = IdleXmit]
      /\ txCpu' = NextIdx(xmit[c].idx) /\ UNCHANGED <<tx, freed, lost, sends>>
  BY DEF TxCpuIdx, At, Rest, admin
<1>2. \A e \in Cpus : e # c => xmit[e].pc = "idle"
  BY <1>1, Alone DEF Placing
<1>3. \A e \in Cpus : xmit'[e].pc = "idle"
  BY <1>1, <1>2 DEF Placing, Sending, Types, IdleXmit
<1>4. \A e \in Cpus : ~Has(e)
  BY <1>1, <1>2 DEF Has
<1>5. Spare'
  BY <1>1, <1>3 DEF Placing, Spare
<1>6. Somewhere'
  BY <1>1, <1>4 DEF Placing, Somewhere
<1>7. QED
  BY <1>5, <1>6

\* A step that moves no buffer, whatever it does to the done bits.
LEMMA OthersPlace ==
  ASSUME Placing, UNCHANGED xmit, UNCHANGED sends, UNCHANGED freed, UNCHANGED lost,
         UNCHANGED txCpu,
         \A i \in TxIdx : tx'[i].addr = tx[i].addr /\ tx'[i].skb = tx[i].skb
  PROVE  (Spare /\ Somewhere)'
<1>1. txCpu \in TxIdx /\ \A c \in Cpus : NextIdx(xmit[c].idx) \in TxIdx
  <2>1. txCpu \in TxIdx /\ \A c \in Cpus : xmit[c].idx \in TxIdx
    BY DEF Placing, Sending, Types
  <2>2. QED
    BY <2>1, RingFacts
<1>2. QED
  BY <1>1 DEF Placing, Spare, Somewhere, Laid, Has

LEMMA TransmitPlaces ==
  ASSUME Placing, Transmit
  PROVE  (Spare /\ Somewhere)'
<1>1. /\ tx' = [tx EXCEPT ![txDma].done = TRUE]
      /\ UNCHANGED <<xmit, sends, freed, lost, txCpu>>
  BY DEF Transmit, admin, frees
<1> DEFINE new == [tx[txDma] EXCEPT !.done = TRUE]
<1>2. txDma \in TxIdx /\ tx \in [TxIdx -> TxType] /\ tx[txDma] \in TxType
  BY DEF Placing, Sending, Types
<1>3. tx' = [tx EXCEPT ![txDma] = new]
  BY <1>1, Zenon
<1>4. new.addr = tx[txDma].addr /\ new.skb = tx[txDma].skb
  BY <1>2
<1> HIDE DEF new
<1>5. \A i \in TxIdx : tx'[i].addr = tx[i].addr /\ tx'[i].skb = tx[i].skb
  BY <1>2, <1>3, <1>4
<1>6. QED
  BY <1>1, <1>5, OthersPlace

LEMMA NextPlaces ==
  ASSUME Placing, Session, [Next]_vars
  PROVE  (Spare /\ Somewhere)'
<1>1. ASSUME NEW d \in Devs, mtk_open(d) PROVE (Spare /\ Somewhere)'
  BY <1>1, OpenPlaces
<1>2. ASSUME NEW c \in Cpus, mtk_start_xmit(c) PROVE (Spare /\ Somewhere)'
  BY <1>2, XmitPlaces, BusyPlaces, MapPlaces, FreePlaces, IndexPlaces DEF mtk_start_xmit
<1>3. ASSUME Transmit PROVE (Spare /\ Somewhere)'
  BY <1>3, TransmitPlaces
<1>4. ASSUME (\E d \in Devs : mtk_stop(d)) \/ mtk_handle_irq \/ Arrive \/ UNCHANGED vars
      PROVE  (Spare /\ Somewhere)'
  <2>1. UNCHANGED <<tx, txCpu, xmit, sends, freed, lost>>
    BY <1>4 DEF mtk_stop, mtk_handle_irq, IrqStatus, rx0_done, rx0_pop_skb, QueueLength,
       tx0_recycle_if_required, Acknowledge, Beside, Arrive, vars, admin, txVars, frees
  <2>2. QED
    BY <2>1, OthersPlace
<1>5. QED
  BY <1>1, <1>2, <1>3, <1>4 DEF Next

-----------------------------------------------------------------------------
(* The received frames: mtk_open, Arrive and mtk_handle_irq.               *)

Received == Handed /\ Once /\ Untouched /\ Pending
Receiving == RxTypes /\ Session /\ Received

LEMMA StartReceives ==
  Init => Received
<1> SUFFICES ASSUME Init PROVE Received
  OBVIOUS
<1>1. /\ delivered = <<>> /\ Len(delivered) = 0 /\ served = 0 /\ arrived = 0 /\ blank = FALSE
      /\ rx0Done = FALSE /\ entries = 0 /\ enabled = FALSE
      /\ irq.pc = "idle" /\ irq.rx = FALSE
  BY DEF Init, IdleIrq
<1>2. \A i \in RxIdx : rx[i].frame = 0 /\ rx[i].held = 0 /\ rx[i].skb = FALSE
  BY DEF Init, NoFrame
<1>3. Handed
  <2>1. delivered \in Seq(Nat)
    BY <1>1
  <2>2. served \in 0 .. arrived /\ blank \in BOOLEAN
    <3>1. 0 \in 0 .. 0
      OBVIOUS
    <3>2. QED
      BY <1>1, <3>1, Zenon
  <2>3. 1 .. Len(delivered) = {} /\ 1 .. Len(delivered) - 1 = {}
    <3>1. Len(delivered) = 0
      BY <1>1
    <3>2. \A n : n = 0 => 1 .. n = {} /\ 1 .. n - 1 = {}
      OBVIOUS
    <3>3. QED
      BY <3>1, <3>2, Zenon
  <2>4. QED
    BY <1>1, <2>1, <2>2, <2>3 DEF Handed
<1>4. Once
  BY <1>1, <1>2 DEF Once, NoFrame
<1>5. Untouched /\ Pending
  BY <1>1, <1>2 DEF Untouched, Pending
<1>6. QED
  BY <1>3, <1>4, <1>5 DEF Received

\* After a step of the engine the descriptor filled last is the one it stood at.
LEMMA Filled ==
  ASSUME NEW i \in RxIdx
  PROVE  (((i + 1) % RX0_DSCP_NUM) + RX0_DSCP_NUM - 1) % RX0_DSCP_NUM = i
<1> DEFINE N == RX0_DSCP_NUM
<1>1. N \in Nat /\ N > 1 /\ i \in 0 .. N - 1
  BY SizeFacts DEF RxIdx
<1> HIDE DEF N
<1>2. (i + 1) % N = IF i + 1 < N THEN i + 1 ELSE 0
  <2>1. i + 1 \in 0 .. 2 * N - 1
    BY <1>1
  <2>2. QED
    BY <1>1, <2>1, ModFacts
<1>3. (((i + 1) % N) + N - 1) % N = i
  <2>1. ((i + 1) % N) + N - 1 \in 0 .. 2 * N - 1
    BY <1>1, <1>2
  <2>2. (((i + 1) % N) + N - 1) % N
          = IF ((i + 1) % N) + N - 1 < N THEN ((i + 1) % N) + N - 1 ELSE ((i + 1) % N) + N - 1 - N
    BY <1>1, <2>1, ModFacts
  <2>3. QED
    BY <1>1, <1>2, <2>2
<1>4. QED
  BY <1>3 DEF N

\* Values that the steps below reason about.
LEMMA RxValues ==
  ASSUME Receiving
  PROVE  /\ arrived \in Nat /\ served \in Nat /\ rxDma \in RxIdx /\ irq.val \in RxIdx
         /\ rx \in [RxIdx -> RxType] /\ irq \in IrqType /\ irq.mask \in BOOLEAN
         /\ LastFilled \in RxIdx
         /\ \A i \in RxIdx : rx[i] \in RxType /\ rx[i].frame \in Nat /\ rx[i].held \in Nat
<1>1. RxTypes /\ served \in 0 .. arrived /\ arrived \in Nat
  BY DEF Receiving, Received, Handed, RxTypes
<1>2. rxDma \in RxIdx /\ rxDma + RX0_DSCP_NUM - 1 \in Nat
  BY <1>1, SizeFacts DEF RxTypes, RxIdx
<1>3. LastFilled \in RxIdx
  BY <1>2, SizeFacts DEF LastFilled, RxIdx
<1>4. QED
  BY <1>1, <1>2, <1>3 DEF RxTypes

\* A step that hands nothing up and puts no frame into a buffer.
LEMMA OnceKept ==
  ASSUME Receiving, UNCHANGED delivered, arrived' \in Nat, arrived <= arrived',
         \A i \in RxIdx : rx'[i].held = 0 \/ rx'[i].held = rx[i].held
  PROVE  Once'
<1>1. delivered \in Seq(Nat) /\ \A k \in 1 .. Len(delivered) : delivered[k] \in Nat
  BY DEF Receiving, Received, Handed
<1>2. arrived \in Nat /\ \A i \in RxIdx : rx[i].held \in Nat
  BY RxValues
<1>3. /\ \A k \in 1 .. Len(delivered) : delivered[k] <= arrived
      /\ \A i \in RxIdx : rx[i].held <= arrived
      /\ \A j, k \in 1 .. Len(delivered) : j # k => delivered[j] # delivered[k]
      /\ \A i \in RxIdx : rx[i].held # 0 =>
           /\ \A k \in 1 .. Len(delivered) : delivered[k] # rx[i].held
           /\ \A j \in RxIdx : j # i => rx[j].held # rx[i].held
  BY DEF Receiving, Received, Once, NoFrame
<1>4. \A k \in 1 .. Len(delivered) : delivered[k] <= arrived'
  BY <1>1, <1>2, <1>3
<1>5. \A i \in RxIdx : rx'[i].held <= arrived'
  BY <1>2, <1>3
<1>6. QED
  BY <1>3, <1>4, <1>5, Zenon DEF Once, NoFrame

\* Before the first stop a session is set up over a ring nothing was received into.
LEMMA OpenReceives ==
  ASSUME Receiving, NEW d \in Devs, mtk_open(d)
  PROVE  Received'
<1>1. UNCHANGED rcvd /\ UNCHANGED <<arrived, irq, rx0Done, stopped>>
  BY DEF mtk_open
<1>2. UNCHANGED <<delivered, blank, served>>
  BY <1>1 DEF rcvd
<1>3. Handed'
  BY <1>1, <1>2 DEF Receiving, Received, Handed
<1>4. CASE refcnt = 0
  <2>1. enabled' = TRUE /\ qdma_initialize_rx_ring
    BY <1>4 DEF mtk_open, qdma_config
  <2>2. opened = {}
    <3>1. IsFiniteSet(opened) /\ Cardinality(opened) = 0
      BY <1>4, SizeFacts, FS_Subset DEF Receiving, Session
    <3>2. QED
      BY <3>1, FS_EmptySet
  <2>3. ~stopped => ~rx0Done /\ irq.pc = "idle" /\ \A i \in RxIdx : ~rx[i].skb
    BY <2>2 DEF Receiving, Session, Received, Untouched
  <2>4. \A i \in RxIdx :
          /\ rx'[i].frame = 0
          /\ rx'[i].held = 0 \/ rx'[i].held = rx[i].held
          /\ rx'[i].skb => rx'[i].addr \/ rx[i].skb
    <3>1. ASSUME NEW i \in RxIdx
          PROVE  /\ rx'[i].frame = 0
                 /\ rx'[i].held = 0 \/ rx'[i].held = rx[i].held
                 /\ rx'[i].skb => rx'[i].addr \/ rx[i].skb
      <4>1. rx[i] \in RxType
        BY DEF Receiving, RxTypes
      <4>2. rx'[i] = NewBuffer \/ rx'[i] = NoBuffer(rx[i])
        BY <2>1, SetUp
      <4>3. QED
        BY <4>1, <4>2 DEF NewBuffer, NoBuffer, NoFrame
    <3>2. QED
      BY <3>1
  <2>5. Once'
    BY <1>1, <1>2, <2>4, RxValues, OnceKept
  <2>6. Untouched'
    BY <2>1 DEF Untouched
  <2>7. Pending'
    BY <1>1, <2>3, <2>4, RxValues DEF Receiving, Received, Pending, NoFrame
  <2>8. QED
    BY <1>3, <2>5, <2>6, <2>7 DEF Received
<1>5. CASE refcnt # 0
  <2>1. UNCHANGED <<rx, rxDma, entries, enabled>>
    BY <1>5 DEF mtk_open
  <2>2. QED
    BY <1>1, <1>2, <1>3, <2>1
       DEF Receiving, Received, Once, Untouched, Pending, Fresh, LastFilled
<1>6. QED
  BY <1>4, <1>5

LEMMA ArriveReceives ==
  ASSUME Receiving, Arrive
  PROVE  Received'
<1>1. /\ arrived' = arrived + 1 /\ enabled
      /\ UNCHANGED <<irq, delivered, blank, served, stopped, enabled, entries>>
  BY DEF Arrive, rcvd, admin
<1>2. Untouched'
  BY <1>1 DEF Untouched
<1>3. Handed'
  BY <1>1, RxValues DEF Receiving, Received, Handed
<1>4. CASE rxDma = rxCpu
  <2>1. UNCHANGED <<rx, rxDma, rx0Done>>
    BY <1>4 DEF Arrive
  <2>2. Once'
    BY <1>1, <2>1, RxValues, OnceKept
  <2>3. \A i \in RxIdx : rx[i].frame <= arrived'
    BY <1>1, RxValues DEF Receiving, Received, Pending
  <2>4. Pending'
    BY <1>1, <2>1, <2>3 DEF Receiving, Received, Pending, Fresh, LastFilled
  <2>5. QED
    BY <1>2, <1>3, <2>2, <2>4 DEF Received
<1>5. CASE rxDma # rxCpu
  <2> DEFINE old == rx[rxDma]
             new == Fill(old, arrived + 1)
  <2>1. /\ rx' = [rx EXCEPT ![rxDma] = new]
        /\ rxDma' = (rxDma + 1) % RX0_DSCP_NUM /\ rx0Done' = TRUE
    BY <1>5 DEF Arrive
  <2>2. LastFilled' = rxDma
    BY <2>1, Filled, RxValues DEF LastFilled
  <2>3. /\ new.frame = arrived + 1 /\ new.addr = old.addr /\ new.skb = old.skb
        /\ new.held = IF old.addr THEN arrived + 1 ELSE old.held
    BY DEF Fill
  <2> HIDE DEF new, old
  <2>4. rx'[rxDma] = new /\ \A i \in RxIdx : i # rxDma => rx'[i] = rx[i]
    BY <2>1, RxValues
  <2>5. /\ served' < rx'[rxDma].frame
        /\ \A i \in RxIdx : Fresh(i) => served' < rx'[i].frame
    <3>1. served <= arrived
      BY RxValues DEF Receiving, Received, Handed
    <3>2. QED
      BY <1>1, <2>3, <2>4, <3>1, RxValues DEF Fresh
  <2>6. \A i \in RxIdx : rx'[i].frame <= arrived'
    <3>1. \A i \in RxIdx : rx[i].frame <= arrived
      BY DEF Receiving, Received, Pending
    <3>2. QED
      BY <1>1, <2>3, <2>4, <3>1, RxValues
  <2>7. Once'
    <3>1. \A k \in 1 .. Len(delivered) : delivered[k] \in Nat /\ delivered[k] <= arrived
      <4>1. delivered \in Seq(Nat)
        BY DEF Receiving, Received, Handed
      <4>2. QED
        BY <4>1 DEF Receiving, Received, Once
    <3>2. \A i \in RxIdx : rx[i].held <= arrived /\ rx[i].held \in Nat /\ arrived \in Nat
      BY RxValues DEF Receiving, Received, Once
    <3>3. \A i \in RxIdx : rx'[i].held = rx[i].held \/ (i = rxDma /\ rx'[i].held = arrived + 1)
      BY <2>3, <2>4 DEF old
    <3>4. \A k \in 1 .. Len(delivered') : delivered'[k] <= arrived'
      BY <1>1, <3>1, <3>2, RxValues
    <3>5. \A j, k \in 1 .. Len(delivered') : j # k => delivered'[j] # delivered'[k]
      BY <1>1 DEF Receiving, Received, Once
    <3>6. \A i \in RxIdx : rx'[i].held <= arrived'
      BY <1>1, <3>2, <3>3
    <3>7. ASSUME NEW i \in RxIdx, rx'[i].held # NoFrame
          PROVE  /\ \A k \in 1 .. Len(delivered') : delivered'[k] # rx'[i].held
                 /\ \A j \in RxIdx : j # i => rx'[j].held # rx'[i].held
      <4>1. CASE rx'[i].held = rx[i].held
        <5>1. /\ \A k \in 1 .. Len(delivered) : delivered[k] # rx[i].held
              /\ \A j \in RxIdx : j # i => rx[j].held # rx[i].held
          BY <3>7, <4>1 DEF Receiving, Received, Once
        <5>2. rx[i].held # arrived + 1
          BY <3>2
        <5>3. QED
          BY <1>1, <3>3, <4>1, <5>1, <5>2
      <4>2. CASE i = rxDma /\ rx'[i].held = arrived + 1
        <5>1. \A k \in 1 .. Len(delivered) : delivered[k] # arrived + 1
          BY <3>1, <3>2
        <5>2. \A j \in RxIdx : j # i => rx'[j].held # arrived + 1
          BY <3>2, <3>3, <4>2
        <5>3. QED
          BY <1>1, <4>2, <5>1, <5>2
      <4>3. QED
        BY <3>3, <4>1, <4>2
    <3>8. QED
      BY <3>4, <3>5, <3>6, <3>7 DEF Once
  <2>8. ASSUME ~stopped
        PROVE  \A i \in RxIdx : rx'[i].skb =>
                 rx'[i].addr /\ (rx'[i].frame # NoFrame => rx'[i].held = rx'[i].frame)
    <3>1. \A i \in RxIdx : rx[i].skb =>
            rx[i].addr /\ (rx[i].frame # NoFrame => rx[i].held = rx[i].frame)
      BY <2>8 DEF Receiving, Received, Pending
    <3>2. QED
      BY <2>3, <2>4, <3>1, RxValues DEF old
  <2>9. Fresh(LastFilled)'
    BY <2>1, <2>2, <2>5 DEF Fresh
  <2>10. ~stopped /\ irq.pc = "pop" => Fresh(irq.val)'
    BY <1>1, <2>5, RxValues DEF Receiving, Received, Pending, Fresh
  <2>11. Pending'
    BY <1>1, <2>6, <2>8, <2>9, <2>10 DEF Receiving, Received, Pending, Fresh
  <2>12. QED
    BY <1>2, <1>3, <2>7, <2>11 DEF Received
<1>6. QED
  BY <1>4, <1>5

\* What the stack gets left its descriptor, and is in order and not empty before the first stop.
LEMMA PopReceives ==
  ASSUME Receiving, rx0_pop_skb
  PROVE  Received'
<1> DEFINE i == irq.val
           f == rx[irq.val].frame
           h == rx[irq.val].held
           up == rx[irq.val].skb /\ rx[irq.val].held # NoFrame
           n == Len(delivered)
<1>1. /\ irq.pc = "pop" /\ irq' = [irq EXCEPT !.pc = "ack"] /\ served' = f
      /\ UNCHANGED <<arrived, enabled, stopped>>
  BY DEF rx0_pop_skb, TakeAt, IrqAt, Beside, admin
<1>2. /\ i \in RxIdx /\ f \in 0 .. arrived /\ h \in 0 .. arrived /\ n \in Nat
      /\ delivered \in Seq(Nat) /\ \A k \in 1 .. n : delivered[k] \in Nat
  <2>1. i \in RxIdx /\ f \in Nat /\ h \in Nat /\ delivered \in Seq(Nat)
    BY RxValues DEF Receiving, Received, Handed
  <2>2. f <= arrived
    BY <2>1 DEF Receiving, Received, Pending
  <2>3. h <= arrived
    BY <2>1 DEF Receiving, Received, Once
  <2> HIDE DEF i, f, h, n
  <2>4. n \in Nat /\ \A k \in 1 .. n : delivered[k] \in Nat
    BY <2>1 DEF n
  <2>5. arrived \in Nat
    BY RxValues
  <2>6. f \in 0 .. arrived /\ h \in 0 .. arrived
    BY <2>1, <2>2, <2>3, <2>5
  <2>7. QED
    BY <2>1, <2>4, <2>6
<1>3. /\ \/ rx'[i] = NewBuffer
            /\ delivered' = (IF up THEN Append(delivered, h) ELSE delivered)
            /\ blank' = (blank \/ (rx[i].skb /\ h = NoFrame))
         \/ /\ rx'[i] = Reuse(rx[i])
            /\ UNCHANGED <<delivered, blank>>
      /\ \A j \in RxIdx : j # i => rx'[j] = rx[j]
  BY RxValues DEF rx0_pop_skb, TakeAt
<1>4. rx[i] \in RxType
  BY RxValues
<1>5. /\ rx'[i].frame = 0
      /\ rx'[i].held = 0 \/ (rx'[i].held = h /\ UNCHANGED delivered)
      /\ rx'[i].skb => rx'[i].addr \/ (rx[i].skb /\ rx'[i].addr = rx[i].addr)
  BY <1>3 DEF NewBuffer, Reuse, NoFrame
<1>6. Untouched'
  BY <1>1 DEF Receiving, Received, Untouched
<1>7. Pending'
  <2>1. irq'.pc = "ack" /\ irq'.rx /\ irq'.mask = irq.mask
    BY <1>1, RxValues DEF Receiving, Received, Pending
  <2>2. \A j \in RxIdx : rx'[j].frame <= arrived
    <3>1. \A j \in RxIdx : rx[j].frame <= arrived
      BY DEF Receiving, Received, Pending
    <3>2. rx'[i].frame <= arrived
      BY <1>5, RxValues
    <3>3. QED
      BY <1>3, <3>1, <3>2
  <2>3. ASSUME ~stopped
        PROVE  \A j \in RxIdx : rx'[j].skb =>
                 rx'[j].addr /\ (rx'[j].frame # NoFrame => rx'[j].held = rx'[j].frame)
    <3>1. \A j \in RxIdx : rx[j].skb =>
            rx[j].addr /\ (rx[j].frame # NoFrame => rx[j].held = rx[j].frame)
      BY <2>3 DEF Receiving, Received, Pending
    <3>2. QED
      BY <1>2, <1>3, <1>5, <3>1 DEF NoFrame
  <2>4. ~stopped => irq.mask
    BY <1>1 DEF Receiving, Received, Pending
  <2>5. QED
    BY <1>1, <2>1, <2>2, <2>3, <2>4 DEF Pending
<1>8. CASE delivered' = Append(delivered, h) /\ up /\ rx'[i].held = 0
           /\ blank' = (blank \/ (rx[i].skb /\ h = NoFrame))
  <2>1. /\ delivered' \in Seq(Nat) /\ Len(delivered') = n + 1 /\ delivered'[n + 1] = h
        /\ \A k \in 1 .. n : delivered'[k] = delivered[k]
        /\ \A k \in 1 .. n + 1 : k \in 1 .. n \/ k = n + 1
        /\ \A k \in 1 .. n : k \in 1 .. n - 1 \/ k = n
    BY <1>2, <1>8
  <2>2. h # 0 /\ rx[i].skb /\ blank' = blank
    BY <1>8 DEF NoFrame, Receiving, Received, Handed
  <2>3. Once'
    <3>1. \A k \in 1 .. n : delivered[k] # h /\ delivered[k] <= arrived
      BY <1>2, <2>2 DEF Receiving, Received, Once, NoFrame
    <3>2. \A j \in RxIdx : j # i => rx[j].held # h
      BY <1>2, <2>2 DEF Receiving, Received, Once, NoFrame
    <3>3. \A k \in 1 .. n + 1 : delivered'[k] <= arrived
      <4>1. delivered'[n + 1] <= arrived
        BY <1>2, <2>1
      <4>2. \A k \in 1 .. n : delivered'[k] <= arrived
        BY <2>1, <3>1
      <4> HIDE DEF n
      <4>3. QED
        BY <2>1, <4>1, <4>2
    <3>4. \A j, k \in 1 .. n + 1 : j # k => delivered'[j] # delivered'[k]
      BY <2>1, <3>1 DEF Receiving, Received, Once
    <3>5. \A j \in RxIdx : rx'[j].held <= arrived
      <4>1. \A j \in RxIdx : rx[j].held <= arrived
        BY DEF Receiving, Received, Once
      <4>2. rx'[i].held <= arrived
        BY <1>8, RxValues
      <4>3. QED
        BY <1>3, <4>1, <4>2
    <3>6. ASSUME NEW j \in RxIdx, rx'[j].held # NoFrame
          PROVE  /\ \A k \in 1 .. n + 1 : delivered'[k] # rx'[j].held
                 /\ \A m \in RxIdx : m # j => rx'[m].held # rx'[j].held
      <4>1. j # i /\ rx'[j] = rx[j]
        BY <1>3, <1>8, <3>6 DEF NoFrame
      <4>2. \A k \in 1 .. n : delivered[k] # rx[j].held
        BY <3>6, <4>1 DEF Receiving, Received, Once
      <4>3. \A m \in RxIdx : m # j => rx[m].held # rx[j].held
        BY <3>6, <4>1 DEF Receiving, Received, Once
      <4>4. \A k \in 1 .. n + 1 : delivered'[k] # rx'[j].held
        BY <2>1, <3>2, <4>1, <4>2
      <4>5. \A m \in RxIdx : m # j => rx'[m].held # rx'[j].held
        BY <1>3, <1>8, <3>6, <4>1, <4>3 DEF NoFrame
      <4>6. QED
        BY <4>4, <4>5
    <3>7. QED
      BY <1>1, <2>1, <3>3, <3>4, <3>5, <3>6 DEF Once
  <2>4. ASSUME ~stopped
        PROVE  /\ \A k \in 1 .. n + 1 : 0 < delivered'[k] /\ delivered'[k] <= f
               /\ \A k \in 1 .. n : delivered'[k] < delivered'[k + 1]
    <3>1. served < f /\ h = f
      BY <1>1, <1>2, <2>2, <2>4, RxValues DEF Receiving, Received, Pending, Fresh, NoFrame
    <3>2. /\ \A k \in 1 .. n : 0 < delivered[k] /\ delivered[k] <= served
          /\ \A k \in 1 .. n - 1 : delivered[k] < delivered[k + 1]
      BY <2>4 DEF Receiving, Received, Handed
    <3>3. \A k \in 1 .. n : delivered'[k] = delivered[k] /\ delivered'[k] < f
                            /\ 0 < delivered'[k] /\ delivered'[k] <= f
      <4>1. served \in Nat /\ f \in Nat /\ h \in Nat
        BY RxValues, <1>2
      <4> HIDE DEF n, f, h
      <4>2. TAKE k \in 1 .. n
      <4>3. delivered'[k] = delivered[k] /\ delivered[k] \in Nat /\ 0 < delivered[k]
            /\ delivered[k] <= served
        BY <1>2, <2>1, <3>2
      <4>4. QED
        BY <3>1, <4>1, <4>3
    <3>4. \A k \in 1 .. n + 1 : 0 < delivered'[k] /\ delivered'[k] <= f
      <4>1. 0 < delivered'[n + 1] /\ delivered'[n + 1] <= f
        BY <1>2, <2>1, <2>2, <3>1, RxValues
      <4> HIDE DEF n, f
      <4>2. QED
        BY <2>1, <3>3, <4>1
    <3>5. \A k \in 1 .. n : delivered'[k] < delivered'[k + 1]
      <4> SUFFICES ASSUME NEW k \in 1 .. n
                   PROVE  delivered'[k] < delivered'[k + 1]
        OBVIOUS
      <4>1. CASE k = n
        BY <1>2, <2>1, <3>1, <3>3, <4>1
      <4>2. CASE k # n
        <5>1. k \in 1 .. n - 1 /\ k + 1 \in 1 .. n
          BY <1>2, <4>2
        <5>2. QED
          BY <2>1, <3>2, <5>1
      <4>3. QED
        BY <4>1, <4>2
    <3>6. QED
      BY <3>4, <3>5
  <2>5. Handed'
    <3>1. blank \in BOOLEAN /\ (~stopped => ~blank)
      BY DEF Receiving, Received, Handed
    <3>2. (n + 1) - 1 = n
      BY <1>2
    <3>3. QED
      BY <1>1, <1>2, <2>1, <2>2, <2>4, <3>1, <3>2 DEF Handed
  <2>6. QED
    BY <1>6, <1>7, <2>3, <2>5 DEF Received
<1>9. CASE UNCHANGED delivered
           /\ (UNCHANGED blank \/ blank' = (blank \/ (rx[i].skb /\ h = NoFrame)))
  <2>1. ~stopped => UNCHANGED blank
    <3>1. ~stopped => served < f /\ (rx[i].skb => h = f \/ f = 0)
      BY <1>1, <1>2 DEF Receiving, Received, Pending, Fresh, NoFrame
    <3>2. ~stopped /\ rx[i].skb => h # 0
      BY <1>2, <3>1, RxValues
    <3>3. QED
      BY <1>9, <3>2 DEF NoFrame, Receiving, Received, Handed
  <2>2. Handed'
    <3>1. ~stopped => served < f
      BY <1>1 DEF Receiving, Received, Pending, Fresh
    <3>2. ASSUME NEW k \in 1 .. n, ~stopped, delivered[k] <= served PROVE delivered[k] <= f
      <4>1. delivered[k] \in Nat /\ served \in Nat /\ f \in Nat
        BY <1>2, RxValues
      <4> HIDE DEF n, f
      <4>2. QED
        BY <3>1, <3>2, <4>1
    <3>3. blank' \in BOOLEAN
      BY <1>9, <1>4 DEF Receiving, Received, Handed
    <3>4. ~stopped =>
            /\ ~blank
            /\ \A k \in 1 .. n : 0 < delivered[k] /\ delivered[k] <= served
            /\ \A k \in 1 .. n - 1 : delivered[k] < delivered[k + 1]
      BY DEF Receiving, Received, Handed
    <3>5. QED
      BY <1>1, <1>2, <1>9, <2>1, <3>2, <3>3, <3>4 DEF Handed
  <2>3. \A j \in RxIdx : rx'[j].held = 0 \/ rx'[j].held = rx[j].held
    BY <1>3, <1>5
  <2>4. Once'
    BY <1>1, <1>9, <2>3, RxValues, OnceKept
  <2>5. QED
    BY <1>6, <1>7, <2>2, <2>4 DEF Received
<1>10. rx'[i] = NewBuffer => rx'[i].held = 0
  BY DEF NewBuffer, NoFrame
<1> HIDE DEF up
<1>11. QED
  BY <1>3, <1>8, <1>9, <1>10

LEMMA NextReceives ==
  ASSUME Receiving, entries \in Nat, [Next]_vars
  PROVE  Received'
<1>1. ASSUME UNCHANGED <<rcvd, arrived, stopped, rx, enabled, rxDma>>, entries' = 0 \/ enabled,
             \/ UNCHANGED <<irq, rx0Done>>
             \/ enabled /\ (irq'.pc \in {"idle", "len", "clear"} => ~irq'.rx)
                 /\ (irq'.pc \in {"index", "pop"} => irq'.rx)
                 /\ (~stopped => /\ irq'.rx => irq'.mask
                                 /\ rx0Done' /\ ~irq'.rx => Fresh(LastFilled)
                                 /\ irq'.pc = "index" => Fresh(LastFilled)
                                 /\ irq'.pc = "pop" => Fresh(irq'.val))
      PROVE  Received'
  <2>1. UNCHANGED <<delivered, blank, served>>
    BY <1>1 DEF rcvd
  <2>2. (Handed /\ Once)'
    BY <1>1, <2>1 DEF Receiving, Received, Handed, Once
  <2>3. Untouched'
    BY <1>1 DEF Receiving, Received, Untouched
  <2>4. Pending'
    BY <1>1, <2>1 DEF Receiving, Received, Pending, Fresh, LastFilled
  <2>5. QED
    BY <2>2, <2>3, <2>4 DEF Received
<1>2. ~enabled => ~rx0Done /\ irq.pc = "idle" /\ entries = 0
  BY DEF Receiving, Received, Untouched
<1>3. ASSUME NEW d \in Devs, mtk_open(d) PROVE Received'
  BY <1>3, OpenReceives
<1>4. ASSUME NEW d \in Devs, mtk_stop(d) PROVE Received'
  <2>1. UNCHANGED <<rcvd, arrived, rx, enabled, rxDma, entries, irq, rx0Done>>
        /\ (stopped' \/ UNCHANGED stopped)
    BY <1>4 DEF mtk_stop, mtk_stop_dma, rxVars
  <2>2. UNCHANGED <<delivered, blank, served>>
    BY <2>1 DEF rcvd
  <2>3. QED
    BY <2>1, <2>2 DEF Receiving, Received, Handed, Once, Untouched, Pending, Fresh, LastFilled
<1>5. ASSUME IrqStatus PROVE Received'
  <2>1. /\ irq.pc = "idle" /\ (rx0Done \/ entries > 0)
        /\ UNCHANGED <<rcvd, arrived, stopped, rx, enabled, rxDma, entries, rx0Done>>
    BY <1>5 DEF IrqStatus, IrqAt, Raised, rxVars, Beside, admin
  <2>2. /\ irq'.rx = rx0Done /\ irq'.mask = rxMask
        /\ irq'.pc = IF rx0Done THEN "index" ELSE "len"
    BY <1>5 DEF IrqStatus, IdleIrq
  <2>3. enabled
    BY <1>2, <2>1
  <2>4. ~irq.rx /\ rx0Done \in BOOLEAN /\ (~stopped => rxMask)
    BY <2>1, <2>3 DEF Receiving, RxTypes, Session, RunsWhileOpen, Received, Pending
  <2>5. ~stopped /\ rx0Done => Fresh(LastFilled)
    BY <2>4 DEF Receiving, Received, Pending
  <2>6. QED
    BY <1>1, <2>1, <2>2, <2>3, <2>4, <2>5
<1>6. ASSUME rx0_done PROVE Received'
  <2>1. /\ irq.pc = "index" /\ irq.rx
        /\ UNCHANGED <<rcvd, arrived, stopped, rx, enabled, rxDma, entries, rx0Done>>
    BY <1>6 DEF rx0_done, IrqAt, rxVars, Beside, admin, Receiving, Received, Pending
  <2>2. irq'.rx = irq.rx /\ irq'.mask = irq.mask /\ irq'.pc = "pop" /\ irq'.val = LastFilled
    BY <1>6, RxValues DEF rx0_done, LastFilled
  <2>3. ~stopped => irq.mask /\ Fresh(LastFilled)
    BY <2>1 DEF Receiving, Received, Pending
  <2>4. QED
    BY <1>1, <1>2, <2>1, <2>2, <2>3
<1>7. ASSUME rx0_pop_skb PROVE Received'
  BY <1>7, PopReceives
<1>8. ASSUME QueueLength \/ tx0_recycle_if_required PROVE Received'
  <2>1. /\ irq.pc \in {"len", "clear"} /\ ~irq.rx
        /\ UNCHANGED <<rcvd, arrived, stopped, rx, enabled, rxDma, rx0Done>>
    BY <1>8 DEF QueueLength, tx0_recycle_if_required, IrqAt, rxVars, Beside, admin, Receiving,
       Received, Pending
  <2>2. irq'.rx = irq.rx /\ irq'.pc \in {"clear", "ack"}
    BY <1>8, RxValues DEF QueueLength, tx0_recycle_if_required
  <2>3. enabled
    BY <1>2, <2>1
  <2>4. ~stopped /\ rx0Done => Fresh(LastFilled)
    BY <2>1 DEF Receiving, Received, Pending
  <2>5. QED
    BY <1>1, <2>1, <2>2, <2>3, <2>4
<1>9. ASSUME Acknowledge PROVE Received'
  <2>1. /\ irq.pc = "ack" /\ rx0Done' = (rx0Done /\ ~(irq.rx /\ irq.mask))
        /\ UNCHANGED <<rcvd, arrived, stopped, rx, enabled, rxDma, entries>>
    BY <1>9 DEF Acknowledge, IrqAt, Beside, admin
  <2>2. irq'.rx = FALSE /\ irq'.pc = "idle"
    BY <1>9 DEF Acknowledge, IdleIrq
  <2>3. enabled
    BY <1>2, <2>1
  <2>4. ~stopped /\ rx0Done' => Fresh(LastFilled)
    BY <2>1 DEF Receiving, Received, Pending
  <2>5. QED
    BY <1>1, <2>1, <2>2, <2>3, <2>4
<1>10. ASSUME Arrive PROVE Received'
  BY <1>10, ArriveReceives
<1>11. ASSUME Transmit PROVE Received'
  <2>1. /\ enabled
        /\ UNCHANGED <<rcvd, arrived, stopped, rx, enabled, rxDma, irq, rx0Done>>
    BY <1>11 DEF Transmit, TxBusy, rxVars, admin
  <2>2. QED
    BY <1>1, <2>1
<1>12. ASSUME (\E c \in Cpus : mtk_start_xmit(c)) \/ UNCHANGED vars PROVE Received'
  <2>1. UNCHANGED rcvd /\ UNCHANGED rxVars /\ UNCHANGED irq /\ UNCHANGED admin
        /\ UNCHANGED entries
    BY <1>12 DEF mtk_start_xmit, Xmit, qdma_busy_wait, tx0_dscp_pkt_addr,
       tx0_free_some, FreeAhead, TxCpuIdx, Rest, vars
  <2>2. UNCHANGED <<rcvd, arrived, stopped, rx, enabled, rxDma, irq, rx0Done>>
    BY <2>1 DEF rxVars, admin
  <2>3. QED
    BY <1>1, <1>2, <2>1, <2>2
<1>13. QED
  BY <1>3, <1>4, <1>5, <1>6, <1>7, <1>8, <1>9, <1>10, <1>11, <1>12 DEF Next, mtk_handle_irq

-----------------------------------------------------------------------------
(* The invariant.                                                          *)

LEMMA NextInv ==
  ASSUME IInv, [Next]_vars
  PROVE  IInv'
<1>1. Sending /\ Placing /\ RxTypes /\ Session /\ entries \in Nat
  BY DEF IInv, Sending, Placing, Types
<1>2. RxTypes' /\ Session'
  BY <1>1, RxKept, SessionKept DEF Session
<1>3. ASSUME NEW d \in Devs, mtk_open(d) \/ mtk_stop(d) PROVE Sending'
  BY <1>1, <1>3, OpenSends, StopSends
<1>4. ASSUME NEW c \in Cpus, mtk_start_xmit(c) PROVE Sending'
  BY <1>1, <1>4, XmitSends, BusySends, MapSends, FreeSends, IndexSends DEF mtk_start_xmit
<1>5. ASSUME mtk_handle_irq PROVE Sending'
  <2>1. UNCHANGED <<tx, txCpu, txDma, lock, xmit, sends, freed, opened, opens, lost>>
    BY <1>5 DEF mtk_handle_irq, IrqStatus, rx0_done, rx0_pop_skb, QueueLength,
       tx0_recycle_if_required, Acknowledge, Beside, admin, txVars, frees
  <2>2. entries' \in 0 .. entries
    <3>1. CASE tx0_recycle_if_required
      <4>1. irq.len \in Nat
        BY <1>1 DEF RxTypes
      <4>2. QED
        BY <1>1, <3>1, <4>1 DEF tx0_recycle_if_required
    <3>2. CASE ~tx0_recycle_if_required
      BY <1>1, <1>5, <3>2 DEF mtk_handle_irq, IrqStatus, rx0_done, rx0_pop_skb, QueueLength,
         Acknowledge
    <3>3. QED
      BY <3>1, <3>2
  <2>3. QED
    BY <1>1, <2>1, <2>2, OthersSend
<1>6. ASSUME Transmit PROVE Sending'
  BY <1>1, <1>6, TransmitSends
<1>7. ASSUME Arrive \/ UNCHANGED vars PROVE Sending'
  <2>1. UNCHANGED <<tx, txCpu, txDma, lock, xmit, sends, freed, opened, opens, lost, entries>>
    BY <1>7 DEF Arrive, vars, admin, txVars, frees
  <2>2. entries' \in 0 .. entries
    BY <1>1, <2>1
  <2>3. QED
    BY <1>1, <2>1, <2>2, OthersSend
<1>8. Sending'
  BY <1>3, <1>4, <1>5, <1>6, <1>7 DEF Next
<1>9. (Spare /\ Somewhere)'
  BY <1>1, NextPlaces
<1>10. Received'
  BY <1>1, NextReceives DEF IInv, Receiving, Received
<1>11. FaultTypes'
  BY <1>1, FaultsKept DEF IInv
<1>12. QED
  BY <1>2, <1>8, <1>9, <1>10, <1>11 DEF IInv, Sending, Received

\* The inductive invariant of the driver (mtk_start_xmit, mtk_handle_irq, mtk_open, mtk_stop).
THEOREM Invariant == Spec => []IInv
<1>1. Init => IInv
  BY Start, StartPlaces, StartReceives DEF IInv, Sending, Received
<1>2. IInv /\ [Next]_vars => IInv'
  BY NextInv
<1>3. QED
  BY <1>1, <1>2, PTL DEF Spec

\* Indices stay in their rings, no counter passes its bound, and the interrupt queue never
\* holds more descriptors than there were sends, whatever the sizes (eth.c:663, eth.c:978).
THEOREM TypeInvariant == Spec => []TypeOK
<1>1. IInv => TypeOK
  <2> SUFFICES ASSUME IInv PROVE TypeOK
    OBVIOUS
  <2>1. Types /\ RxTypes /\ FaultTypes /\ Session /\ Counted /\ Handed
    BY DEF IInv
  <2>2. refcnt \in 0 .. Cardinality(Devs)
    <3>1. /\ IsFiniteSet(Devs) /\ opened \subseteq Devs /\ IsFiniteSet(opened)
          /\ Cardinality(opened) <= Cardinality(Devs)
      BY <2>1, SizeFacts, FS_Subset DEF Session
    <3>2. Cardinality(opened) \in Nat /\ Cardinality(Devs) \in Nat
      BY <3>1, FS_CardinalityType
    <3>3. QED
      BY <2>1, <3>1, <3>2 DEF Session
  <2>3. entries \in 0 .. MaxSends
    BY <2>1, SizeFacts DEF Types, Counted
  <2>4. freed \in [Skbs -> 0 .. MaxSends]
    <3>1. \A s \in Skbs : 0 .. 1 \subseteq 0 .. MaxSends
      BY SizeFacts DEF Skbs
    <3>2. QED
      BY <2>1, <3>1 DEF Types
  <2>5. QED
    BY <2>1, <2>2, <2>3, <2>4 DEF TypeOK, Types, RxTypes, FaultTypes, Session, Handed
<1>2. QED
  BY <1>1, Invariant, PTL

\* No buffer is freed twice and none before the engine has read it, although mtk_start_xmit
\* frees the next two descriptors unseen (eth.c:663); the one exception is a buffer that
\* could not be padded, which skb_padto frees once more (eth.c:748).
THEOREM NotFreedUnsentAlways == Spec => []NotFreedUnsent
<1>1. IInv => NotFreedUnsent
  <2> SUFFICES ASSUME IInv PROVE NotFreedUnsent
    OBVIOUS
  <2>1. \A s \in Skbs : freed[s] \in 0 .. 1 /\ Count(s \in unpadded) \in 0 .. 1
                        /\ (Count(s \in unpadded) = 1 <=> s \in unpadded)
    BY DEF IInv, Types, Count
  <2>2. \A s \in Skbs : TimesFreed(s) > 1 => s \in unpadded /\ freed[s] = 1
    BY <2>1 DEF TimesFreed
  <2>3. \A i \in Queued : i = txDma /\ tx[txDma].addr
    BY QueuedIs DEF IInv
  <2>4. ASSUME tx[txDma].addr
        PROVE  tx[txDma].skb # NoSkb /\ tx[txDma].skb \in Skbs /\ freed[tx[txDma].skb] = 0
    BY <2>4, SizeFacts DEF IInv, Holding, Types, NoSkb, Skbs
  <2>5. tx[txDma].addr /\ TimesFreed(tx[txDma].skb) > 0 => tx[txDma].skb \in unpadded
    BY <2>1, <2>4 DEF TimesFreed
  <2>6. QED
    BY <2>2, <2>3, <2>4, <2>5 DEF NotFreedUnsent
<1>2. QED
  BY <1>1, Invariant, PTL

\* While any device is open the engine runs and its receive interrupt is not masked, in any
\* order of opening and stopping any number of devices (eth.c:1210, eth.c:1265).
THEOREM RunsWhileOpenAlways == Spec => []RunsWhileOpen
<1>1. IInv => RunsWhileOpen
  BY DEF IInv, Session
<1>2. QED
  BY <1>1, Invariant, PTL

\* Every buffer handed to the driver in a session is in exactly one place: freed, in one
\* descriptor, or with the call that brought it.  None leaks and none is in two places, but
\* those in the ring when it is set up anew (eth.c:1117) and those that could not be padded,
\* which are in one of these places and freed on top of it (eth.c:748).
THEOREM SkbsAccountedAlways == Spec => []SkbsAccounted
<1>1. IInv => SkbsAccounted
  <2> DEFINE In(s) == {i \in TxIdx : tx[i].addr /\ tx[i].skb = s}
             With(s) == {c \in Cpus : xmit[c].skb = s /\ xmit[c].pc \in {"busy", "map"}}
  <2> SUFFICES ASSUME IInv, NEW s \in 1 .. sends, s \notin lost
               PROVE  TimesFreed(s) + Cardinality(In(s)) + Cardinality(With(s))
                        = 1 + Count(s \in unpadded)
    BY DEF SkbsAccounted
  <2>1. s \in Skbs /\ freed[s] \in 0 .. 1 /\ Count(s \in unpadded) \in Nat
        /\ TimesFreed(s) = freed[s] + Count(s \in unpadded)
    BY SizeFacts DEF IInv, Types, Skbs, Count, TimesFreed
  <2>2. In(s) # {} => (\E i \in TxIdx : In(s) = {i}) /\ freed[s] = 0 /\ With(s) = {}
    BY DEF IInv, Holding, InHand, Has
  <2>3. With(s) # {} => (\E c \in Cpus : With(s) = {c}) /\ freed[s] = 0 /\ In(s) = {}
    <3> SUFFICES ASSUME With(s) # {}
                 PROVE  (\E c \in Cpus : With(s) = {c}) /\ freed[s] = 0 /\ In(s) = {}
      OBVIOUS
    <3>1. PICK c \in Cpus : xmit[c].skb = s /\ xmit[c].pc \in {"busy", "map"}
      OBVIOUS
    <3>2. \A e \in Cpus : e # c => xmit[e].pc = "idle"
      BY <3>1 DEF IInv, Locked
    <3>3. With(s) = {c}
      BY <3>1, <3>2
    <3>4. QED
      BY <3>1, <3>3 DEF IInv, InHand, Has
  <2>4. freed[s] = 1 \/ In(s) # {} \/ With(s) # {}
    BY DEF IInv, Somewhere, Has
  <2>5. /\ Cardinality(In(s)) = IF In(s) = {} THEN 0 ELSE 1
        /\ Cardinality(With(s)) = IF With(s) = {} THEN 0 ELSE 1
    BY <2>2, <2>3, FS_EmptySet, FS_Singleton
  <2> HIDE DEF In, With
  <2>6. QED
    BY <2>1, <2>2, <2>3, <2>4, <2>5
<1>2. QED
  BY <1>1, Invariant, PTL

\* The stack never gets a frame twice, and until the last device is stopped for the first time
\* neither an empty buffer nor a frame after a later one, although the handler reads the
\* engine's index after the status and pops the descriptor before it later still, the engine
\* goes on in between, and any descriptor may have been left without a buffer (eth.c:934).
THEOREM DeliveredOnceAlways == Spec => []DeliveredOnce
<1>1. IInv => DeliveredOnce
  BY DEF IInv, Handed, Once, DeliveredOnce
<1>2. QED
  BY <1>1, Invariant, PTL
=============================================================================
