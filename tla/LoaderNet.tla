------------------------------ MODULE LoaderNet ------------------------------
(***************************************************************************)
(* The boot loader's network code around one Ethernet MAC: the packet       *)
(* buffers, the driver, the interrupt that receives, answers and takes new  *)
(* buffers, and the main program that sends as well (HTTP answers through   *)
(* tc_tcpout).  The hardware moves on its own.  The main program can be     *)
(* interrupted between any two of its steps except between cli() and sti(); *)
(* the interrupt handler runs in steps between which only the hardware      *)
(* moves, and once it has unmasked its interrupt it can be interrupted too. *)
(***************************************************************************)
EXTENDS Naturals, Sequences, FiniteSets, SequencesExt

CONSTANTS
  NBufs, NTx, NRx, Threshold,
  MaxPkts,     \* frames qdma_bm_receive_packets takes in one interrupt
  Macs,        \* the drivers to consider: one of them is linked in
  Kinds,       \* what arrives
  MaxFrames,   \* bound: frames that arrive
  MaxSends     \* bound: frames the main program sends

R == INSTANCE MacRings
Q == INSTANCE QdmaChains

ASSUME LoaderNetAssumption ==
  /\ Macs \subseteq R!RingMacs \cup {"qdma"}
  /\ NTx \in Nat \ {0, 1} /\ NRx \in Nat \ {0, 1}
  /\ NBufs \in Nat /\ NRx <= NBufs      \* 512 buffers; set-up fills the receive ring
  /\ Threshold \in 1 .. NTx - 1
  /\ MaxFrames \in Nat /\ MaxSends \in Nat /\ MaxPkts \in Nat \ {0}

VARIABLES
  mac,       \* the driver
  pool,      \* the packet buffers
  dev,       \* its descriptors and indices
  known,     \* the other host is in the ARP cache
  ie,        \* the processor takes interrupts
  imr,       \* MAC_INT is enabled in CR_INTC_IMR
  isr,       \* the MAC has a receive interrupt to report
  handler,   \* the activations of mac_interrupt, innermost first: "ring" or "tail"
  budget,    \* what is left of MaxPkts
  job,       \* the frame the handler has: its buffer, the one to replace it, what it is
  out,       \* the handler's answer, after it the ARP request sent in its place
  pc, cand, held,   \* the main program: where it is, the buffer alloc_skb looks at, its buffers
  frames, sends     \* how many came and went

main == <<pc, cand, held, sends>>
vars == <<mac, pool, dev, known, ie, imr, isr, handler, budget, job, out, main, frames>>

NoJob == [skb |-> R!NoBuf, new |-> R!NoBuf, kind |-> "none"]

IsQdma == mac = "qdma"

Init ==
  /\ mac \in Macs
  /\ pool = IF IsQdma THEN Q!ChainPool ELSE R!RingPool
  /\ dev = IF IsQdma THEN Q!ChainInit ELSE R!RingInit(mac)
  /\ known = FALSE
  /\ ie = TRUE /\ imr = TRUE /\ isr = FALSE /\ handler = <<>> /\ budget = 0
  /\ job = NoJob /\ out = <<>>
  /\ pc = "idle" /\ cand = 0 /\ held = <<>>
  /\ frames = 0 /\ sends = 0

(***************************************************************************)
(* tc3162_eth_send in its two halves: give back what was sent, then queue   *)
(* the frame or drop it.                                                    *)
(***************************************************************************)
Reclaim ==
  /\ dev' = IF IsQdma THEN Q!ChainReclaim(dev) ELSE R!macTxRingProc(mac, dev)
  /\ pool' = [pool EXCEPT !.used = @ \ IF IsQdma THEN Q!ChainFreed(dev)
                                       ELSE R!RingFreed(mac, dev)]

Blocked == IF IsQdma THEN Q!ChainBlocked(dev) ELSE R!TxBlocked(mac, dev)

\* Mutation: a frame for which there is no descriptor is not freed.
PostLeaks(b, done) ==
  IF Blocked
  THEN /\ pool' = [pool EXCEPT !.used = @ \ done]
       /\ UNCHANGED dev
  ELSE /\ dev' = IF IsQdma THEN Q!ChainPost(dev, b) ELSE R!RingPost(mac, dev, b)
       /\ pool' = [pool EXCEPT !.used = @ \ done]

\* Queue buffer b; the buffers in `done' are freed with it.
Post(b, done) ==
  IF Blocked
  THEN /\ pool' = [pool EXCEPT !.used = @ \ (done \cup {b})]
       /\ UNCHANGED dev
  ELSE /\ dev' = IF IsQdma THEN Q!ChainPost(dev, b) ELSE R!RingPost(mac, dev, b)
       /\ pool' = [pool EXCEPT !.used = @ \ done]

(***************************************************************************)
(* mac_interrupt.  Taking an interrupt turns interrupts off, returning      *)
(* turns them on; in between it is eth_send that turns them on.             *)
(***************************************************************************)
InHandler == handler # <<>>
On(l) == InHandler /\ Head(handler) = l
Then(l) == handler' = <<l>> \o Tail(handler)

\* Mutation: the handler does not mask its interrupt.
InterruptUnmasked ==
  /\ isr /\ imr /\ ie
  /\ ie' = FALSE
  /\ isr' = FALSE
  /\ handler' = <<"ring">> \o handler
  /\ budget' = MaxPkts
  /\ UNCHANGED <<mac, pool, dev, known, imr, job, out, main, frames>>

mac_interrupt ==
  /\ isr /\ imr /\ ie
  /\ imr' = FALSE
  /\ ie' = FALSE
  /\ isr' = FALSE
  /\ handler' = <<"ring">> \o handler
  /\ budget' = MaxPkts
  /\ UNCHANGED <<mac, pool, dev, known, job, out, main, frames>>

RxReady == IF IsQdma THEN Q!ChainRxReady(dev) /\ budget > 0 ELSE R!RingRxReady(dev)
Frame == IF IsQdma THEN Q!ChainFrame(dev) ELSE R!RingFrame(dev)

\* The loop takes a frame out of its descriptor and gets the buffer to put there.
Take ==
  /\ On("ring") /\ RxReady
  /\ IsQdma \/ ~R!Rejected(mac, Frame.frame)
  /\ R!CanAlloc(pool, 1)
  /\ job' = [skb |-> Frame.skb, new |-> R!Found(pool), kind |-> Frame.frame]
  /\ pool' = R!Alloc(pool)
  /\ dev' = IF IsQdma THEN Q!ChainTake(dev) ELSE R!RingTake(dev)
  /\ budget' = IF IsQdma THEN budget - 1 ELSE budget
  /\ Then("rcv")
  /\ UNCHANGED <<mac, known, ie, imr, isr, out, main, frames>>

\* A frame with an error stays where it is.
Discard ==
  /\ On("ring") /\ RxReady
  /\ ~IsQdma /\ R!Rejected(mac, Frame.frame)
  /\ dev' = R!RingRepost(mac, dev, Frame.skb)
  /\ UNCHANGED <<mac, pool, known, ie, imr, isr, handler, budget, job, out, main, frames>>

(***************************************************************************)
(* eth_rcv: an ARP request is answered and its sender remembered; a TFTP    *)
(* packet is answered if its sender is known, and otherwise ip_send gives   *)
(* the answer up for an ARP request, freeing it after the request is sent.  *)
(***************************************************************************)
Answers(n) ==
  /\ R!CanAlloc(pool, n)
  /\ LET first == R!Found(pool) IN
       /\ out' = IF n = 1 THEN <<first>> ELSE <<first, R!Found(R!Alloc(pool))>>
       /\ pool' = IF n = 1 THEN R!Alloc(pool) ELSE R!Alloc(R!Alloc(pool))
  /\ Then("reclaim")

eth_rcv ==
  /\ On("rcv")
  /\ \/ job.kind = "arp" /\ Answers(1) /\ known' = TRUE
     \/ job.kind = "tftp" /\ Answers(IF known THEN 1 ELSE 2) /\ UNCHANGED known
     \/ job.kind \notin {"arp", "tftp"} /\ Then("repost") /\ UNCHANGED <<pool, out, known>>
  /\ UNCHANGED <<mac, dev, ie, imr, isr, budget, job, main, frames>>

\* eth_send: cli() first, sti() last, whatever the state was before.
AnswerCli ==
  /\ On("reclaim")
  /\ Reclaim
  /\ ie' = FALSE
  /\ Then("post")
  /\ UNCHANGED <<mac, known, imr, isr, budget, job, out, main, frames>>

AnswerSti ==
  /\ On("post")
  /\ Post(Last(out), ToSet(Front(out)))
  /\ out' = <<>>
  /\ ie' = TRUE
  /\ Then("repost")
  /\ UNCHANGED <<mac, known, imr, isr, budget, job, main, frames>>

\* The end of eth_rcv frees the frame; the new buffer goes to the descriptor.
Repost ==
  /\ On("repost")
  /\ pool' = R!Free(pool, job.skb)
  /\ dev' = IF IsQdma THEN Q!qdma_bm_hook_receive_buffer(dev, job.new)
            ELSE R!RingRepost(mac, dev, job.new)
  /\ job' = NoJob
  /\ Then("ring")
  /\ UNCHANGED <<mac, known, ie, imr, isr, budget, out, main, frames>>

\* The loop ends; a frame that arrives from here on is for the next interrupt.
LoopEnds ==
  /\ On("ring") /\ ~RxReady
  /\ Then("unmask")
  /\ UNCHANGED <<mac, pool, dev, known, ie, imr, isr, budget, job, out, main, frames>>

\* Mutation: the status is cleared after the ring was read.
UnmaskClears ==
  /\ On("unmask")
  /\ imr' = TRUE /\ isr' = FALSE
  /\ Then("tail")
  /\ UNCHANGED <<mac, pool, dev, known, ie, budget, job, out, main, frames>>

Unmask ==
  /\ On("unmask")
  /\ imr' = TRUE
  /\ Then("tail")
  /\ UNCHANGED <<mac, pool, dev, known, ie, isr, budget, job, out, main, frames>>

Return ==
  /\ On("tail")
  /\ dev' = IF IsQdma THEN dev ELSE R!RxPollDemand(mac, dev)
  /\ handler' = Tail(handler)
  /\ ie' = TRUE
  /\ UNCHANGED <<mac, pool, known, imr, isr, budget, job, out, main, frames>>

(***************************************************************************)
(* The main program: alloc_skb in the steps of its loop, then ip_send,      *)
(* which may need a second buffer for an ARP request and then drops the     *)
(* first, and eth_send.                                                     *)
(***************************************************************************)
At(l) == pc = l /\ ~InHandler
Goto(l) == pc' = l

Start ==
  /\ At("idle") /\ sends < MaxSends
  /\ Goto("pick")
  /\ sends' = sends + 1
  /\ UNCHANGED <<mac, pool, dev, known, ie, imr, isr, handler, budget, job, out, cand, held, frames>>

Pick ==
  /\ At("pick")
  /\ cand' = pool.cur
  /\ Goto("advance")
  /\ UNCHANGED <<mac, pool, dev, known, ie, imr, isr, handler, budget, job, out, held, frames, sends>>

Advance ==
  /\ At("advance")
  /\ pool' = [pool EXCEPT !.cur = R!NextBuf(@)]
  /\ Goto("test")
  /\ UNCHANGED <<mac, dev, known, ie, imr, isr, handler, budget, job, out, cand, held, frames, sends>>

Test ==
  /\ At("test")
  /\ Goto(IF cand \in pool.used THEN "pick" ELSE "claim")
  /\ UNCHANGED <<mac, pool, dev, known, ie, imr, isr, handler, budget, job, out, cand, held, frames, sends>>

Claim ==
  /\ At("claim")
  /\ pool' = [pool EXCEPT !.used = @ \cup {cand}]
  /\ held' = Append(held, cand)
  /\ Goto(IF held = <<>> THEN "lookup" ELSE "cli")
  /\ UNCHANGED <<mac, dev, known, ie, imr, isr, handler, budget, job, out, cand, frames, sends>>

\* arp_get_eth_addr: a miss sends a request first.
Lookup ==
  /\ At("lookup")
  /\ Goto(IF known THEN "cli" ELSE "pick")
  /\ UNCHANGED <<mac, pool, dev, known, ie, imr, isr, handler, budget, job, out, cand, held, frames, sends>>

Cli ==
  /\ At("cli")
  /\ Reclaim
  /\ ie' = FALSE
  /\ Goto("post")
  /\ UNCHANGED <<mac, known, imr, isr, handler, budget, job, out, cand, held, frames, sends>>

PostSti ==
  /\ At("post")
  /\ Post(Last(held), {})
  /\ ie' = TRUE
  /\ held' = Front(held)
  /\ Goto(IF Len(held) = 1 THEN "idle" ELSE "drop")
  /\ UNCHANGED <<mac, known, imr, isr, handler, budget, job, out, cand, frames, sends>>

\* ip_send after a miss: free_skb.
Drop ==
  /\ At("drop")
  /\ pool' = R!Free(pool, held[1])
  /\ held' = <<>>
  /\ Goto("idle")
  /\ UNCHANGED <<mac, dev, known, ie, imr, isr, handler, budget, job, out, cand, frames, sends>>

Main == Start \/ Pick \/ Advance \/ Test \/ Claim \/ Lookup \/ Cli \/ PostSti \/ Drop
Handler == Take \/ Discard \/ eth_rcv \/ AnswerCli \/ AnswerSti \/ Repost \/ LoopEnds \/ Unmask \/ Return

(***************************************************************************)
(* The hardware.                                                            *)
(***************************************************************************)
Software == <<mac, pool, known, ie, imr, handler, budget, job, out, main>>

Transmit ==
  /\ IF IsQdma THEN Q!ChainTxMay(dev) ELSE R!TxMay(mac, dev)
  /\ dev' = IF IsQdma THEN Q!ChainTransmit(dev) ELSE R!RingTransmit(dev)
  /\ UNCHANGED <<Software, isr, frames>>

TransmitSleeps ==
  /\ ~IsQdma /\ R!TxSleeps(mac, dev)
  /\ dev' = [dev EXCEPT !.txDoor = 0]
  /\ UNCHANGED <<Software, isr, frames>>

\* The QDMA's interrupt-queue entry becomes readable after it is counted.
EntryWritten ==
  /\ IsQdma /\ Q!IrqLate(dev)
  /\ dev' = Q!IrqWrite(dev)
  /\ UNCHANGED <<Software, isr, frames>>

\* A frame arrives: it fills a descriptor or is lost.  The QDMA also reports a loss.
Arrive ==
  /\ frames < MaxFrames
  /\ frames' = frames + 1
  /\ \E kind \in Kinds :
       /\ dev' = IF IsQdma THEN Q!ChainArrive(dev, kind) ELSE R!RingArrive(mac, dev, kind)
       /\ isr' = (isr \/ IsQdma \/ R!RxMay(mac, dev))
  /\ UNCHANGED Software

Hardware == Transmit \/ TransmitSleeps \/ EntryWritten \/ Arrive

Next == Main \/ mac_interrupt \/ Handler \/ Hardware

Spec == Init /\ [][Next]_vars

(***************************************************************************)
(* The processor runs, the hardware sends what it was given and finishes    *)
(* its memory writes.  Nobody promises that frames arrive.                  *)
(***************************************************************************)
Fairness ==
  /\ WF_vars(Main)
  /\ WF_vars(mac_interrupt)
  /\ WF_vars(Handler)
  /\ WF_vars(Transmit)
  /\ WF_vars(EntryWritten)

FairSpec == Spec /\ Fairness

-----------------------------------------------------------------------------
HandlerLabels == {"ring", "rcv", "reclaim", "post", "repost", "unmask", "tail"}
MainLabels == {"idle", "pick", "advance", "test", "claim", "lookup", "cli", "post", "drop"}

\* The shape of the state: buffers, masks, activations and the place of the main program.
TypeOK ==
  /\ mac \in Macs
  /\ pool \in R!Pools
  /\ known \in BOOLEAN /\ ie \in BOOLEAN /\ imr \in BOOLEAN /\ isr \in BOOLEAN
  /\ handler \in Seq(HandlerLabels)
  /\ budget \in 0 .. MaxPkts
  /\ job.skb \in R!Bufs \cup {R!NoBuf} /\ job.new \in R!Bufs \cup {R!NoBuf}
  /\ out \in Seq(R!Bufs) /\ Len(out) <= 2
  /\ pc \in MainLabels
  /\ cand \in R!Bufs
  /\ held \in Seq(R!Bufs) /\ Len(held) <= 2
  /\ frames \in 0 .. MaxFrames /\ sends \in 0 .. MaxSends

\* The buffers in the descriptors.
Holds == IF IsQdma THEN Q!ChainHolds(dev) ELSE R!RingHolds(dev)

(***************************************************************************)
(* Every buffer marked used is in exactly one place, and what is in a       *)
(* place is marked used: no path of send, receive, reclaim or drop leaks a  *)
(* buffer or gives one to two owners, although alloc_skb and free_skb take  *)
(* no lock against the interrupt (skbuff.c).                                *)
(***************************************************************************)
BuffersAccounted ==
  LET at    == Holds
      code  == held \o out \o IF job = NoJob THEN <<>> ELSE <<job.skb, job.new>>
      inDev == Range(at)
  IN  /\ IsInjective(at)
      /\ IsInjective(code)
      /\ inDev \cap ToSet(code) = {}
      /\ pool.used = inDev \cup ToSet(code)

\* The counters and indices of the driver and those of the hardware describe the same ring:
\* nothing is left behind a wrap, and no descriptor is reachable that was not handed over.
IndicesAgree == IF IsQdma THEN Q!ChainsAgree(dev) ELSE R!RingIndicesAgree(mac, dev)

\* The receive loop of mac_interrupt never runs inside itself, although eth_send turns the
\* processor's interrupts on in the middle of it (eth.c).
NotReentered == Cardinality({i \in DOMAIN handler : handler[i] # "tail"}) <= 1

\* What was given to the hardware leaves in order and is given back once, after it has left.
Order == INSTANCE TxQueue WITH
  Buffers <- R!Bufs,
  pending <- IF IsQdma THEN Q!ChainPending(dev) ELSE R!RingPending(dev),
  spent   <- IF IsQdma THEN Q!ChainSpent(dev) ELSE R!RingSpent(dev)
SendsInOrder == Order!Spec

\* A frame the hardware has put into a buffer is taken out of it: no interrupt is lost
\* between the last look at the ring and the end of the handler.
Waiting == IF IsQdma THEN Q!ChainRxReady(dev) ELSE R!RingRxReady(dev)
ReceivedIsServed == Waiting ~> ~Waiting

(***************************************************************************)
(* A frame given to the hardware is sent, whatever the driver and however   *)
(* the ring wraps; but femac.c fills its ring up to the last descriptor     *)
(* (femac.c:1032), and then the index it gives the hardware is the one the  *)
(* hardware stands at, which says that there is nothing to send.            *)
(***************************************************************************)
Unsent == IF IsQdma THEN Q!ChainTxMay(dev) ELSE \E i \in R!TxSlots : dev.tx[i].own
FilledUp == mac = "femac" /\ \A i \in R!TxSlots : dev.tx[i].own
GivenIsSent == Unsent ~> (~Unsent \/ FilledUp)
=============================================================================
