------------------------------- MODULE TxQueue -------------------------------
(***************************************************************************)
(* What an Ethernet driver promises of the buffers it is given to send,     *)
(* whatever its descriptors look like: they leave in the order they were    *)
(* given, none is given back before it has left, and each is given back     *)
(* once, in the same order.                                                 *)
(***************************************************************************)
EXTENDS Naturals, Sequences, SequencesExt

CONSTANT Buffers

VARIABLES
  pending,   \* given to the hardware, not sent yet
  spent      \* sent, not given back yet

vars == <<pending, spent>>

Init == pending = <<>> /\ spent = <<>>

\* A call of the driver: give back some of what was sent, then perhaps take one more.
Call ==
  \E k \in 0 .. Len(spent), new \in {<<>>} \cup {<<b>> : b \in Buffers} :
    /\ spent' = SubSeq(spent, k + 1, Len(spent))
    /\ ToSet(new) \cap (ToSet(pending) \cup ToSet(spent)) = {}
    /\ pending' = pending \o new

\* The hardware sends the oldest buffer.
Transmit ==
  /\ pending # <<>>
  /\ pending' = Tail(pending)
  /\ spent' = Append(spent, Head(pending))

Next == Call \/ Transmit

Spec == Init /\ [][Next]_vars
=============================================================================
