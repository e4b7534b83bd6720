-------------------------- MODULE MCBadBlockTable --------------------------
(* Runs of BadBlockTable over every system area of at most MaxSystem       *)
(* blocks and every set of factory-bad blocks in it.                       *)
EXTENDS BadBlockTable

MCInit ==
  /\ sys \in 1 .. MaxSystem
  /\ bad \in {ListOf(S) : S \in SUBSET (1 .. sys - 1)}
  /\ Begin

MCSpec     == MCInit /\ [][Next]_vars
MCFairSpec == MCSpec /\ WF_vars(Next)
=============================================================================
