---------------------------- MODULE BlockNumbers ----------------------------
(***************************************************************************)
(* The numbering of the system blocks that leaves out the factory-bad      *)
(* ones, as a function of the list of bad blocks.                          *)
(***************************************************************************)
EXTENDS Integers, Sequences, FiniteSets

Increasing(s) == \A x, y \in DOMAIN s : x < y => s[x] < s[y]

(***************************************************************************)
(* What the loops compute, in one expression.  When the first bad block    *)
(* lies beyond the table nothing is found for it, k still is 0, and the    *)
(* shift moves the whole table.  Otherwise logical block x is moved past   *)
(* each bad block at or before it.                                         *)
(***************************************************************************)
TableBuilt(n, s) ==
  LET size == n - Len(s) IN
  [x \in 0 .. size - 1 |->
     IF s # <<>> /\ s[1] >= size
     THEN x + 1
     ELSE x + Cardinality({m \in DOMAIN s : s[m] - m + 1 <= x})]
=============================================================================
