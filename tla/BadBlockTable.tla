--------------------------- MODULE BadBlockTable ---------------------------
(***************************************************************************)
(* create_badblock_table_by_bbt (drivers/mtd/tc3162/bmt.c): from the list  *)
(* of factory-bad blocks, the table pBbt that gives each logical block its *)
(* physical one.  The table starts as the identity; for each bad block the *)
(* loop seeks the entry that equals it and shifts that entry and all later *)
(* ones up by one.  The cursors j and k live across the outer loop.        *)
(*                                                                         *)
(* The C indices of badblock_table start at 0, those of bad at 1.          *)
(***************************************************************************)
EXTENDS BlockNumbers

CONSTANT MaxSystem   (* largest number of system blocks considered *)

ASSUME MaxSystemAssumption == MaxSystem \in Nat \ {0}

(* The bad-block lists scan_badblock_raw can build: it goes through the    *)
(* blocks 1 .. sys - 1 upwards, so a list is strictly increasing, and      *)
(* shorter than the system area.                                           *)
BadLists(size) == {s \in Seq(1 .. size - 1) : Increasing(s) /\ Len(s) < size}

(* The same lists, in a form that can be enumerated. *)
ListOf(S) == CHOOSE s \in [1 .. Cardinality(S) -> S] : Increasing(s)

VARIABLES
  sys,      (* system_block_count                                          *)
  bad,      (* init_bbt.badblock_table                                     *)
  pBbt,     (* the table under construction                                *)
  i, j, k,  (* the loop counters                                           *)
  pc        (* outer loop, search, shift, or finished                      *)

vars  == <<sys, bad, pBbt, i, j, k, pc>>
input == <<sys, bad>>

Size  == sys - Len(bad)     (* badblock_table_size *)
Slots == 0 .. Size - 1

Begin ==
  /\ pBbt = [x \in Slots |-> x]
  /\ i = 1
  /\ j = 0
  /\ k = 0
  /\ pc = "outer"

Init ==
  /\ sys \in 1 .. MaxSystem
  /\ bad \in BadLists(sys)
  /\ Begin

(* Mutation: each bad block is sought with the shift starting afresh. *)
NextBadAfresh ==
  /\ pc = "outer"
  /\ pc' = IF i <= Len(bad) THEN "seek" ELSE "done"
  /\ k' = 0
  /\ UNCHANGED <<input, pBbt, i, j>>

(* The head of the loop over the bad blocks. *)
NextBad ==
  /\ pc = "outer"
  /\ pc' = IF i <= Len(bad) THEN "seek" ELSE "done"
  /\ UNCHANGED <<input, pBbt, i, j, k>>

(* Mutation: the entry that was found is not shifted itself. *)
SeekHitPast ==
  /\ pc = "seek"
  /\ j < Size
  /\ pBbt[j] = bad[i]
  /\ k' = j + 1
  /\ pc' = "shift"
  /\ UNCHANGED <<input, pBbt, i, j>>

SeekHit ==
  /\ pc = "seek"
  /\ j < Size
  /\ pBbt[j] = bad[i]
  /\ k' = j
  /\ pc' = "shift"
  /\ UNCHANGED <<input, pBbt, i, j>>

(* Mutation: the search stays where it is. *)
SeekMissStays ==
  /\ pc = "seek"
  /\ j < Size
  /\ pBbt[j] # bad[i]
  /\ UNCHANGED <<input, pBbt, i, j, k, pc>>

SeekMiss ==
  /\ pc = "seek"
  /\ j < Size
  /\ pBbt[j] # bad[i]
  /\ j' = j + 1
  /\ UNCHANGED <<input, pBbt, i, k, pc>>

SeekEnd ==
  /\ pc = "seek"
  /\ j = Size
  /\ pc' = "shift"
  /\ UNCHANGED <<input, pBbt, i, j, k>>

(* Mutation: the shift runs one entry past the table. *)
ShiftPast ==
  /\ pc = "shift"
  /\ k <= Size
  /\ pBbt' = [pBbt EXCEPT ![k] = @ + 1]
  /\ k' = k + 1
  /\ UNCHANGED <<input, i, j, pc>>

Shift ==
  /\ pc = "shift"
  /\ k < Size
  /\ pBbt' = [pBbt EXCEPT ![k] = @ + 1]
  /\ k' = k + 1
  /\ UNCHANGED <<input, i, j, pc>>

ShiftEnd ==
  /\ pc = "shift"
  /\ k = Size
  /\ i' = i + 1
  /\ pc' = "outer"
  /\ UNCHANGED <<input, pBbt, j, k>>

Next == NextBad \/ SeekHit \/ SeekMiss \/ SeekEnd \/ Shift \/ ShiftEnd

Spec     == Init /\ [][Next]_vars
FairSpec == Spec /\ WF_vars(Next)

TypeOK ==
  /\ sys \in 1 .. MaxSystem
  /\ bad \in BadLists(sys)
  /\ pBbt \in [Slots -> Nat]
  /\ i \in 1 .. Len(bad) + 1
  /\ j \in 0 .. Size
  /\ k \in 0 .. Size
  /\ pc \in {"outer", "seek", "shift", "done"}

(* A bad-block list the loops handle: its first block is found in the      *)
(* identity table.                                                         *)
FirstFound == bad = <<>> \/ bad[1] < Size

(***************************************************************************)
(* The table is a numbering of the good blocks: when the loops are done it *)
(* is strictly increasing, stays inside the system area and names no bad   *)
(* block.  (create_badblock_table_by_bbt.)                                 *)
(***************************************************************************)
NumbersGoodBlocks ==
  /\ \A x, y \in Slots : x < y => pBbt[x] < pBbt[y]
  /\ \A x \in Slots : pBbt[x] < sys
  /\ \A x \in Slots, m \in DOMAIN bad : pBbt[x] # bad[m]

TableCorrect == pc = "done" /\ FirstFound => NumbersGoodBlocks

(* The one-expression form agrees with the loops on every bad-block list.  *)
(* (Bmt.tla uses it as the last step of the driver's set-up.)              *)
TableIsBuilt == pc = "done" => pBbt = TableBuilt(sys, bad)

(* The loops finish.  (create_badblock_table_by_bbt runs with interrupts   *)
(* off, inside the lock of spi_nand_setup.)                                *)
Finishes == <>(pc = "done")
=============================================================================
