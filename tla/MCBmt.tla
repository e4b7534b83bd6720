------------------------------- MODULE MCBmt -------------------------------
(* Instances of Bmt: a chip of seven or eight blocks of two pages, a pool  *)
(* of four good blocks, index bytes of three bits.                         *)
EXTENDS Bmt, TLC

ThreeBits  == 0 .. 2
OneBad     == {{}, {1}, {5}}          (* none, a system, or a pool block   *)
CrowdedPool == {{}, {1}, {4}, {3, 4}} (* the last leaves too small a pool *)
NoBlock    == {}
AnyProgram == {"program"} \X Blocks
AnyErase   == {"erase"} \X Blocks
AnyFault   == AnyProgram \cup AnyErase
(* The tables are placed in the last block and the first of the pool, 3 or 2. *)
HomesSafe  == {"program"} \X (Blocks \ {2, 3, 6})
ProgramOrErase0 == AnyProgram \cup {<<"erase", 0>>}
Clean      == {"clean"}
CleanTorn  == {"clean", "torn"}

Symmetry   == Permutations(Values)
=============================================================================
