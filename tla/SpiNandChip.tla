---------------------------- MODULE SpiNandChip ----------------------------
(***************************************************************************)
(* The SPI-NAND chip as the driver talks to it: one operator for each      *)
(* spi_nand_protocol_ function of drivers/mtd/chips/spi_nand_flash.c, and  *)
(* the transfers of spi_controller.c below them.  An operator gives what   *)
(* the chip is after the transaction that ends with chip select high.      *)
(*                                                                         *)
(* A busy chip takes no command but the read of its status; it programs    *)
(* and erases only while its write latch is set and its blocks are not     *)
(* protected; programming clears bits and sets none.                       *)
(***************************************************************************)
EXTENDS Naturals, Sequences, SequencesExt

CONSTANTS
  NBlocks,        (* blocks of the chip                                    *)
  PagesPerBlock,  (* pages of a block                                      *)
  PageSize,       (* cells of the main area of a page; one more is spare   *)
  OpLenMax,       (* the longest transfer of the controller                *)
  Kinds,          (* chips the table knows: how they tell their name, are  *)
                  (* unprotected, and how many planes they have            *)
  Blank,          (* a cell after an erase                                 *)
  Mixed           (* a cell programmed to two values, or never loaded      *)

ASSUME ChipAssumption ==
  /\ NBlocks \in Nat \ {0}
  /\ PagesPerBlock \in Nat \ {0}
  /\ PageSize \in Nat \ {0}
  /\ OpLenMax \in Nat \ {0}
  /\ Kinds \subseteq [bare: BOOLEAN, gated: BOOLEAN, planes: {1, 2}]
  /\ Blank # Mixed

PageNumbers  == 0 .. NBlocks * PagesPerBlock - 1
BlockNumbers == 0 .. NBlocks - 1
BlockOf(p)   == p \div PagesPerBlock
Columns      == 1 .. PageSize + 1
Spare        == PageSize + 1
Cells        == PageNumbers \X Columns
BlankPage    == [k \in Columns |-> Blank]
JunkPage     == [k \in Columns |-> Mixed]

(* What comes from the factory: erased, protected, and yet to be named. *)
NewChip(kind) ==
  [kind |-> kind, cells |-> [p \in PageNumbers |-> BlankPage],
   reg |-> [plane \in {0, 1} |-> JunkPage],
   op |-> "idle", wel |-> FALSE, locked |-> TRUE, open |-> ~kind.gated]

OIP(c) == c.op # "idle"

(* The plane a page lies on: chips with two put odd blocks on the second.  *)
PlaneOf(c, p) == IF c.kind.planes = 2 THEN BlockOf(p) % 2 ELSE 0

(* The plane a transfer reaches, given what the driver selected. *)
Selected(c, bit) == IF c.kind.planes = 2 THEN bit ELSE 0

(* A transfer is cut into pieces the controller can do at a time. *)
InPieces(s) ==
  LET remain(i) == Len(s) - i * OpLenMax
      piece(i)  == SubSeq(s, i * OpLenMax + 1,
                     i * OpLenMax + (IF remain(i) > OpLenMax THEN OpLenMax ELSE remain(i)))
  IN [k \in 1 .. Len(s) |-> piece((k - 1) \div OpLenMax)[((k - 1) % OpLenMax) + 1]]

WriteNByte(s) == InPieces(s)
ReadNByte(s)  == InPieces(s)

(***************************************************************************)
(* Naming and unprotecting the chip.                                       *)
(***************************************************************************)
(* A chip answers one of the two forms of the request for its name. *)
ReadId(c)  == ~c.kind.bare
ReadId2(c) == c.kind.bare

(* Some chips take a new protection register only once it is opened. *)
SetStatusReg1(c) == IF OIP(c) \/ ~c.open THEN c ELSE [c EXCEPT !.locked = FALSE]
SetStatusReg2(c, open) == IF OIP(c) THEN c ELSE [c EXCEPT !.open = open]

(* The opcode sent is the one that writes a register, not the one that     *)
(* resets; without an address and a value nothing comes of it.             *)
Reset(c) == c

(***************************************************************************)
(* Reading, programming and erasing.                                       *)
(***************************************************************************)
PageRead(c, p) ==
  IF OIP(c) THEN c
  ELSE [c EXCEPT !.reg[PlaneOf(c, p)] = c.cells[p], !.op = "read"]

ReadFromCache(c, bit) ==
  ReadNByte(IF OIP(c) THEN JunkPage ELSE c.reg[Selected(c, bit)])

WriteEnable(c)  == IF OIP(c) THEN c ELSE [c EXCEPT !.wel = TRUE]
WriteDisable(c) == IF OIP(c) THEN c ELSE [c EXCEPT !.wel = FALSE]

(* A program load fills what it does not send with ones. *)
ProgramLoad(c, bit, s) ==
  LET sent == WriteNByte(s)
  IN IF OIP(c) THEN c
     ELSE [c EXCEPT !.reg[Selected(c, bit)] =
             [k \in Columns |-> IF k \in DOMAIN sent THEN sent[k] ELSE Blank]]

And(x, y) == IF x = Blank THEN y ELSE IF y \in {Blank, x} THEN x ELSE Mixed

Takes(c) == ~OIP(c) /\ c.wel /\ ~c.locked

ProgramExecute(c, p) ==
  IF ~Takes(c) THEN c
  ELSE [c EXCEPT !.cells[p] = [k \in Columns |-> And(@[k], c.reg[PlaneOf(c, p)][k])],
                 !.op = "write"]

BlockErase(c, b) ==
  IF ~Takes(c) THEN c
  ELSE [c EXCEPT !.cells = [p \in PageNumbers |->
                              IF BlockOf(p) = b THEN BlankPage ELSE @[p]],
                 !.op = "write"]

(* The chip ends what it is doing; a write takes its latch along. *)
Ready(c) == [c EXCEPT !.op = "idle", !.wel = c.wel /\ c.op # "write"]
=============================================================================
