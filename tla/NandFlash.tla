----------------------------- MODULE NandFlash -----------------------------
(***************************************************************************)
(* The SPI-NAND chip and the one-page software cache in front of it        *)
(* (drivers/mtd/chips/spi_nand_flash.c).                                   *)
(*                                                                         *)
(* A page is its main area (one datum) and the part of its spare area the  *)
(* driver interprets: the two bad-block marks and the two bytes that name  *)
(* the block a replacement block stands for.  Programming can only clear   *)
(* bits, so those two bytes are kept as the set of their one bits and a    *)
(* program intersects them.                                                *)
(***************************************************************************)
EXTENDS Integers, Sequences

CONSTANTS
  NBlocks,   (* blocks of the chip, numbered from 0                        *)
  NPages,    (* pages of a block                                           *)
  IdxBits,   (* bit positions of the index bytes of the spare area         *)
  Values,    (* what the users of the flash write into a page              *)
  Erased,    (* the main area of an erased page                            *)
  Garbage    (* a main area programmed twice: its ECC cannot correct it    *)

ASSUME NandAssumption ==
  /\ NBlocks \in Nat \ {0}
  /\ NPages \in Nat \ {0}
  /\ Erased # Garbage
  /\ Erased \notin Values
  /\ Garbage \notin Values

Blocks == 0 .. NBlocks - 1
Pages  == 0 .. NPages - 1

(* An entry of the BMT: a replaced block and the block that stands for it. *)
Entry == [bad: Blocks, mapped: Blocks]

(* The pages the bad-block code writes; a signature tells them apart. *)
BmtPage == [bmt: Seq(Entry)]
BbtPage == [bbt: Seq(Blocks)]
Data    == Values \cup {Erased, Garbage} \cup BmtPage \cup BbtPage

ASSUME ErasedAssumption == {Erased, Garbage} \cap (BmtPage \cup BbtPage) = {}

(***************************************************************************)
(* Spare area.  raw: byte 0, written by the factory and for a system block *)
(* that went bad; later: byte 1, for a pool block that went bad.           *)
(***************************************************************************)
Oob      == [raw: BOOLEAN, later: BOOLEAN, idx: SUBSET IdxBits]
CleanOob == [raw |-> FALSE, later |-> FALSE, idx |-> IdxBits]
ZeroOob  == [raw |-> TRUE, later |-> TRUE, idx |-> {}]

AndOob(a, b) == [raw   |-> a.raw \/ b.raw,
                 later |-> a.later \/ b.later,
                 idx   |-> a.idx \cap b.idx]

(* The one bits of a block number, as stored in the index bytes. *)
Code(b) == {k \in IdxBits : (b \div (2 ^ k)) % 2 = 1}

(* 0xFFFF, what an erased page reads as, is no block number. *)
ASSUME IndexAssumption == \A b \in Blocks : Code(b) # IdxBits

SetIdx(o, b) == [o EXCEPT !.idx = Code(b)]

(* The blocks of S an index can name: at most one, none for 0xFFFF. *)
Named(idx, S) == {b \in S : Code(b) = idx}

MarkOob(kind) == [CleanOob EXCEPT ![kind] = TRUE]
MarkKinds     == {"raw", "later"}

Page   == [data: Data, oob: Oob]
Blank  == [data |-> Erased, oob |-> CleanOob]
Flash  == [Blocks -> [Pages -> Page]]

NoPage == <<>>
Cache  == [page: (Blocks \X Pages) \cup {NoPage}, data: Data, oob: Oob, map: Oob]

ColdCache == [page |-> NoPage, data |-> Garbage, oob |-> ZeroOob, map |-> ZeroOob]

(***************************************************************************)
(* spi_nand_read_page.  A page that is cached is not read again, whatever  *)
(* has happened to the flash since; a page whose ECC fails leaves the      *)
(* cache as it was, and most callers do not look at the result.            *)
(***************************************************************************)
ReadOk(f, c, b, p) == c.page = <<b, p>> \/ f[b][p].data # Garbage

Read(f, c, b, p) ==
  IF c.page = <<b, p>> \/ f[b][p].data = Garbage
  THEN c
  ELSE [page |-> <<b, p>>, data |-> f[b][p].data,
        oob |-> f[b][p].oob, map |-> f[b][p].oob]

(* SPI_NAND_Flash_Clear_Read_Cache_Data *)
ClearCache(c) == [c EXCEPT !.page = NoPage]

(* en7512_nand_check_block_bad for either kind of mark, once page 0 of the *)
(* block has been asked for: it looks at the copy of the spare area made   *)
(* when the cached page was read.                                          *)
MarkedRaw(c) == c.map.raw
MarkedBad(c) == c.map.raw \/ c.map.later

(***************************************************************************)
(* spi_nand_write_page.  The page is read into the cache first, the new    *)
(* data and spare bytes are laid over it, and the result is programmed;    *)
(* the copy of the spare area in map is not brought up to date.            *)
(***************************************************************************)
Overlay(c, d, o) == [c EXCEPT !.data = d, !.oob = AndOob(@, o)]

(* What the chip holds after programming d, o over the page pg. *)
Programmed(pg, d, o) ==
  [data |-> IF pg.data = Erased \/ pg.data = d THEN d
            ELSE IF d = Erased THEN pg.data ELSE Garbage,
   oob  |-> AndOob(pg.oob, o)]

(* Ways an operation that reports failure leaves a page. *)
FailModes == {"clean", "torn"}

AfterProgram(pg, d, o, result) ==
  CASE result = "ok"    -> Programmed(pg, d, o)
    [] result = "clean" -> pg
    [] result = "torn"  -> [data |-> Garbage, oob |-> AndOob(pg.oob, o)]

AfterErase(blk, result) ==
  CASE result = "ok"    -> [p \in Pages |-> Blank]
    [] result = "clean" -> blk
    [] result = "torn"  -> [p \in Pages |-> [blk[p] EXCEPT !.data = Garbage]]

HoldsNothing(blk) == \A p \in Pages : blk[p].data = Erased
=============================================================================
