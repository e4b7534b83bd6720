-------------------------------- MODULE Bmt --------------------------------
(***************************************************************************)
(* Bad-block management of the NAND flash: drivers/mtd/tc3162/bmt.c, with  *)
(* the set-up, write and erase paths of drivers/mtd/chips/spi_nand_flash.c *)
(* that call it.                                                           *)
(*                                                                         *)
(*    0 .. sys-1     system blocks; factory-bad ones are left out by pBbt  *)
(*    sys .. NBlocks-1  replace pool: the BMT, the BBT, and replacements   *)
(*                                                                         *)
(* The driver runs under one spinlock, so the only thing that comes        *)
(* between two of its steps is the loss of power.  A step is therefore a   *)
(* loop iteration, or what lies between two flash operations; each step    *)
(* changes the flash at most once.  pc names the place in the code.        *)
(***************************************************************************)
EXTENDS NandFlash, BlockNumbers

CONSTANTS
  NeedValid,    (* need_valid_block_num: good blocks the pool must hold    *)
  MaxPool,      (* maximum_bmt_block_count                                 *)
  FactoryBad,   (* the sets of factory-bad blocks the chip may come with   *)
  Worn,         (* blocks on which every program and erase fails           *)
  Faults,       (* what may fail: pairs of "program" or "erase" and a block *)
  Modes,        (* what a failed operation leaves behind                   *)
  MaxFails,     (* bound: failures of flash operations                     *)
  MaxCrashes,   (* bound: losses of power                                  *)
  MaxOps,       (* bound: requests of the users                            *)
  Unknown       (* contents nothing is promised about                      *)

ASSUME BmtAssumption ==
  /\ NeedValid \in Nat \ {0}
  /\ MaxPool \in 1 .. NBlocks - 1
  /\ FactoryBad \subseteq SUBSET (Blocks \ {0})
  /\ Worn \subseteq Blocks
  /\ Faults \subseteq {"program", "erase"} \X Blocks
  /\ Modes \subseteq FailModes
  /\ MaxFails \in Nat /\ MaxCrashes \in Nat /\ MaxOps \in Nat
  /\ Unknown \notin Values \cup {Erased}

VARIABLES
  flash,        (* the chip: all that survives a loss of power             *)
  cache,        (* _current_page_num and the _current_cache_page buffers   *)
  sys,          (* system_block_count                                      *)
  bmt,          (* bmt.table up to mapped_count                            *)
  bmtAt,        (* bmt_block_index, 0 if there is none                     *)
  bbt,          (* init_bbt.badblock_table up to badblock_count            *)
  bbtAt,        (* bbt_block_index, 0 if there is none                     *)
  pBbt,         (* the logical-to-physical table built from bbt            *)
  poolErased,   (* pool_erased                                             *)
  needBmt,      (* need_write_bmt_to_nand                                  *)
  needBbt,      (* need_write_bbt_to_nand                                  *)
  buf,          (* dat_buf and oob_buf                                     *)
  pc, i, n,     (* place in the code, loop counters                        *)
  find,         (* how find_available_block was called, and by whom        *)
  found,        (* what it returned                                        *)
  mark,         (* the bad-block mark to be written, and what follows      *)
  req,          (* the request being served                                *)
  ack,          (* history: the contents the users have been promised      *)
  fails, crashes, ops

device  == <<flash, cache>>
tables  == <<bmt, bmtAt, bbt, bbtAt>>
layout  == <<sys, pBbt, poolErased, needBmt, needBbt>>
control == <<i, n, find, found, mark>>
history == <<req, ack, ops, crashes>>
vars    == <<device, tables, layout, buf, pc, control, history, fails>>

None == [op |-> "boot", log |-> 0, phys |-> 0, blk |-> 0, page |-> 0,
         data |-> Erased, oob |-> CleanOob]

(***************************************************************************)
(* Mappings.                                                               *)
(***************************************************************************)
Pool == sys .. NBlocks - 1

MappedTo(b) == {m \in DOMAIN bmt : bmt[m].mapped = b}
Mapped(b)   == MappedTo(b) # {}                   (* is_block_mapped(b) >= 0 *)

First(S) == CHOOSE x \in S : \A y \in S : x <= y

(* get_mapping_block_index_by_bmt: the first entry decides. *)
ByBmt(b) ==
  LET hits == {m \in DOMAIN bmt : bmt[m].bad = b} IN
  IF hits = {} THEN b ELSE bmt[First(hits)].mapped

LogicalCount == sys - Len(bbt)                    (* nand_logic_size, in blocks *)
Logical      == 0 .. LogicalCount - 1

(* get_mapping_block_index *)
Physical(l) == ByBmt(pBbt[l])

(* valid_bmt_data; the signature and the checksum say it is a table. *)
ValidBmt(d) ==
  /\ d \in BmtPage
  /\ \A m \in DOMAIN d.bmt : d.bmt[m].mapped \in Pool

ValidBbt(d) ==
  /\ d \in BbtPage
  /\ \A m \in DOMAIN d.bbt : d.bbt[m] < sys

(***************************************************************************)
(* Flash operations as parts of a step.                                    *)
(***************************************************************************)
Results(kind, b) ==
  IF b \in Worn THEN {"clean"}
  ELSE {"ok"} \cup (IF <<kind, b>> \in Faults /\ fails < MaxFails THEN Modes ELSE {})

CountFail(b, r) == fails' = IF r = "ok" \/ b \in Worn THEN fails ELSE fails + 1

Load(b, p) == cache' = Read(flash, cache, b, p)

Write(b, p, d, o, r) ==
  LET c == Overlay(Read(flash, cache, b, p), d, o) IN
  /\ cache' = c
  /\ flash' = [flash EXCEPT ![b][p] = AfterProgram(@, c.data, c.oob, r)]
  /\ CountFail(b, r)

Erase(b, r) ==
  /\ flash' = [flash EXCEPT ![b] = AfterErase(@, r)]
  /\ CountFail(b, r)

(* Write the mark of kind to page p of block b, then go on at label then.  *)
MarkThen(b, p, kind, then) ==
  /\ mark' = [blk |-> b, page |-> p, kind |-> kind, then |-> then]
  /\ pc' = "mark"

(* mark_block_bad_bmt: its callers do not look at the result. *)
Mark ==
  /\ pc = "mark"
  /\ \E r \in Results("program", mark.blk) :
       Write(mark.blk, mark.page, Read(flash, cache, mark.blk, mark.page).data,
             MarkOob(mark.kind), r)
  /\ pc' = mark.then
  /\ UNCHANGED <<tables, layout, buf, control, history>>

(***************************************************************************)
(* Set-up: spi_nand_setup from calc_bmt_pool_size on.                      *)
(***************************************************************************)

(* calc_bmt_pool_size counts good blocks from the end of the chip, by the  *)
(* factory mark alone; the pool starts where it has counted enough.        *)
CalcPool ==
  /\ pc = "pool"
  /\ Load(i, 0)
  /\ n' = IF MarkedRaw(cache') THEN n ELSE n + 1
  /\ LET enough == ~MarkedRaw(cache') /\ n' = NeedValid
         last   == IF enough THEN i ELSE i - 1
     IN IF enough \/ last = 0
        THEN /\ sys' = last
             /\ pc' = IF NBlocks - last > MaxPool THEN "dead" ELSE "loadBmt"
             /\ i' = NBlocks - 1
        ELSE i' = last /\ UNCHANGED <<sys, pc>>
  /\ UNCHANGED <<flash, tables, pBbt, poolErased, needBmt, needBbt, buf,
                 find, found, mark, history, fails>>

(* nand_read_page_bmt into dat_buf and oob_buf; left alone when ECC fails. *)
FillBuf(b) ==
  buf' = IF ReadOk(flash, cache, b, 0)
         THEN [data |-> cache'.data, oob |-> cache'.map] ELSE buf

(* load_bmt_data: from the end of the pool, the first block with a table.  *)
LoadBmt ==
  /\ pc = "loadBmt"
  /\ i >= sys
  /\ Load(i, 0)
  /\ IF MarkedBad(cache') THEN UNCHANGED buf ELSE FillBuf(i)
  /\ IF ~MarkedBad(cache') /\ ReadOk(flash, cache, i, 0) /\ ValidBmt(cache'.data)
     THEN /\ bmt' = cache'.data.bmt
          /\ bmtAt' = i
          /\ i' = 1
          /\ pc' = "checkRaw"
     ELSE i' = i - 1 /\ UNCHANGED <<bmt, bmtAt, pc>>
  /\ UNCHANGED <<flash, bbt, bbtAt, layout, n, find, found, mark, history, fails>>

LoadBmtFails ==
  /\ pc = "loadBmt"
  /\ i < sys
  /\ needBmt' = TRUE
  /\ i' = sys
  /\ pc' = "reconstruct"
  /\ UNCHANGED <<device, tables, sys, pBbt, poolErased, needBbt, buf,
                 n, find, found, mark, history, fails>>

(* "block %d is not mark bad, should be power lost last time" *)
CheckRaw ==
  /\ pc = "checkRaw"
  /\ IF i <= Len(bmt)
     THEN /\ Load(bmt[i].bad, 0)
          /\ i' = i + 1
          /\ IF MarkedRaw(cache') THEN UNCHANGED <<pc, mark>>
             ELSE MarkThen(bmt[i].bad, 0, "raw", "checkRaw")
     ELSE i' = sys /\ pc' = "loadBbt" /\ UNCHANGED <<cache, mark>>
  /\ UNCHANGED <<flash, tables, layout, buf, n, find, found, history, fails>>

(* reconstruct_bmt: a good pool block whose spare area names a system      *)
(* block becomes its replacement.  The result of the read is not looked at *)
(* and oob_buf is used whatever it holds.                                  *)
Reconstruct ==
  /\ pc = "reconstruct"
  /\ i < NBlocks
  /\ LET c == Read(flash, cache, i, 0) IN
     IF MarkedBad(c)
     THEN cache' = c /\ UNCHANGED <<bmt, buf, pc, mark>>
     ELSE LET ok    == ReadOk(flash, cache, i, 0)
              b2    == IF ok THEN [data |-> c.data, oob |-> c.map] ELSE buf
              named == Named(b2.oob.idx, 0 .. sys - 1)
          IN /\ buf' = b2
             /\ \/ /\ named = {}
                   /\ cache' = c
                   /\ UNCHANGED <<bmt, pc, mark>>
                \/ \E b \in named :
                     /\ cache' = Read(flash, c, b, 0)
                     /\ bmt' = Append(bmt, [bad |-> b, mapped |-> i])
                     /\ IF MarkedRaw(cache') THEN UNCHANGED <<pc, mark>>
                        ELSE MarkThen(b, 0, "raw", "reconstruct")
  /\ i' = i + 1
  /\ UNCHANGED <<flash, bmtAt, bbt, bbtAt, layout, n, find, found, history, fails>>

ReconstructDone ==
  /\ pc = "reconstruct"
  /\ i = NBlocks
  /\ i' = sys
  /\ pc' = "loadBbt"
  /\ UNCHANGED <<device, tables, layout, buf, n, find, found, mark, history, fails>>

(* load_bbt_data: from the start of the pool. *)
LoadBbt ==
  /\ pc = "loadBbt"
  /\ i < NBlocks
  /\ Load(i, 0)
  /\ IF MarkedBad(cache') THEN UNCHANGED buf ELSE FillBuf(i)
  /\ IF ~MarkedBad(cache') /\ ReadOk(flash, cache, i, 0) /\ ValidBbt(cache'.data)
     THEN bbt' = cache'.data.bbt /\ bbtAt' = i /\ pc' = "save" /\ UNCHANGED i
     ELSE i' = i + 1 /\ UNCHANGED <<bbt, bbtAt, pc>>
  /\ UNCHANGED <<flash, bmt, bmtAt, layout, n, find, found, mark, history, fails>>

LoadBbtFails ==
  /\ pc = "loadBbt"
  /\ i = NBlocks
  /\ needBbt' = TRUE
  /\ i' = 1
  /\ pc' = "scanRaw"
  /\ UNCHANGED <<device, tables, sys, pBbt, poolErased, needBmt, buf,
                 n, find, found, mark, history, fails>>

(* scan_badblock_raw: marked system blocks the BMT does not account for.   *)
ScanRaw ==
  /\ pc = "scanRaw"
  /\ i < sys
  /\ Load(i, 0)
  /\ bbt' = IF MarkedRaw(cache') /\ \A m \in DOMAIN bmt : bmt[m].bad # i
            THEN Append(bbt, i) ELSE bbt
  /\ i' = i + 1
  /\ UNCHANGED <<flash, bmt, bmtAt, bbtAt, layout, buf, pc, n, find, found,
                 mark, history, fails>>

ScanRawDone ==
  /\ pc = "scanRaw"
  /\ i >= sys
  /\ pc' = "save"
  /\ UNCHANGED <<device, tables, layout, buf, control, history, fails>>

(* write_bbt_or_bmt_to_flash, then create_badblock_table_by_bbt. *)
Save ==
  /\ pc = "save"
  /\ IF needBmt
     THEN buf' = [data |-> [bmt |-> bmt], oob |-> CleanOob] /\ pc' = "writeBmt"
     ELSE pc' = "saveBbt" /\ UNCHANGED buf
  /\ UNCHANGED <<device, tables, layout, control, history, fails>>

BuildTable ==
  /\ pc = "build"
  /\ pBbt' = TableBuilt(sys, bbt)
  /\ pc' = "ready"
  /\ UNCHANGED <<device, tables, sys, poolErased, needBmt, needBbt, buf,
                 control, history, fails>>

(***************************************************************************)
(* find_available_block.  The caller goes on at label then with the block  *)
(* in found, 0 if there is none, and i at 0.                               *)
(***************************************************************************)
Start(fromEnd) == IF fromEnd THEN NBlocks - 1 ELSE sys

FindThen(fromEnd, then) ==
  /\ find' = [fromEnd |-> fromEnd, then |-> then]
  /\ IF poolErased THEN pc' = "scan" /\ i' = Start(fromEnd)
                   ELSE pc' = "erasePool" /\ i' = sys

(* Mutation: the block that holds the BBT is not passed over. *)
HoldsBmtOnly(b) == b = bmtAt

(* Mutation: a block that already stands for another is not passed over. *)
UnusableIfMarked(c, b) == MarkedBad(c)

(* A block is passed over before or after its spare area has been read. *)
Holds(b)         == b = bmtAt \/ b = bbtAt
Unusable(c, b)   == MarkedBad(c) \/ Mapped(b)

(* The first call after set-up erases every pool block not in use. *)
ErasePool ==
  /\ pc = "erasePool"
  /\ i < NBlocks
  /\ i' = i + 1
  /\ IF Holds(i)
     THEN UNCHANGED <<device, pc, mark, fails>>
     ELSE /\ Load(i, 0)
          /\ IF Unusable(cache', i)
             THEN UNCHANGED <<flash, pc, mark, fails>>
             ELSE \E r \in Results("erase", i) :
                    /\ Erase(i, r)
                    /\ IF r = "ok" THEN UNCHANGED <<pc, mark>>
                       ELSE MarkThen(i, 0, "later", "erasePool")
  /\ UNCHANGED <<tables, layout, buf, n, find, found, history>>

ErasePoolDone ==
  /\ pc = "erasePool"
  /\ i = NBlocks
  /\ poolErased' = TRUE
  /\ i' = Start(find.fromEnd)
  /\ pc' = "scan"
  /\ UNCHANGED <<device, tables, sys, pBbt, needBmt, needBbt, buf,
                 n, find, found, mark, history, fails>>

Scan ==
  /\ pc = "scan"
  /\ i \in Pool
  /\ IF Holds(i) THEN UNCHANGED cache ELSE Load(i, 0)
  /\ IF Holds(i) \/ Unusable(cache', i)
     THEN /\ i' = IF find.fromEnd THEN i - 1 ELSE i + 1
          /\ UNCHANGED <<found, pc>>
     ELSE found' = i /\ i' = 0 /\ pc' = find.then
  /\ UNCHANGED <<flash, tables, layout, buf, n, find, mark, history, fails>>

(* Mutation: with no block free the search starts again. *)
ScanAgain ==
  /\ pc = "scan"
  /\ i \notin Pool
  /\ i' = Start(find.fromEnd)
  /\ UNCHANGED <<device, tables, layout, buf, pc, n, find, found, mark, history, fails>>

ScanFails ==
  /\ pc = "scan"
  /\ i \notin Pool
  /\ found' = 0
  /\ i' = 0
  /\ pc' = find.then
  /\ UNCHANGED <<device, tables, layout, buf, n, find, mark, history, fails>>

(***************************************************************************)
(* update_bmt for the block and page in req.blk, req.page.                 *)
(***************************************************************************)

(* Mutation: what the block holds is not migrated. *)
RelocateEmpty ==
  /\ pc = "relocate"
  /\ FindThen(FALSE, "remap")
  /\ UNCHANGED <<device, tables, layout, buf, n, found, mark, history, fails>>

(* A failed write migrates what the block holds, a failed erase does not.  *)
Relocate ==
  /\ pc = "relocate"
  /\ FindThen(FALSE, IF req.op = "write" THEN "copy" ELSE "remap")
  /\ UNCHANGED <<device, tables, layout, buf, n, found, mark, history, fails>>

(* migrate_from_bad: the pages before the failed one are copied as far as  *)
(* they can be read, each with the index of the bad block in its spare     *)
(* area; the page being written comes last.  A failure starts over with    *)
(* another block.                                                          *)
WithIndex(o) == IF req.blk < sys THEN SetIdx(o, req.blk) ELSE o

(* Mutation: a pool block that goes bad gets the mark of a system block. *)
AfterCopyRaw(r, next) ==
  IF r = "ok" THEN next ELSE MarkThen(found, 0, "raw", "relocate") /\ UNCHANGED i

AfterCopy(r, next) ==
  IF r = "ok" THEN next ELSE MarkThen(found, 0, "later", "relocate") /\ UNCHANGED i

CopyPage ==
  /\ pc = "copy"
  /\ found # 0
  /\ i < req.page
  /\ LET c  == Read(flash, cache, req.blk, i)
         b2 == IF ReadOk(flash, cache, req.blk, i)
               THEN [data |-> c.data, oob |-> WithIndex(c.map)]
               ELSE [buf EXCEPT !.oob = WithIndex(@)]
         w  == Overlay(Read(flash, c, found, i), b2.data, b2.oob)
     IN /\ buf' = b2
        /\ cache' = w
        /\ \E r \in Results("program", found) :
             /\ flash' = [flash EXCEPT ![found][i] = AfterProgram(@, w.data, w.oob, r)]
             /\ CountFail(found, r)
             /\ AfterCopy(r, i' = i + 1 /\ UNCHANGED <<pc, mark>>)
  /\ UNCHANGED <<tables, layout, n, find, found, history>>

CopyLast ==
  /\ pc = "copy"
  /\ found # 0
  /\ i = req.page
  /\ buf' = [buf EXCEPT !.oob = WithIndex(req.oob)]
  /\ \E r \in Results("program", found) :
       /\ Write(found, req.page, req.data, buf'.oob, r)
       /\ AfterCopy(r, pc' = "remap" /\ UNCHANGED <<i, mark>>)
  /\ UNCHANGED <<tables, layout, n, find, found, history>>

NothingFound ==
  /\ pc \in {"copy", "remap", "placeBmt", "programBbt"}
  /\ found = 0
  /\ pc' = "refused"
  /\ UNCHANGED <<device, tables, layout, buf, control, history, fails>>

(* Mutation: the table is written as it was before the replacement. *)
RemapUnsaved ==
  /\ pc = "remap"
  /\ found # 0
  /\ bmt' = Append(bmt, [bad |-> req.blk, mapped |-> found])
  /\ buf' = [data |-> [bmt |-> bmt], oob |-> CleanOob]
  /\ pc' = "writeBmt"
  /\ UNCHANGED <<device, bmtAt, bbt, bbtAt, layout, control, history, fails>>

(* A mapped block that went bad keeps its entry, another gets a new one.   *)
Remap ==
  /\ pc = "remap"
  /\ found # 0
  /\ bmt' = IF req.blk < sys
            THEN Append(bmt, [bad |-> req.blk, mapped |-> found])
            ELSE IF Mapped(req.blk)
            THEN [bmt EXCEPT ![First(MappedTo(req.blk))].mapped = found]
            ELSE bmt
  /\ buf' = [data |-> [bmt |-> bmt'], oob |-> CleanOob]
  /\ pc' = "writeBmt"
  /\ UNCHANGED <<device, bmtAt, bbt, bbtAt, layout, control, history, fails>>

(***************************************************************************)
(* write_bmt_to_flash and write_bbt_to_flash.                              *)
(***************************************************************************)
FindBmtBlock ==
  /\ pc = "writeBmt"
  /\ bmtAt = 0
  /\ FindThen(TRUE, "placeBmt")
  /\ UNCHANGED <<device, tables, layout, buf, n, found, mark, history, fails>>

(* The found block is taken as it is: "we don't need to erase found block". *)
PlaceBmt ==
  /\ pc = "placeBmt"
  /\ found # 0
  /\ bmtAt' = found
  /\ pc' = "programBmt"
  /\ UNCHANGED <<device, bmt, bbt, bbtAt, layout, buf, control, history, fails>>

EraseBmt ==
  /\ pc = "writeBmt"
  /\ bmtAt # 0
  /\ \E r \in Results("erase", bmtAt) :
       /\ Erase(bmtAt, r)
       /\ IF r = "ok" THEN pc' = "programBmt" /\ UNCHANGED <<bmtAt, mark>>
          ELSE MarkThen(bmtAt, 0, "later", "writeBmt") /\ bmtAt' = 0
  /\ UNCHANGED <<cache, bmt, bbt, bbtAt, layout, buf, i, n, find, found, history>>

(* Mutation: the mark goes to the page after the one that failed. *)
RetireNext ==
  MarkThen(req.blk, req.page + 1, IF req.blk < sys THEN "raw" ELSE "later", "done")

(* The block given up is marked at the page that failed. *)
Retire == MarkThen(req.blk, req.page, IF req.blk < sys THEN "raw" ELSE "later", "done")

ProgramBmt ==
  /\ pc = "programBmt"
  /\ \E r \in Results("program", bmtAt) :
       /\ Write(bmtAt, 0, buf.data, buf.oob, r)
       /\ IF r # "ok"
          THEN MarkThen(bmtAt, 0, "later", "writeBmt") /\ bmtAt' = 0
          ELSE /\ UNCHANGED bmtAt
               /\ IF req.op = "boot" THEN pc' = "saveBbt" /\ UNCHANGED mark
                  ELSE Retire
  /\ UNCHANGED <<bmt, bbt, bbtAt, layout, buf, i, n, find, found, history>>

FindBbtBlock ==
  /\ pc = "saveBbt"
  /\ IF needBbt
     THEN /\ buf' = [data |-> [bbt |-> bbt], oob |-> CleanOob]
          /\ FindThen(FALSE, "programBbt")
     ELSE pc' = "build" /\ UNCHANGED <<buf, find, i>>
  /\ UNCHANGED <<device, tables, layout, n, found, mark, history, fails>>

ProgramBbt ==
  /\ pc = "programBbt"
  /\ found # 0
  /\ \E r \in Results("program", found) :
       /\ Write(found, 0, buf.data, buf.oob, r)
       /\ IF r = "ok" THEN bbtAt' = found /\ pc' = "build" /\ UNCHANGED mark
          ELSE MarkThen(found, 0, "later", "saveBbt") /\ bbtAt' = 0
  /\ UNCHANGED <<bmt, bmtAt, bbt, layout, buf, i, n, find, found, history>>

(***************************************************************************)
(* Requests.  The users of a NAND flash write the pages of an erased block *)
(* in order, once each.                                                    *)
(***************************************************************************)
MayWrite(l, p) == \A q \in Pages : (q < p) <=> (ack[l][q] # Erased)

(* spi_nand_write_internal for one page. *)
BeginWrite(l, p, v) ==
  /\ pc = "ready"
  /\ ops < MaxOps
  /\ MayWrite(l, p)
  /\ LET phys == Physical(l) IN
     req' = [op |-> "write", log |-> l, phys |-> phys, blk |-> phys, page |-> p,
             data |-> v,
             oob |-> IF phys \in Pool THEN SetIdx(CleanOob, pBbt[l]) ELSE CleanOob]
  /\ cache' = ClearCache(cache)
  /\ ack' = [ack EXCEPT ![l][p] = Unknown]
  /\ ops' = ops + 1
  /\ pc' = "program"
  /\ UNCHANGED <<flash, tables, layout, buf, control, crashes, fails>>

ProgramUser ==
  /\ pc = "program"
  /\ \E r \in Results("program", req.phys) :
       /\ Write(req.phys, req.page, req.data, req.oob, r)
       /\ pc' = IF r = "ok" THEN "done" ELSE "relocate"
  /\ UNCHANGED <<tables, layout, buf, control, history>>

(* spi_nand_erase_internal for one block.  The block erased is the         *)
(* physical one; the address update_bmt gets is the logical one.           *)
BeginErase(l) ==
  /\ pc = "ready"
  /\ ops < MaxOps
  /\ req' = [None EXCEPT !.op = "erase", !.log = l, !.phys = Physical(l), !.blk = l]
  /\ cache' = ClearCache(cache)
  /\ ack' = [ack EXCEPT ![l] = [p \in Pages |-> Unknown]]
  /\ ops' = ops + 1
  /\ pc' = "erase"
  /\ UNCHANGED <<flash, tables, layout, buf, control, crashes, fails>>

EraseUser ==
  /\ pc = "erase"
  /\ \E r \in Results("erase", req.phys) :
       Erase(req.phys, r) /\ pc' = IF r = "ok" THEN "done" ELSE "relocate"
  /\ UNCHANGED <<cache, tables, layout, buf, control, history>>

(* The request returns no error: from now on its effect is promised. *)
Done ==
  /\ pc = "done"
  /\ ack' = IF req.op = "write"
            THEN [ack EXCEPT ![req.log][req.page] = req.data]
            ELSE [ack EXCEPT ![req.log] = [p \in Pages |-> Erased]]
  /\ req' = None
  /\ pc' = "ready"
  /\ UNCHANGED <<device, tables, layout, buf, control, ops, crashes, fails>>

Refuse ==
  /\ pc = "refused"
  /\ pc' = IF req.op = "boot" THEN "dead" ELSE "ready"
  /\ req' = None
  /\ UNCHANGED <<device, tables, layout, buf, control, ack, ops, crashes, fails>>

(* spi_nand_read_internal for one page changes nothing but the cache. *)
UserRead(l, p) ==
  /\ pc = "ready"
  /\ Load(Physical(l), p)
  /\ UNCHANGED <<flash, tables, layout, buf, pc, control, history, fails>>

(***************************************************************************)
(* Power.                                                                  *)
(***************************************************************************)
NoFind  == [fromEnd |-> FALSE, then |-> "copy"]
NoMark  == [blk |-> 0, page |-> 0, kind |-> "raw", then |-> "done"]
ZeroBuf == [data |-> Garbage, oob |-> ZeroOob]

PowerOn ==
  /\ cache = ColdCache
  /\ sys = 0 /\ pBbt = <<>> /\ poolErased = FALSE
  /\ needBmt = FALSE /\ needBbt = FALSE
  /\ bmt = <<>> /\ bmtAt = 0 /\ bbt = <<>> /\ bbtAt = 0
  /\ buf = ZeroBuf
  /\ pc = "pool" /\ i = NBlocks - 1 /\ n = 0
  /\ find = NoFind /\ found = 0 /\ mark = NoMark
  /\ req = None

(* A new chip: erased, but for the factory marks. *)
Init ==
  /\ \E bad \in FactoryBad :
       flash = [b \in Blocks |-> [p \in Pages |->
                  IF b \in bad /\ p = 0 THEN [Blank EXCEPT !.oob.raw = TRUE] ELSE Blank]]
  /\ PowerOn
  /\ ack = [l \in Blocks |-> [p \in Pages |-> Erased]]
  /\ fails = 0 /\ crashes = 0 /\ ops = 0

(* Everything but the flash is lost. *)
PowerCut ==
  /\ crashes < MaxCrashes
  /\ crashes' = crashes + 1
  /\ cache' = ColdCache
  /\ sys' = 0 /\ pBbt' = <<>> /\ poolErased' = FALSE
  /\ needBmt' = FALSE /\ needBbt' = FALSE
  /\ bmt' = <<>> /\ bmtAt' = 0 /\ bbt' = <<>> /\ bbtAt' = 0
  /\ buf' = ZeroBuf
  /\ pc' = "pool" /\ i' = NBlocks - 1 /\ n' = 0
  /\ find' = NoFind /\ found' = 0 /\ mark' = NoMark
  /\ req' = None
  /\ UNCHANGED <<flash, ack, ops, fails>>

(***************************************************************************)
(* Specification.                                                          *)
(***************************************************************************)
SetUp  == CalcPool \/ LoadBmt \/ LoadBmtFails \/ CheckRaw \/ Reconstruct
          \/ ReconstructDone \/ LoadBbt \/ LoadBbtFails \/ ScanRaw \/ ScanRawDone
          \/ Save \/ FindBbtBlock \/ ProgramBbt \/ BuildTable
Find   == ErasePool \/ ErasePoolDone \/ Scan \/ ScanFails
Update == Relocate \/ CopyPage \/ CopyLast \/ NothingFound \/ Remap
          \/ FindBmtBlock \/ PlaceBmt \/ EraseBmt \/ ProgramBmt \/ Mark
Serve  == ProgramUser \/ EraseUser \/ Done \/ Refuse
Driver == SetUp \/ Find \/ Update \/ Serve

Request == \E l \in Logical :
             \/ BeginErase(l)
             \/ \E p \in Pages : UserRead(l, p) \/ \E v \in Values : BeginWrite(l, p, v)

Next == Driver \/ Request \/ PowerCut

Spec     == Init /\ [][Next]_vars
FairSpec == Spec /\ WF_vars(Driver)

(***************************************************************************)
(* Properties.                                                             *)
(***************************************************************************)
Labels == {"pool", "loadBmt", "checkRaw", "reconstruct", "loadBbt", "scanRaw",
           "save", "saveBbt", "build", "erasePool", "scan", "relocate", "copy",
           "remap", "writeBmt", "placeBmt", "programBmt", "programBbt", "mark",
           "program", "erase", "done", "refused", "ready", "dead"}

FindReturns == {"copy", "remap", "placeBmt", "programBbt"}
MarkReturns == {"checkRaw", "reconstruct", "erasePool", "relocate", "writeBmt",
                "saveBbt", "done"}

Requests == [op: {"boot", "write", "erase"}, log: Blocks, phys: Blocks, blk: Blocks,
             page: Pages, data: Values \cup {Erased}, oob: Oob]

TypeOK ==
  /\ flash \in Flash
  /\ cache \in Cache
  /\ sys \in Blocks
  /\ bmt \in Seq(Entry) /\ bmtAt \in Blocks
  /\ bbt \in Seq(Blocks) /\ bbtAt \in Blocks
  /\ poolErased \in BOOLEAN /\ needBmt \in BOOLEAN /\ needBbt \in BOOLEAN
  /\ buf \in [data: Data, oob: Oob]
  /\ pc \in Labels /\ i \in Int /\ n \in Nat
  /\ find \in [fromEnd: BOOLEAN, then: FindReturns] /\ found \in Blocks
  /\ mark \in [blk: Blocks, page: Pages, kind: MarkKinds, then: MarkReturns]
  /\ req \in Requests
  /\ ack \in [Blocks -> [Pages -> Values \cup {Erased, Unknown}]]
  /\ fails \in Nat /\ crashes \in Nat /\ ops \in Nat

(* A read returns what the users were last told is there: the data of a    *)
(* write that reported success, or nothing since a successful erase.       *)
(* (spi_nand_read_internal after spi_nand_write_internal,                  *)
(* spi_nand_erase_internal and any number of update_bmt and reboots.)      *)
ReadBack ==
  pc = "ready" =>
    \A l \in Logical, p \in Pages :
      ack[l][p] # Unknown => Read(flash, cache, Physical(l), p).data = ack[l][p]

(* The pool blocks in use are all different: no block replaces two blocks, *)
(* and none that holds a table is a replacement.  (is_block_mapped and the *)
(* bmt_block_index and bbt_block_index tests of find_available_block.)     *)
InUseApart ==
  /\ \A x, y \in DOMAIN bmt : bmt[x].mapped = bmt[y].mapped => x = y
  /\ \A b \in {bmtAt, bbtAt} \ {0} : ~Mapped(b)
  /\ bmtAt = bbtAt => bmtAt = 0

(* A block that stands for another is left alone by every step but those   *)
(* of the request it serves: the pool is never erased under it, no table   *)
(* and no other block is written over it.  (find_available_block.)         *)
KeepsReplacements ==
  \A b \in Pool : Mapped(b) /\ b # req.phys => flash'[b] = flash[b]

ReplacementsKept == [][KeepsReplacements]_vars

(* Where the next set-up would put the pool, from the flash as it is.      *)
RawOnFlash(b) == flash[b][0].oob.raw
GoodFrom(s)   == Cardinality({b \in s .. NBlocks - 1 : ~RawOnFlash(b)})

(* The border of the pool never moves: whenever power goes, the next       *)
(* set-up counts to the same block, however many blocks have gone bad.     *)
(* (calc_bmt_pool_size counts factory marks, so update_bmt must use the    *)
(* other mark for pool blocks.)                                            *)
PoolFixed ==
  pc \notin {"pool", "dead"} => GoodFrom(sys) = NeedValid /\ ~RawOnFlash(sys)

(* What the next set-up would load. *)
Unmarked(b) == ~flash[b][0].oob.raw /\ ~flash[b][0].oob.later

SavedBmt == {b \in Pool : Unmarked(b) /\ ValidBmt(flash[b][0].data)}
SavedBbt == {b \in Pool : Unmarked(b) /\ ValidBbt(flash[b][0].data)}
Last(S)  == CHOOSE x \in S : \A y \in S : y <= x

(* When no request is under way the tables on the flash are the tables in  *)
(* memory: a loss of power now loses no replacement and does not renumber  *)
(* the logical blocks.  (load_bmt_data finds what write_bmt_to_flash       *)
(* wrote, load_bbt_data what write_bbt_to_flash wrote.)                    *)
TablesSaved ==
  pc = "ready" =>
    /\ SavedBmt # {} /\ flash[Last(SavedBmt)][0].data.bmt = bmt
    /\ SavedBbt # {} /\ flash[First(SavedBbt)][0].data.bbt = bbt

(* Set-up and every request come to an end, with or without success.       *)
(* (update_bmt: "Return true for success, and false for failure"; it runs  *)
(* with interrupts off.)                                                   *)
Returns == (pc # "ready") ~> (pc \in {"ready", "dead"})
=============================================================================
