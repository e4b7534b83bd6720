------------------------------ MODULE NandMtd ------------------------------
(***************************************************************************)
(* Who uses the NAND flash, and how a call becomes transactions with the   *)
(* chip: drivers/mtd/chips/spi_nand_flash.c above SpiNandChip, on blocks   *)
(* none of which is replaced (Bmt models the replacing).                   *)
(*                                                                         *)
(* Two ways lead to the flash.  The exported functions (SPI_NAND_Flash_    *)
(* Write_Nbyte, _Read_NByte, _Erase) take any address and length and may   *)
(* be called on several processors.  MTD's nand_base gives commands to     *)
(* spinand_cmdfunc, one user at a time (nand_get_device), and fetches or   *)
(* gives the data between them.  Each transaction is a step; what a call   *)
(* does to the chip it does under one spinlock.                            *)
(***************************************************************************)
EXTENDS SpiNandChip, FiniteSets

CONSTANTS
  Parties,       (* sets of users that may use the flash together          *)
  Mtd,           (* the user that comes through MTD                        *)
  Nobody, Idle,
  Text,          (* what is written: the first cells of this               *)
  Starts,        (* bound: where the exported functions are asked to begin *)
  Lengths,       (* bound: the lengths they are given                      *)
  StackOffsets,  (* what spi_nand_write_page_internal finds in its         *)
                 (* addr_offset, which it never sets                       *)
  MaxOps         (* bound: calls                                           *)

ASSUME NandMtdAssumption ==
  /\ \A party \in Parties : Mtd \in party => party = {Mtd}
  /\ Mtd # Nobody /\ \A party \in Parties : Nobody \notin party
  /\ Text \in Seq(Range(Text)) /\ Len(Text) > PageSize
  /\ Starts \subseteq Nat /\ Lengths \subseteq 1 .. Len(Text)
  /\ StackOffsets \subseteq 0 .. PageSize
  /\ MaxOps \in Nat

VARIABLES
  party,     (* who uses the flash                                         *)
  chip,      (* the chip                                                   *)
  bit,       (* _plane_select_bit                                          *)
  cache,     (* _current_page_num, the cached page, and the copy of its    *)
             (* spare area in logical order (_oob_mapping)                 *)
  lock,      (* spinandLock                                                *)
  at,        (* of each user, its place in the code                        *)
  req,       (* of each user, the call under way                           *)
  left,      (* of each user, remain_len                                   *)
  piece,     (* the arguments of spi_nand_write_page, or the page to read  *)
  got,       (* of each user, the buffer a read fills                      *)
  state,     (* struct spinand_state                                       *)
  answer,    (* of each user, what its last call returned                  *)
  todo,      (* history: of each user, the cells its call is yet to change *)
  turn,      (* history: the user whose call has begun to change cells     *)
  ops        (* calls made                                                 *)

history == <<todo, turn>>
vars == <<party, chip, bit, cache, lock, at, req, left, piece, got, state,
          answer, history, ops>>

AllUsers == UNION Parties
NoPage   == NBlocks * PagesPerBlock
BlockLen == PagesPerBlock * PageSize
Flash    == 0 .. NBlocks * BlockLen - 1

(***************************************************************************)
(* Calls.  A call writes or reads len cells from addr on, erases the       *)
(* blocks of such a range, or works on a page.                             *)
(***************************************************************************)
DirectOps == {"read", "write", "erase"}
MtdOps    == {"mtdread", "mtdreadoob", "mtdwrite", "mtdwriteoob", "mtderase"}
Call      == [op: DirectOps \cup MtdOps, addr: Flash, len: 1 .. NBlocks * BlockLen]

Reads(op)  == op \in {"read", "mtdread", "mtdreadoob"}
Erases(op) == op \in {"erase", "mtderase"}
ByPage(op) == op \in MtdOps \ {"mtderase"}

CellAt(a)    == <<a \div PageSize, (a % PageSize) + 1>>
PageCells(p) == [k \in Columns |-> <<p, k>>]
Blocks(r)    == (r.len + BlockLen - 1) \div BlockLen
Unaligned(r) == Erases(r.op) /\ r.addr % BlockLen # 0

(* The cells a call changes, with what it gives them, and those it reads.  *)
PutOf(r) ==
  CASE r.op = "write"       -> [k \in 1 .. r.len |-> <<CellAt(r.addr + k - 1), Text[k]>>]
    [] r.op = "mtdwrite"    -> [k \in Columns |-> <<<<r.addr \div PageSize, k>>, Text[k]>>]
    [] r.op = "mtdwriteoob" -> <<<<<<r.addr \div PageSize, Spare>>, Text[1]>>>>
    [] Erases(r.op) /\ ~Unaligned(r) ->
         [k \in 1 .. Blocks(r) * PagesPerBlock * (PageSize + 1) |->
           <<<<r.addr \div PageSize + ((k - 1) \div (PageSize + 1)),
               ((k - 1) % (PageSize + 1)) + 1>>, Blank>>]
    [] OTHER -> <<>>

GetOf(r) ==
  CASE r.op = "read"       -> [k \in 1 .. r.len |-> CellAt(r.addr + k - 1)]
    [] r.op = "mtdread"    -> PageCells(r.addr \div PageSize)
    [] r.op = "mtdreadoob" -> <<<<r.addr \div PageSize, Spare>>>>
    [] OTHER -> <<>>

Fits(r) ==
  CASE r.op \in DirectOps ->
         /\ r.addr \in Starts /\ r.len \in Lengths
         /\ \/ r.addr + (IF Erases(r.op) THEN Blocks(r) * BlockLen ELSE r.len) - 1 \in Flash
            \/ Unaligned(r)
    [] r.op = "mtderase" -> r.len = BlockLen /\ ~Unaligned(r)
    [] ByPage(r.op)      -> r.len = PageSize /\ r.addr % PageSize = 0

Calls == {r \in Call : Fits(r)}
Asked(r) == [put |-> PutOf(r), get |-> GetOf(r)]

(* Idle stands for no request. *)
Request == [put : Seq((Nat \X Nat) \X (Range(Text) \cup {Blank})), get : Seq(Nat \X Nat)]

ASSUME IdleAssumption == Idle \notin Calls /\ Idle \notin Request

Filled == [r \in Calls |-> {PutOf(r)[k][1] : k \in DOMAIN PutOf(r)}]

(* Users write cells that are erased, and never two the same. *)
Sensible(r) ==
  ~Erases(r.op) =>
    \A c \in Filled[r] :
      /\ chip.cells[c[1]][c[2]] = Blank
      /\ \A u \in party : req[u] # Idle => c \notin Filled[req[u]]

(***************************************************************************)
(* Setting up.                                                             *)
(***************************************************************************)
Quiet == [command |-> "none", idx |-> 0, len |-> 0, col |-> 0, row |-> 0,
          buf |-> BlankPage, oob |-> Blank]
NoPiece == [page |-> 0, off |-> 0, data |-> <<>>, oob |-> Blank]

Init ==
  /\ party \in Parties
  /\ \E kind \in Kinds : chip = NewChip(kind)
  /\ bit = 0
  /\ cache = [page |-> NoPage, data |-> JunkPage, map |-> Mixed]
  /\ lock = Nobody
  /\ at = [u \in AllUsers |-> "probe"]
  /\ req = [u \in AllUsers |-> Idle]
  /\ left = [u \in AllUsers |-> 0]
  /\ piece = NoPiece
  /\ got = [u \in AllUsers |-> <<>>]
  /\ state = Quiet
  /\ answer = [u \in AllUsers |-> <<>>]
  /\ todo = [u \in AllUsers |-> Idle]
  /\ turn = Nobody
  /\ ops = 0

Goto(u, l) == at' = [at EXCEPT ![u] = l]

Same(u, l) == Goto(u, l) /\ UNCHANGED <<party, req, ops, answer>>

(* spi_nand_probe asks for the name in one form, then in the other; the    *)
(* table knows the chip by one of the two answers.                         *)
Probe ==
  /\ \A u \in AllUsers : at[u] = "probe"
  /\ ReadId(chip) \/ ReadId2(chip)
  /\ at' = [u \in AllUsers |-> "unlock"]
  /\ UNCHANGED <<party, chip, bit, cache, lock, req, left, piece, got, state,
                 answer, history, ops>>

(* spi_nand_manufacute_init takes the protection off every block. *)
(* Mutation: the protection register is not opened first. *)
UnlockUnopened(c) == SetStatusReg1(c)

Unlock(c) ==
  IF c.kind.gated
  THEN SetStatusReg2(SetStatusReg1(SetStatusReg2(c, TRUE)), FALSE)
  ELSE SetStatusReg1(c)

ManufactureInit ==
  /\ \A u \in AllUsers : at[u] = "unlock"
  /\ chip' = Unlock(chip)
  /\ at' = [u \in AllUsers |-> IF u = Mtd THEN "scan" ELSE "idle"]
  /\ UNCHANGED <<party, bit, cache, lock, req, left, piece, got, state,
                 answer, history, ops>>

(* nand_scan_ident: RESET once the chip is ready, then READID. *)
Scan ==
  /\ Mtd \in party /\ at[Mtd] = "scan"
  /\ ~OIP(chip)
  /\ chip' = Reset(chip)
  /\ state' = [state EXCEPT !.command = "readid", !.idx = 2]
  /\ Same(Mtd, "idle")
  /\ UNCHANGED <<bit, cache, lock, left, piece, got, history>>

(***************************************************************************)
(* A call begins.  MTD looks at the write protection before it changes     *)
(* anything: STATUS reads a register into the first byte of the buffer.    *)
(***************************************************************************)
Begin(u, r) ==
  /\ at[u] = "idle"
  /\ ops < MaxOps
  /\ (u = Mtd) <=> (r.op \in MtdOps)
  /\ Sensible(r)
  /\ req' = [req EXCEPT ![u] = r]
  /\ ops' = ops + 1
  /\ Goto(u, IF r.op \in DirectOps THEN "enter"
             ELSE IF Reads(r.op) THEN "read0" ELSE "status")
  /\ left' = [left EXCEPT ![u] = r.len]
  /\ got' = [got EXCEPT ![u] = <<>>]
  /\ todo' = [todo EXCEPT ![u] = Asked(r)]
  /\ UNCHANGED <<party, chip, bit, cache, lock, piece, state, answer, turn>>

Status ==
  /\ at[Mtd] = "status"
  /\ state' = [state EXCEPT !.command = "status", !.buf[1] = Mixed, !.idx = 1]
  /\ Same(Mtd, CASE req[Mtd].op = "mtdwrite" -> "seqin"
                 [] req[Mtd].op = "mtdwriteoob" -> "writeoob"
                 [] OTHER -> "enter")
  /\ UNCHANGED <<chip, bit, cache, lock, left, piece, got, history>>

Row(u) == req[u].addr \div PageSize

(* NAND_CMD_READ0 and NAND_CMD_READOOB *)
ReadCommand ==
  /\ at[Mtd] = "read0"
  /\ LET column == IF req[Mtd].op = "mtdreadoob" THEN PageSize ELSE 0
     IN state' = [state EXCEPT !.command = "read", !.idx = column]
  /\ piece' = [NoPiece EXCEPT !.page = Row(Mtd)]
  /\ Same(Mtd, "enter")
  /\ UNCHANGED <<chip, bit, cache, lock, left, got, history>>

SeqIn ==
  /\ at[Mtd] = "seqin"
  /\ state' = [Quiet EXCEPT !.command = "seqin", !.row = Row(Mtd)]
  /\ Same(Mtd, "data")
  /\ UNCHANGED <<chip, bit, cache, lock, left, piece, got, history>>

(* spinand_write_buf, in the main area or, past its end, in the spare. *)
WriteBuf(st, s) ==
  IF st.col >= PageSize
  THEN [st EXCEPT !.oob = s[1], !.col = @ + Len(s)]
  ELSE [st EXCEPT !.buf = [k \in Columns |->
                     IF k - st.idx \in DOMAIN s THEN s[k - st.idx] ELSE @[k]],
                  !.col = @ + Len(s), !.len = @ + Len(s)]

(* spinand_write_page_hwecc *)
WritePageHwecc ==
  /\ at[Mtd] = "data"
  /\ state' = WriteBuf(WriteBuf(state, SubSeq(Text, 1, PageSize)), <<Text[Spare]>>)
  /\ Same(Mtd, "pageprog")
  /\ UNCHANGED <<chip, bit, cache, lock, left, piece, got, history>>

(* The offset in the page comes from a variable nobody set, not from the   *)
(* column of SEQIN.                                                        *)
PageProg ==
  /\ at[Mtd] = "pageprog"
  /\ \E off \in StackOffsets :
       piece' = [page |-> state.row, off |-> off, oob |-> state.oob,
                 data |-> SubSeq(state.buf, state.idx + 1, state.idx + state.len)]
  /\ state' = [state EXCEPT !.command = "pageprog"]
  /\ Same(Mtd, "enter")
  /\ UNCHANGED <<chip, bit, cache, lock, left, got, history>>

(* spinand_write_oob *)
WriteOob ==
  /\ at[Mtd] = "writeoob"
  /\ \E off \in StackOffsets :
       piece' = [page |-> Row(Mtd), off |-> off, oob |-> Text[1], data |-> <<>>]
  /\ state' = [state EXCEPT !.oob = Text[1]]
  /\ Same(Mtd, "enter")
  /\ UNCHANGED <<chip, bit, cache, lock, left, got, history>>

(***************************************************************************)
(* Under the lock: spi_nand_write_internal, spi_nand_read_internal,        *)
(* spi_nand_erase_internal, spi_nand_write_page_internal and               *)
(* spi_nand_read_page_internal.                                            *)
(***************************************************************************)
Cleared(c) == [c EXCEPT !.page = NoPage]      (* SPI_NAND_Flash_Clear_Read_Cache_Data *)

(* Mutation: an erase leaves the cached page. *)
EnterKeepsCache(u) ==
  /\ at[u] = "enter" /\ lock = Nobody
  /\ lock' = u
  /\ cache' = IF Reads(req[u].op) \/ Erases(req[u].op) THEN cache ELSE Cleared(cache)
  /\ Same(u, IF Unaligned(req[u]) THEN "leave"
             ELSE IF ByPage(req[u].op) THEN "load" ELSE "next")
  /\ UNCHANGED <<chip, bit, left, piece, got, state, history>>

(* Mutation: the lock is not waited for. *)
EnterAtOnce(u) ==
  /\ at[u] = "enter"
  /\ lock' = u
  /\ cache' = IF Reads(req[u].op) THEN cache ELSE Cleared(cache)
  /\ Same(u, IF Unaligned(req[u]) THEN "leave"
             ELSE IF ByPage(req[u].op) THEN "load" ELSE "next")
  /\ UNCHANGED <<chip, bit, left, piece, got, state, history>>

Enter(u) ==
  /\ at[u] = "enter" /\ lock = Nobody
  /\ lock' = u
  /\ cache' = IF Reads(req[u].op) THEN cache ELSE Cleared(cache)
  /\ Same(u, IF Unaligned(req[u]) THEN "leave"
             ELSE IF ByPage(req[u].op) THEN "load" ELSE "next")
  /\ UNCHANGED <<chip, bit, left, piece, got, state, history>>

(* The next page of a write or a read, the next block of an erase. *)
(* Mutation: a write is cut at the length of a page, not at its end. *)
WriteLenUncut(off, remain) == IF remain > PageSize THEN PageSize ELSE remain

WriteLen(off, remain) == IF off + remain > PageSize THEN PageSize - off ELSE remain
ReadLen(off, remain)  == IF off + remain < PageSize THEN remain ELSE PageSize - off

NextPiece(u) ==
  LET r   == req[u]
      pos == r.addr + r.len - left[u]
      off == pos % PageSize
      n   == WriteLen(off, left[u])
  IN
  /\ at[u] = "next"
  /\ Same(u, IF left[u] = 0 THEN "leave" ELSE IF Erases(r.op) THEN "wren" ELSE "load")
  /\ piece' =
       IF left[u] = 0 THEN piece
       ELSE [page |-> pos \div PageSize, off |-> off, oob |-> Blank,
             data |-> IF r.op = "write"
                      THEN SubSeq(Text, r.len - left[u] + 1, r.len - left[u] + n)
                      ELSE <<>>]
  /\ UNCHANGED <<chip, bit, cache, lock, left, got, state, history>>

Loaded(u) == IF ~Reads(req[u].op) THEN "lay"
             ELSE IF ByPage(req[u].op) THEN "leave" ELSE "copy"

(* spi_nand_load_page_into_cache, then spi_nand_read_page. *)
Load(u) ==
  /\ at[u] = "load"
  /\ IF cache.page = piece.page
     THEN Same(u, Loaded(u)) /\ UNCHANGED chip
     ELSE Same(u, "loading") /\ chip' = PageRead(chip, piece.page)
  /\ UNCHANGED <<bit, cache, lock, left, piece, got, state, history>>

(* Mutation: the page is fetched before the chip says it is there. *)
LoadingUnready(u) ==
  /\ at[u] = "loading"
  /\ Same(u, "fetch")
  /\ UNCHANGED <<chip, bit, cache, lock, left, piece, got, state, history>>

Loading(u) ==
  /\ at[u] = "loading"
  /\ ~OIP(chip)
  /\ Same(u, "fetch")
  /\ UNCHANGED <<chip, bit, cache, lock, left, piece, got, state, history>>

Select(p) == IF chip.kind.planes = 2 THEN BlockOf(p) % 2 ELSE bit

Fetch(u) ==
  /\ at[u] = "fetch"
  /\ bit' = Select(piece.page)
  /\ LET s == ReadFromCache(chip, bit')
     IN cache' = [page |-> piece.page, data |-> s, map |-> s[Spare]]
  /\ Same(u, Loaded(u))
  /\ UNCHANGED <<chip, lock, left, piece, got, state, history>>

Copy(u) ==
  /\ at[u] = "copy"
  /\ LET n == ReadLen(piece.off, left[u])
     IN /\ got' = [got EXCEPT ![u] =
                     @ \o SubSeq(cache.data, piece.off + 1, piece.off + n)]
        /\ left' = [left EXCEPT ![u] = @ - n]
  /\ Same(u, "next")
  /\ UNCHANGED <<chip, bit, cache, lock, piece, state, history>>

(* spi_nand_write_page lays the new cells over the cached page. *)
Overlaid(s) ==
  [k \in Columns |->
     IF k = Spare THEN And(s[k], piece.oob)
     ELSE IF k - piece.off \in DOMAIN piece.data THEN piece.data[k - piece.off] ELSE s[k]]

Lay(u) ==
  /\ at[u] = "lay"
  /\ cache' = [cache EXCEPT !.data = Overlaid(@)]
  /\ bit' = Select(piece.page)
  /\ Same(u, "wren")
  /\ UNCHANGED <<chip, lock, left, piece, got, state, history>>

WrEn(u) ==
  /\ at[u] = "wren"
  /\ chip' = WriteEnable(chip)
  /\ Same(u, IF Erases(req[u].op) THEN "erase" ELSE "pload")
  /\ UNCHANGED <<bit, cache, lock, left, piece, got, state, history>>

PLoad(u) ==
  /\ at[u] = "pload"
  /\ chip' = ProgramLoad(chip, bit, cache.data)
  /\ Same(u, "exec")
  /\ UNCHANGED <<bit, cache, lock, left, piece, got, state, history>>

Place(u, n) ==
  /\ todo' = [todo EXCEPT ![u].put = SubSeq(@, n + 1, Len(@))]
  /\ turn' = u

Exec(u) ==
  /\ at[u] = "exec"
  /\ chip' = ProgramExecute(chip, piece.page)
  /\ Place(u, IF req[u].op = "mtdwrite" THEN PageSize + 1
              ELSE IF req[u].op = "mtdwriteoob" THEN 1 ELSE Len(piece.data))
  /\ Same(u, "wait")
  /\ UNCHANGED <<bit, cache, lock, left, piece, got, state>>

(* spi_nand_erase_block *)
EraseBlock(u) ==
  /\ at[u] = "erase"
  /\ chip' = BlockErase(chip, BlockOf(piece.page))
  /\ Place(u, PagesPerBlock * (PageSize + 1))
  /\ Same(u, "wait")
  /\ UNCHANGED <<bit, cache, lock, left, piece, got, state>>

Wait(u) ==
  /\ at[u] = "wait"
  /\ ~OIP(chip)
  /\ Same(u, "wrdi")
  /\ UNCHANGED <<chip, bit, cache, lock, left, piece, got, state, history>>

WrDi(u) ==
  /\ at[u] = "wrdi"
  /\ chip' = WriteDisable(chip)
  /\ LET n == IF Erases(req[u].op) THEN BlockLen ELSE Len(piece.data)
     IN left' = [left EXCEPT ![u] = IF n > @ THEN 0 ELSE @ - n]
  /\ Same(u, IF ByPage(req[u].op) THEN "leave" ELSE "next")
  /\ UNCHANGED <<bit, cache, lock, piece, got, state, history>>

(***************************************************************************)
(* A call ends: the exported functions when they let go of the lock, MTD   *)
(* after it has fetched the data or waited for the chip.                   *)
(***************************************************************************)
Return(u, s) ==
  /\ Goto(u, "idle")
  /\ req' = [req EXCEPT ![u] = Idle]
  /\ answer' = [answer EXCEPT ![u] = s]
  /\ todo' = [todo EXCEPT ![u] = Idle]
  /\ turn' = Nobody
  /\ got' = [got EXCEPT ![u] = <<>>]
  /\ left' = [left EXCEPT ![u] = 0]
  /\ UNCHANGED <<party, ops>>

(* Mutation: a page written through MTD stays cached. *)
LeaveKeepsCache(u) ==
  /\ at[u] = "leave"
  /\ lock' = Nobody
  /\ cache' = cache
  /\ IF u = Mtd
     THEN /\ Same(u, CASE Reads(req[u].op) -> "fetchbuf"
                       [] req[u].op = "mtdwriteoob" -> "return"
                       [] OTHER -> "waitfunc")
          /\ UNCHANGED <<got, left, history>>
     ELSE Return(u, got[u])
  /\ UNCHANGED <<chip, bit, piece, state>>

Leave(u) ==
  /\ at[u] = "leave"
  /\ lock' = Nobody
  /\ cache' = IF req[u].op \in {"mtdwrite", "mtdwriteoob"} THEN Cleared(cache) ELSE cache
  /\ IF u = Mtd
     THEN /\ Same(u, CASE Reads(req[u].op) -> "fetchbuf"
                       [] req[u].op = "mtdwriteoob" -> "return"
                       [] OTHER -> "waitfunc")
          /\ UNCHANGED <<got, left, history>>
     ELSE Return(u, got[u])
  /\ UNCHANGED <<chip, bit, piece, state>>

(* spinand_read_page_hwecc takes the lock again for the copy. *)
ReadPageHwecc ==
  /\ at[Mtd] = "fetchbuf" /\ req[Mtd].op = "mtdread"
  /\ lock = Nobody
  /\ Return(Mtd, Append(SubSeq(cache.data, 1, PageSize), cache.map))
  /\ UNCHANGED <<chip, bit, cache, lock, piece, state>>

(* spinand_read_buf past the main area: the copy of the spare area. *)
ReadBuf ==
  /\ at[Mtd] = "fetchbuf" /\ req[Mtd].op = "mtdreadoob"
  /\ Return(Mtd, IF state.idx < PageSize THEN <<cache.data[state.idx + 1]>> ELSE <<cache.map>>)
  /\ state' = [state EXCEPT !.idx = @ + 1]
  /\ UNCHANGED <<chip, bit, cache, lock, piece>>

(* spinand_wait reads the status without the lock, and returns 0 when the  *)
(* chip is ready as when the time is up.                                   *)
WaitFunc ==
  /\ at[Mtd] \in {"waitfunc", "return"}
  /\ Return(Mtd, <<>>)
  /\ UNCHANGED <<chip, bit, cache, lock, piece, state>>

(* External: the chip ends what it is doing. *)
ChipReady ==
  /\ OIP(chip)
  /\ chip' = Ready(chip)
  /\ UNCHANGED <<party, bit, cache, lock, at, req, left, piece, got, state,
                 answer, history, ops>>

UnderLock(u) ==
  \/ Enter(u) \/ NextPiece(u) \/ Load(u) \/ Loading(u) \/ Fetch(u)
  \/ Copy(u) \/ Lay(u) \/ WrEn(u) \/ PLoad(u) \/ Exec(u)
  \/ EraseBlock(u) \/ Wait(u) \/ WrDi(u) \/ Leave(u)

ByMtd ==
  \/ Status \/ ReadCommand \/ SeqIn \/ WritePageHwecc \/ PageProg
  \/ WriteOob \/ ReadPageHwecc \/ ReadBuf \/ WaitFunc

Rest ==
  /\ ops = MaxOps
  /\ \A u \in party : at[u] = "idle"
  /\ UNCHANGED vars

Next ==
  \/ Probe \/ ManufactureInit \/ Scan \/ ChipReady \/ Rest
  \/ \E u \in party : (\E r \in Calls : Begin(u, r)) \/ UnderLock(u)
  \/ Mtd \in party /\ ByMtd

Spec == Init /\ [][Next]_vars

(***************************************************************************)
(* Properties.                                                             *)
(***************************************************************************)

TypeOK ==
  /\ party \in Parties
  /\ chip.cells \in [PageNumbers -> Seq(Range(Text) \cup {Blank})]
  /\ chip.op \in {"idle", "read", "write"}
  /\ bit \in {0, 1}
  /\ cache.page \in PageNumbers \cup {NoPage}
  /\ lock \in party \cup {Nobody}
  /\ \A u \in party : /\ req[u] \in Calls \cup {Idle}
                      /\ left[u] \in 0 .. NBlocks * BlockLen
                      /\ req[u] = Idle <=> todo[u] = Idle

(* Between two calls the cached page is what the chip holds, its spare     *)
(* area twice, and the chip is at rest with its write latch down: the next *)
(* read may be served from the cache, and a stray command changes nothing. *)
(* Every write and erase has to clear the cache or bring it up to date.    *)
CacheIsThePage ==
  lock = Nobody =>
    /\ ~OIP(chip) /\ ~chip.wel
    /\ cache.page # NoPage => /\ cache.data = chip.cells[cache.page]
                              /\ cache.map = chip.cells[cache.page][Spare]

(* Whatever way it is used, the driver is the plain store of FlashStore:   *)
(* what is written is what is read, a call reaches all its cells and no    *)
(* others, and calls on two processors do not mix.                         *)
Store == INSTANCE FlashStore WITH
  Users    <- AllUsers,
  Requests <- {Asked(r) : r \in Calls},
  cells    <- [c \in Cells |-> chip.cells[c[1]][c[2]]]

StoreIsFaithful == Store!Spec
=============================================================================
