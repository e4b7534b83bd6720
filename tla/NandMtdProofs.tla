--------------------------- MODULE NandMtdProofs ----------------------------
(***************************************************************************)
(* The cached page of the NAND driver, for chips of any size, transfers of  *)
(* any length, any texts and any users.                                     *)
(*                                                                         *)
(* A write lays its cells over the cached page and programs the whole page: *)
(* the cells around it are programmed to what they hold.  So the cache has  *)
(* to be the page at that moment (Cached), the register of the plane has to *)
(* hold it (Registers), the chip has to take the command (Steady), and the  *)
(* cells that are written have to be blank (OwedBlank), also when another   *)
(* processor wrote or erased between two calls (Apart).  Then no cell is    *)
(* ever programmed to two values, and the cache is the page again.          *)
(***************************************************************************)
EXTENDS NandMtd, TLAPS

Val == Range(Text) \cup {Blank}
PageType == [Columns -> Val]
AnyPage == [Columns -> Val \cup {Mixed}]

ChipType == [kind : Kinds, cells : [PageNumbers -> PageType], reg : [{0, 1} -> AnyPage],
             op : {"idle", "read", "write"}, wel : BOOLEAN, locked : BOOLEAN, open : BOOLEAN]
CacheType == [page : PageNumbers \cup {NoPage}, data : AnyPage, map : Val \cup {Mixed}]
PieceType == [page : PageNumbers, off : 0 .. PageSize, data : Seq(Val), oob : Val]

Before == {"probe", "unlock", "scan", "idle"}
Inside == {"next", "load", "loading", "fetch", "copy", "lay", "wren", "pload", "exec",
           "erase", "wait", "wrdi", "leave"}
MtdOnly == {"status", "read0", "seqin", "data", "pageprog", "writeoob",
            "fetchbuf", "waitfunc", "return"}
Programs(op) == op \in {"write", "mtdwrite", "mtdwriteoob"}

Types ==
  /\ party \in Parties
  /\ chip \in ChipType
  /\ bit \in {0, 1}
  /\ cache \in CacheType
  /\ lock \in party \cup {Nobody}
  /\ at \in [AllUsers -> Before \cup {"enter"} \cup Inside \cup MtdOnly]
  /\ req \in [AllUsers -> Calls \cup {Idle}]
  /\ left \in [AllUsers -> 0 .. NBlocks * BlockLen]
  /\ piece \in PieceType
  /\ todo \in [AllUsers -> Request \cup {Idle}]

(* Which calls come to which place. *)
Control(u) ==
  /\ req[u] = Idle <=> at[u] \in Before
  /\ req[u] = Idle <=> todo[u] = Idle
  /\ at[u] \in Inside <=> lock = u
  /\ at[u] \in MtdOnly => u = Mtd
  /\ req[u] # Idle =>
       /\ u = Mtd <=> req[u].op \in MtdOps
       /\ at[u] = "read0" => Reads(req[u].op)
       /\ at[u] \in {"status", "wren", "wait", "wrdi"} => ~Reads(req[u].op)
       /\ at[u] \in {"lay", "pload", "exec"} => Programs(req[u].op)
       /\ at[u] \in {"seqin", "data", "pageprog"} => req[u].op = "mtdwrite"
       /\ at[u] = "writeoob" => req[u].op = "mtdwriteoob"
       /\ at[u] \in {"load", "loading", "fetch"} => ~Erases(req[u].op)
       /\ at[u] = "erase" => Erases(req[u].op)
       /\ at[u] = "copy" => req[u].op = "read"
       /\ at[u] = "next" => ~ByPage(req[u].op)
       /\ at[u] \in Inside \ {"leave"} => ~Unaligned(req[u])

(* How far a call is. *)
Progress(u) ==
  req[u] # Idle /\ ~ByPage(req[u].op) =>
    /\ left[u] <= req[u].len
    /\ at[u] \in {"status", "enter"} => left[u] = req[u].len
    /\ at[u] \in Inside \ {"next", "leave"} => left[u] > 0

Pos(u) == req[u].addr + req[u].len - left[u]

(* What spi_nand_write_page is called with. *)
PieceIs(u) ==
  at[u] \in Inside \ {"next", "leave"} =>
    /\ req[u].op = "write" =>
         /\ piece.page = Pos(u) \div PageSize /\ piece.off = Pos(u) % PageSize
         /\ piece.oob = Blank /\ Len(piece.data) = WriteLen(piece.off, left[u])
    /\ req[u].op \in {"mtdwrite", "mtdwriteoob"} => piece.page = Row(u)
    /\ req[u].op = "mtdwriteoob" => piece.data = <<>>
    /\ req[u].op = "read" =>
         piece.page = Pos(u) \div PageSize /\ piece.off = Pos(u) % PageSize

(* What an MTD write collects before it takes the lock. *)
Collected ==
  /\ at[Mtd] = "data" => state = [Quiet EXCEPT !.command = "seqin", !.row = Row(Mtd)]
  /\ at[Mtd] = "pageprog" =>
       /\ state.idx = 0 /\ state.len = PageSize /\ state.row = Row(Mtd)
       /\ state.buf \in PageType /\ state.oob \in Val
  /\ at[Mtd] = "enter" /\ Programs(req[Mtd].op) => piece.page = Row(Mtd)
  /\ at[Mtd] = "enter" /\ req[Mtd].op = "mtdwriteoob" => piece.data = <<>>

(* The chip takes what it is sent. *)
SetUp ==
  /\ (\E u \in AllUsers : at[u] \in {"probe", "unlock"}) => chip.open = ~chip.kind.gated
  /\ chip.locked => \A u \in AllUsers : at[u] \in {"probe", "unlock"}

Steady(u) ==
  /\ at[u] \notin {"loading", "wait"} => chip.op = "idle"
  /\ at[u] = "loading" => chip.op # "write"
  /\ at[u] = "wait" => chip.op # "read"
  /\ chip.wel <=> at[u] \in {"pload", "exec", "erase"} \/ (at[u] = "wait" /\ chip.op = "write")

Registers(u) ==
  /\ at[u] \in {"loading", "fetch"} =>
       chip.reg[PlaneOf(chip, piece.page)] = chip.cells[piece.page]
  /\ at[u] = "exec" => chip.reg[PlaneOf(chip, piece.page)] = cache.data
  /\ at[u] \in {"wren", "pload"} /\ Programs(req[u].op) =>
       Selected(chip, bit) = PlaneOf(chip, piece.page)

(* The cache at each place under the lock. *)
DataIs == cache.page # NoPage => cache.data = chip.cells[cache.page]
MapIs == cache.page # NoPage => cache.map = chip.cells[cache.page][Spare]

LaidOver(u) == at[u] \in {"wren", "pload", "exec"} /\ Programs(req[u].op)
SpareBehind(u) ==
  at[u] \in {"wait", "wrdi", "leave"} /\ req[u].op \in {"mtdwrite", "mtdwriteoob"}

Cached(u) ==
  /\ Erases(req[u].op) => cache.page = NoPage
  /\ at[u] \in {"copy", "lay"} => cache.page = piece.page
  /\ IF LaidOver(u)
     THEN cache.page = piece.page /\ cache.data = Overlaid(chip.cells[piece.page])
     ELSE DataIs
  /\ SpareBehind(u) \/ MapIs

Held(u) == Steady(u) /\ Registers(u) /\ Cached(u)

AtRest == chip.op = "idle" /\ ~chip.wel /\ DataIs /\ MapIs

(* The cells a write has still to change, of call r at place l with n cells *)
(* left and d cells in the piece under way.                                 *)
OwedOf(r, l, n, d) ==
  LET done == l \in {"wait", "wrdi"}
      from == r.addr + r.len - n + (IF done THEN d ELSE 0)
      page == done \/ l \in {"leave", "waitfunc", "return"}
  IN CASE r.op = "write" -> {CellAt(a) : a \in from .. r.addr + r.len - 1}
       [] r.op = "mtdwrite" /\ ~page -> {<<r.addr \div PageSize, k>> : k \in Columns}
       [] r.op = "mtdwriteoob" /\ ~page -> {<<r.addr \div PageSize, Spare>>}
       [] OTHER -> {}

Owed(u) == OwedOf(req[u], at[u], left[u], Len(piece.data))

OwedBlank(u) ==
  req[u] # Idle => \A c \in Owed(u) : chip.cells[c[1]][c[2]] = Blank

(* Two writes under way have no cell in common. *)
Apart ==
  \A u, v \in party :
    u # v /\ req[u] # Idle /\ req[v] # Idle /\ Programs(req[u].op) /\ Programs(req[v].op)
      => Filled[req[u]] \cap Filled[req[v]] = {}

IInv ==
  /\ Types
  /\ \A u \in AllUsers : Control(u)
  /\ \A u \in party : Progress(u) /\ PieceIs(u) /\ OwedBlank(u) /\ (lock = u => Held(u))
  /\ lock = Nobody => AtRest
  /\ Mtd \in party => Collected
  /\ SetUp /\ Apart

-----------------------------------------------------------------------------
(* Numbers.                                                                *)

USE DEF ChipType, CacheType, PieceType

LEMMA DivMod ==
  ASSUME NEW n \in Nat \ {0}, NEW a \in Nat
  PROVE  /\ a \div n \in Nat /\ a % n \in 0 .. n - 1
         /\ a = n * (a \div n) + (a % n)
OBVIOUS

LEMMA DivIs ==
  ASSUME NEW n \in Nat \ {0}, NEW a \in Nat, NEW q \in Nat, NEW r \in 0 .. n - 1,
         a = n * q + r
  PROVE  a \div n = q /\ a % n = r
OBVIOUS

LEMMA ShiftIn ==
  ASSUME NEW k \in Int, NEW o \in Int, NEW d \in Nat, k - o \in 1 .. d
  PROVE  k - o - 1 \in 0 .. d - 1 /\ k = o + (k - o - 1) + 1
OBVIOUS

LEMMA PieceInCall ==
  ASSUME NEW a \in Nat, NEW l \in Nat, NEW n \in Nat, NEW d \in Nat, NEW j \in 0 .. d - 1,
         d <= n, n <= l
  PROVE  (a + l - n) + j \in Nat /\ (a + l - n) + j <= a + l - 1 /\ (a + l - n) + j < (a + l - n) + d
OBVIOUS

LEMMA PieceInPage ==
  ASSUME NEW o \in Nat, NEW s \in Nat, NEW d \in Nat, NEW j \in 0 .. d - 1, o + d <= s
  PROVE  o + j < s /\ j \in Nat
OBVIOUS

LEMMA InBounds ==
  ASSUME NEW a \in Nat, NEW l \in Nat, NEW T \in Nat, a + l - 1 \in 0 .. T - 1,
         NEW k \in 1 .. l
  PROVE  a + k - 1 \in 0 .. T - 1
OBVIOUS

LEMMA RoundUp ==
  ASSUME NEW x \in Nat, NEW L \in Nat, NEW q \in Nat, NEW m \in 0 .. L - 1,
         NEW n \in Nat, x + L - 1 = n + m
  PROVE  x <= n
OBVIOUS

LEMMA SameRest ==
  ASSUME NEW L \in Nat, NEW x \in 0 .. L - 1, NEW y \in 0 .. L - 1, NEW p \in Nat, NEW q \in Nat,
         L * p + x = L * q + y, p = q
  PROVE  x = y
OBVIOUS

LEMMA SizeFacts ==
  /\ NBlocks \in Nat \ {0} /\ PagesPerBlock \in Nat \ {0} /\ PageSize \in Nat \ {0}
  /\ OpLenMax \in Nat \ {0}
  /\ Kinds \subseteq [bare: BOOLEAN, gated: BOOLEAN, planes: {1, 2}]
  /\ Blank # Mixed /\ NoPage \in Nat /\ NoPage > 0 /\ NoPage \notin PageNumbers
  /\ Columns = 1 .. PageSize + 1 /\ Spare = PageSize + 1 /\ Spare \in Columns
  /\ 0 \in PageNumbers /\ PageNumbers = 0 .. NoPage - 1
  /\ BlockLen \in Nat \ {0}
<1>1. NBlocks * PagesPerBlock \in Nat /\ NBlocks * PagesPerBlock > 0
  BY ChipAssumption
<1>2. PagesPerBlock * PageSize \in Nat \ {0}
  BY ChipAssumption
<1>3. QED
  BY <1>1, <1>2, ChipAssumption DEF NoPage, Columns, Spare, PageNumbers, BlockLen

LEMMA TextFacts ==
  /\ Text \in Seq(Range(Text)) /\ Len(Text) \in Nat /\ Len(Text) > PageSize
  /\ \A k \in 1 .. Len(Text) : Text[k] \in Val
  /\ Blank \in Val
<1>1. Text \in Seq(Range(Text)) /\ Len(Text) \in Nat /\ Len(Text) > PageSize
  BY NandMtdAssumption
<1>2. QED
  BY <1>1 DEF Val

LEMMA PartyFacts ==
  ASSUME Types
  PROVE  /\ party \subseteq AllUsers /\ Nobody \notin party /\ Mtd # Nobody
         /\ Mtd \in party => party = {Mtd}
BY NandMtdAssumption DEF Types, AllUsers

(* The pages of the flash are the pages of the chip. *)
LEMMA PageOf ==
  ASSUME NEW a \in 0 .. NBlocks * BlockLen - 1
  PROVE  a \div PageSize \in PageNumbers /\ a % PageSize \in 0 .. PageSize - 1
<1>1. NBlocks * BlockLen = PageSize * NoPage
  BY SizeFacts DEF BlockLen, NoPage
<1>2. a \in Nat /\ a < PageSize * NoPage
  BY <1>1, SizeFacts
<1> DEFINE q == a \div PageSize
<1>3. q \in Nat /\ a % PageSize \in 0 .. PageSize - 1 /\ a = PageSize * q + (a % PageSize)
  BY <1>2, DivMod, SizeFacts
<1>4. q < NoPage
  <2> HIDE DEF q
  <2>1. SUFFICES ASSUME q >= NoPage PROVE FALSE
    BY <1>3, SizeFacts
  <2>2. PageSize * q >= PageSize * NoPage
    BY <2>1, <1>3, SizeFacts
  <2>3. QED
    BY <1>2, <1>3, <2>2, SizeFacts
<1>5. QED
  BY <1>3, <1>4, SizeFacts

(* The cells of a page in the order of their addresses. *)
LEMMA CellIs ==
  ASSUME NEW a \in Nat, NEW j \in Nat, (a % PageSize) + j < PageSize
  PROVE  CellAt(a + j) = <<a \div PageSize, (a % PageSize) + j + 1>>
<1> DEFINE q == a \div PageSize
           r == a % PageSize
<1>1. q \in Nat /\ r \in 0 .. PageSize - 1 /\ a = PageSize * q + r
  BY DivMod, SizeFacts
<1> HIDE DEF q, r
<1>2. a + j = PageSize * q + (r + j) /\ r + j \in 0 .. PageSize - 1 /\ a + j \in Nat
  BY <1>1, SizeFacts DEF r
<1>3. (a + j) \div PageSize = q /\ (a + j) % PageSize = r + j
  BY <1>1, <1>2, DivIs, SizeFacts
<1>4. QED
  BY <1>3 DEF CellAt, q, r

LEMMA CellsApart ==
  ASSUME NEW a \in Nat, NEW b \in Nat, CellAt(a) = CellAt(b)
  PROVE  a = b
<1>1. a \div PageSize = b \div PageSize /\ (a % PageSize) + 1 = (b % PageSize) + 1
  BY DEF CellAt
<1>2. /\ a \div PageSize \in Nat /\ a % PageSize \in 0 .. PageSize - 1
      /\ a = PageSize * (a \div PageSize) + (a % PageSize)
  BY DivMod, SizeFacts
<1>3. /\ b % PageSize \in 0 .. PageSize - 1
      /\ b = PageSize * (b \div PageSize) + (b % PageSize)
  BY DivMod, SizeFacts
<1>4. a % PageSize = b % PageSize
  <2>1. PICK x \in 0 .. PageSize - 1 : x = a % PageSize
    BY <1>2
  <2>2. PICK y \in 0 .. PageSize - 1 : y = b % PageSize
    BY <1>3
  <2>3. PICK q \in Nat : q = a \div PageSize
    BY <1>2
  <2>4. PageSize * q + x = PageSize * q + y /\ PageSize \in Nat
    BY <1>1, <1>2, <1>3, <2>1, <2>2, <2>3, SizeFacts
  <2>5. QED
    BY <2>1, <2>2, <2>4, SameRest
<1>5. QED
  BY <1>1, <1>2, <1>3, <1>4, Zenon

-----------------------------------------------------------------------------
(* Transfers and the chip.                                                 *)

(* The pieces of a transfer, one after the other, are the transfer. *)
LEMMA InPiecesIs ==
  ASSUME NEW S, NEW s \in Seq(S)
  PROVE  InPieces(s) = s
<1> DEFINE m == OpLenMax
           remain(i) == Len(s) - i * m
           part(i) == SubSeq(s, i * m + 1, i * m + (IF remain(i) > m THEN m ELSE remain(i)))
<1>1. m \in Nat \ {0} /\ Len(s) \in Nat
  BY SizeFacts
<1>2. InPieces(s) = [k \in 1 .. Len(s) |-> part((k - 1) \div m)[((k - 1) % m) + 1]]
  BY DEF InPieces
<1> HIDE DEF m
<1>3. ASSUME NEW k \in 1 .. Len(s) PROVE part((k - 1) \div m)[((k - 1) % m) + 1] = s[k]
  <2> DEFINE i == (k - 1) \div m
             j == (k - 1) % m
             last == i * m + (IF remain(i) > m THEN m ELSE remain(i))
  <2>0. k - 1 \in Nat
    BY <1>1
  <2>1. i \in Nat /\ j \in 0 .. m - 1 /\ k - 1 = m * i + j
    BY <1>1, <2>0, DivMod, Zenon
  <2> HIDE DEF i, j
  <2>2. i * m \in Nat /\ k - 1 = i * m + j
    BY <1>1, <2>1
  <2>3. PICK b \in Nat : b = i * m
    BY <2>2
  <2>4. k - 1 = b + j /\ b < Len(s) /\ Len(s) - b \in Nat
    <3>1. k - 1 = b + j /\ j \in Nat
      BY <2>1, <2>2, <2>3, <1>1
    <3>2. QED
      BY <3>1, <1>1
  <2>5. PICK n \in Nat : n = (IF Len(s) - b > m THEN m ELSE Len(s) - b)
    BY <1>1, <2>4
  <2>6. j < n /\ b + n <= Len(s) /\ j \in Nat
    <3>1. j \in Nat /\ j < m
      BY <1>1, <2>1
    <3>2. QED
      BY <1>1, <2>4, <2>5, <3>1
  <2>7. SubSeq(s, b + 1, b + n)[j + 1] = s[k]
    <3>1. b + n \in Nat /\ b + 1 \in 1 .. Len(s) /\ b + n - (b + 1) + 1 = n
      BY <1>1, <2>4, <2>6
    <3>2. j + 1 \in 1 .. n /\ b + 1 + j = k
      BY <2>4, <2>6
    <3>3. \A x \in 1 .. n : SubSeq(s, b + 1, b + n)[x] = s[b + x]
      BY <1>1, <2>4, <2>6, <3>1
    <3>4. s[b + (j + 1)] = s[k]
      BY <2>4, <2>6
    <3>5. QED
      BY <3>2, <3>3, <3>4
  <2>8. part(i) = SubSeq(s, b + 1, b + n)
    BY <2>3, <2>5
  <2>9. QED
    BY <2>7, <2>8 DEF i, j
<1>4. [k \in 1 .. Len(s) |-> part((k - 1) \div m)[((k - 1) % m) + 1]] = [k \in 1 .. Len(s) |-> s[k]]
  BY <1>3
<1>5. [k \in 1 .. Len(s) |-> s[k]] = s
  BY <1>1
<1>6. QED
  BY <1>2, <1>4, <1>5

LEMMA PageIsSeq ==
  ASSUME NEW S, NEW s \in [Columns -> S]
  PROVE  InPieces(s) = s /\ s \in Seq(S)
<1>1. s \in Seq(S)
  BY SizeFacts
<1>2. QED
  BY <1>1, InPiecesIs

LEMMA Planes ==
  ASSUME NEW c \in ChipType, NEW p \in PageNumbers, NEW b \in {0, 1}
  PROVE  PlaneOf(c, p) \in {0, 1} /\ Selected(c, b) \in {0, 1} /\ BlockOf(p) % 2 \in {0, 1}
<1>1. BlockOf(p) \in Nat
  <2>1. p \in Nat /\ PagesPerBlock \in Nat \ {0}
    BY SizeFacts
  <2>2. QED
    BY <2>1, DivMod, Zenon DEF BlockOf
<1>2. BlockOf(p) % 2 \in 0 .. 1
  BY <1>1, DivMod
<1>3. QED
  BY <1>2 DEF PlaneOf, Selected

LEMMA PageReads ==
  ASSUME NEW c \in ChipType, NEW p \in PageNumbers, c.op = "idle"
  PROVE  LET n == PageRead(c, p)
         IN /\ n \in ChipType /\ n.cells = c.cells /\ n.op = "read"
            /\ n.kind = c.kind /\ n.wel = c.wel /\ n.locked = c.locked /\ n.open = c.open
            /\ n.reg[PlaneOf(c, p)] = c.cells[p]
<1>1. PICK b \in {0, 1} : b = PlaneOf(c, p)
  BY Planes
<1>2. c.cells[p] \in AnyPage
  BY DEF AnyPage, PageType
<1>3. PICK g \in [{0, 1} -> AnyPage] : g = [c.reg EXCEPT ![b] = c.cells[p]]
  BY <1>1, <1>2
<1>4. g[b] = c.cells[p]
  BY <1>3
<1>5. PageRead(c, p) = [c EXCEPT !.reg = g, !.op = "read"]
  BY <1>1, <1>3 DEF PageRead, OIP
<1>6. QED
  BY <1>1, <1>4, <1>5

LEMMA Reading ==
  ASSUME NEW c \in ChipType, NEW b \in {0, 1}, c.op = "idle"
  PROVE  ReadFromCache(c, b) = c.reg[Selected(c, b)] /\ c.reg[Selected(c, b)] \in AnyPage
<1>1. c.reg[Selected(c, b)] \in AnyPage
  BY DEF Selected
<1>2. InPieces(c.reg[Selected(c, b)]) = c.reg[Selected(c, b)]
  BY <1>1, PageIsSeq DEF AnyPage
<1>3. QED
  BY <1>1, <1>2 DEF ReadFromCache, ReadNByte, OIP

LEMMA Latch ==
  ASSUME NEW c \in ChipType, c.op = "idle"
  PROVE  /\ LET n == WriteEnable(c)
            IN /\ n \in ChipType /\ n.cells = c.cells /\ n.op = c.op /\ n.reg = c.reg
               /\ n.kind = c.kind /\ n.wel /\ n.locked = c.locked /\ n.open = c.open
         /\ LET n == WriteDisable(c)
            IN /\ n \in ChipType /\ n.cells = c.cells /\ n.op = c.op /\ n.reg = c.reg
               /\ n.kind = c.kind /\ ~n.wel /\ n.locked = c.locked /\ n.open = c.open
BY DEF WriteEnable, WriteDisable, OIP

LEMMA Loads ==
  ASSUME NEW c \in ChipType, NEW b \in {0, 1}, NEW s \in AnyPage, c.op = "idle"
  PROVE  LET n == ProgramLoad(c, b, s)
         IN /\ n \in ChipType /\ n.cells = c.cells /\ n.op = c.op
            /\ n.kind = c.kind /\ n.wel = c.wel /\ n.locked = c.locked /\ n.open = c.open
            /\ n.reg[Selected(c, b)] = s
<1>1. Selected(c, b) \in {0, 1}
  BY DEF Selected
<1>2. WriteNByte(s) = s
  BY PageIsSeq DEF WriteNByte, AnyPage
<1>3. [k \in Columns |-> IF k \in DOMAIN s THEN s[k] ELSE Blank] = s
  BY DEF AnyPage
<1>4. ProgramLoad(c, b, s) = [c EXCEPT !.reg[Selected(c, b)] = s]
  BY <1>2, <1>3 DEF ProgramLoad, OIP
<1>5. [c.reg EXCEPT ![Selected(c, b)] = s] \in [{0, 1} -> AnyPage]
  BY <1>1
<1>6. QED
  BY <1>1, <1>4, <1>5

LEMMA Programmed ==
  ASSUME NEW c \in ChipType, NEW p \in PageNumbers, Takes(c),
         NEW o \in PageType, c.reg[PlaneOf(c, p)] = o,
         \A k \in Columns : And(c.cells[p][k], o[k]) = o[k]
  PROVE  LET n == ProgramExecute(c, p)
         IN /\ n \in ChipType /\ n.cells = [c.cells EXCEPT ![p] = o] /\ n.op = "write"
            /\ n.kind = c.kind /\ n.wel = c.wel /\ n.locked = c.locked /\ n.open = c.open
            /\ n.reg = c.reg
<1>1. [k \in Columns |-> And(c.cells[p][k], c.reg[PlaneOf(c, p)][k])] = o
  BY DEF PageType
<1>2. ProgramExecute(c, p) =
        [c EXCEPT !.cells[p] = [k \in Columns |-> And(c.cells[p][k], c.reg[PlaneOf(c, p)][k])],
                  !.op = "write"]
  BY DEF ProgramExecute
<1>3. ProgramExecute(c, p) = [c EXCEPT !.cells[p] = o, !.op = "write"]
  BY <1>1, <1>2
<1>4. [c.cells EXCEPT ![p] = o] \in [PageNumbers -> PageType]
  OBVIOUS
<1>5. QED
  BY <1>3, <1>4

LEMMA Erased ==
  ASSUME NEW c \in ChipType, NEW b, Takes(c)
  PROVE  LET n == BlockErase(c, b)
         IN /\ n \in ChipType /\ n.op = "write"
            /\ n.cells = [p \in PageNumbers |-> IF BlockOf(p) = b THEN BlankPage ELSE c.cells[p]]
            /\ n.kind = c.kind /\ n.wel = c.wel /\ n.locked = c.locked /\ n.open = c.open
            /\ n.reg = c.reg
<1> DEFINE new == [p \in PageNumbers |-> IF BlockOf(p) = b THEN BlankPage ELSE c.cells[p]]
<1>1. BlankPage \in PageType
  BY TextFacts DEF BlankPage, PageType
<1>2. new \in [PageNumbers -> PageType]
  BY <1>1
<1>3. BlockErase(c, b) = [c EXCEPT !.cells = new, !.op = "write"]
  BY DEF BlockErase
<1> HIDE DEF new
<1>4. /\ BlockErase(c, b) \in ChipType /\ BlockErase(c, b).op = "write"
      /\ BlockErase(c, b).cells = new
      /\ BlockErase(c, b).kind = c.kind /\ BlockErase(c, b).wel = c.wel
      /\ BlockErase(c, b).locked = c.locked /\ BlockErase(c, b).open = c.open
      /\ BlockErase(c, b).reg = c.reg
  BY <1>2, <1>3
<1>5. QED
  BY <1>4 DEF new

LEMMA Rested ==
  ASSUME NEW c \in ChipType
  PROVE  LET n == Ready(c)
         IN /\ n \in ChipType /\ n.cells = c.cells /\ n.op = "idle" /\ n.reg = c.reg
            /\ n.kind = c.kind /\ n.locked = c.locked /\ n.open = c.open
            /\ n.wel = (c.wel /\ c.op # "write")
BY DEF Ready

(* Taking the protection off changes nothing else. *)
LEMMA UnlockOnly ==
  ASSUME NEW c \in ChipType, c.op = "idle"
  PROVE  LET n == Unlock(c)
         IN n \in ChipType /\ n.cells = c.cells /\ n.op = c.op /\ n.wel = c.wel
<1>1. ASSUME NEW d \in ChipType
      PROVE  LET n == SetStatusReg1(d)
             IN n \in ChipType /\ n.cells = d.cells /\ n.op = d.op /\ n.wel = d.wel
  BY DEF SetStatusReg1
<1>2. ASSUME NEW d \in ChipType, NEW open \in BOOLEAN
      PROVE  LET n == SetStatusReg2(d, open)
             IN n \in ChipType /\ n.cells = d.cells /\ n.op = d.op /\ n.wel = d.wel
  BY DEF SetStatusReg2
<1> DEFINE n1 == SetStatusReg2(c, TRUE)
           n2 == SetStatusReg1(n1)
           n3 == SetStatusReg2(n2, FALSE)
<1>3. n1 \in ChipType /\ n1.cells = c.cells /\ n1.op = c.op /\ n1.wel = c.wel
  BY <1>2
<1>4. n2 \in ChipType /\ n2.cells = c.cells /\ n2.op = c.op /\ n2.wel = c.wel
  <2> HIDE DEF n1
  <2>1. QED
    BY <1>1, <1>3
<1>5. n3 \in ChipType /\ n3.cells = c.cells /\ n3.op = c.op /\ n3.wel = c.wel
  <2> HIDE DEF n2
  <2>1. QED
    BY <1>2, <1>4
<1>6. CASE c.kind.gated
  BY <1>5, <1>6, Zenon DEF Unlock
<1>7. CASE ~c.kind.gated
  BY <1>1, <1>7, Zenon DEF Unlock
<1>8. QED
  BY <1>6, <1>7

(* Opened first where it has to be, a chip is unprotected in the end. *)
LEMMA Unlocks ==
  ASSUME NEW c \in ChipType, c.op = "idle", c.open = ~c.kind.gated
  PROVE  LET n == Unlock(c)
         IN /\ n \in ChipType /\ n.cells = c.cells /\ n.op = c.op /\ n.reg = c.reg
            /\ n.kind = c.kind /\ n.wel = c.wel /\ ~n.locked /\ n.open = c.open
<1>1. c.kind.gated \in BOOLEAN
  BY SizeFacts
<1>2. CASE c.kind.gated
  <2> DEFINE n1 == [c EXCEPT !.open = TRUE]
             n2 == [n1 EXCEPT !.locked = FALSE]
  <2>1. n1 \in ChipType /\ n1.op = "idle" /\ n1.open
    OBVIOUS
  <2>2. n2 \in ChipType /\ n2.op = "idle"
    OBVIOUS
  <2>3. Unlock(c) = [n2 EXCEPT !.open = FALSE]
    BY <1>2, <2>1, <2>2 DEF Unlock, SetStatusReg1, SetStatusReg2, OIP
  <2>4. QED
    BY <1>2, <2>3
<1>3. CASE ~c.kind.gated
  BY <1>3 DEF Unlock, SetStatusReg1, OIP
<1>4. QED
  BY <1>1, <1>2, <1>3

-----------------------------------------------------------------------------
(* Calls and what they are still to change.                                *)

LEMMA FlashFacts ==
  /\ NBlocks * BlockLen \in Nat \ {0}
  /\ Flash = 0 .. NBlocks * BlockLen - 1
<1>1. NBlocks \in Nat \ {0} /\ BlockLen \in Nat \ {0}
  BY SizeFacts
<1>2. NBlocks * BlockLen \in Nat /\ NBlocks * BlockLen > 0
  BY <1>1
<1>3. QED
  BY <1>2 DEF Flash

LEMMA CallFacts ==
  ASSUME NEW r \in Calls
  PROVE  /\ r \in Call /\ r.op \in DirectOps \cup MtdOps
         /\ r.addr \in Flash /\ r.len \in 1 .. NBlocks * BlockLen /\ r.addr \in Nat /\ r.len \in Nat
         /\ ByPage(r.op) => r.len = PageSize /\ r.addr % PageSize = 0
         /\ r.op \in {"read", "write"} => r.len \in 1 .. Len(Text)
         /\ r.op = "mtderase" => r.len = BlockLen
         /\ ~ByPage(r.op) /\ ~Unaligned(r) => r.addr + r.len - 1 \in Flash
<1>1. r \in Call /\ Fits(r)
  BY DEF Calls
<1>2. r.op \in DirectOps \cup MtdOps /\ r.addr \in Flash /\ r.len \in 1 .. NBlocks * BlockLen
  BY <1>1 DEF Call
<1>3. r.addr \in Nat /\ r.len \in Nat
  BY <1>2, FlashFacts
<1>4. ByPage(r.op) => r.len = PageSize /\ r.addr % PageSize = 0
  BY <1>1 DEF Fits, ByPage, DirectOps, MtdOps
<1>direct. r.op \in DirectOps =>
        /\ r.addr \in Starts /\ r.len \in Lengths
        /\ \/ r.addr + (IF Erases(r.op) THEN Blocks(r) * BlockLen ELSE r.len) - 1 \in Flash
           \/ Unaligned(r)
  <2> HIDE DEF Blocks, BlockLen, Flash, Unaligned, Erases
  <2>1. ASSUME r.op \in DirectOps
        PROVE  ~(r.op = "mtderase") /\ ~ByPage(r.op)
    BY <2>1 DEF ByPage, DirectOps, MtdOps
  <2>2. QED
    BY <1>1, <2>1, Zenon DEF Fits
<1>5. r.op \in {"read", "write"} =>
        r.len \in 1 .. Len(Text) /\ r.addr + r.len - 1 \in Flash
  <2>1. SUFFICES ASSUME r.op \in {"read", "write"}
                 PROVE  r.len \in 1 .. Len(Text) /\ r.addr + r.len - 1 \in Flash
    OBVIOUS
  <2>2. r.op \in DirectOps /\ ~Erases(r.op) /\ ~Unaligned(r)
    BY <2>1 DEF DirectOps, Unaligned, Erases
  <2>3. QED
    BY <1>direct, <2>2, NandMtdAssumption, Zenon
<1>6. r.op = "mtderase" => r.len = BlockLen /\ ~Unaligned(r)
  BY <1>1 DEF Fits, ByPage, DirectOps, MtdOps
<1>7. PICK L \in Nat \ {0} : L = BlockLen
  BY SizeFacts
<1>8. PICK T \in Nat \ {0} : T = NBlocks * BlockLen
  BY FlashFacts
<1>9. ASSUME r.op = "mtderase" PROVE r.addr + r.len - 1 \in Flash
  <2>1. r.addr % L = 0 /\ r.len = L
    BY <1>6, <1>7, <1>9 DEF Unaligned, Erases
  <2>2. PICK q \in Nat : q = r.addr \div L
    BY <1>3, <1>7, DivMod, Zenon
  <2>3. r.addr = L * q
    <3>1. r.addr = L * q + (r.addr % L)
      BY <1>3, <1>7, <2>2, DivMod, Zenon
    <3>2. QED
      BY <2>1, <2>2, <3>1
  <2>4. q < NBlocks
    <3>1. SUFFICES ASSUME q >= NBlocks PROVE FALSE
      BY SizeFacts
    <3>2. L * q >= L * NBlocks
      BY <3>1, SizeFacts
    <3>3. L * NBlocks = T
      BY <1>7, <1>8, SizeFacts
    <3>4. QED
      BY <1>2, <1>8, <2>3, <3>2, <3>3, FlashFacts
  <2>5. L * q + L = L * (q + 1) /\ L * (q + 1) <= L * NBlocks
    BY <2>4, SizeFacts
  <2>6. L * NBlocks = T
    BY <1>7, <1>8, SizeFacts
  <2>7. r.addr + r.len <= T
    BY <2>1, <2>3, <2>5, <2>6
  <2>8. QED
    BY <1>2, <1>3, <1>8, <2>7, FlashFacts
<1>10. ASSUME r.op = "erase", ~Unaligned(r) PROVE r.addr + r.len - 1 \in Flash
  <2>1. r.addr + Blocks(r) * BlockLen - 1 \in Flash
    <3>1. r.op \in DirectOps /\ Erases(r.op)
      BY <1>10 DEF DirectOps, Erases
    <3>2. QED
      BY <1>direct, <1>10, <3>1, Zenon
  <2>1x. PICK x \in Nat : x = r.len + L - 1
    BY <1>3, <1>7
  <2>2. PICK q \in Nat : q = x \div L
    BY <1>7, DivMod, Zenon
  <2>3. PICK m \in 0 .. L - 1 : x = L * q + m
    BY <1>7, <2>2, DivMod, Zenon
  <2>4. PICK n \in Nat : n = L * q /\ n = Blocks(r) * BlockLen
    BY <1>7, <2>1x, <2>2 DEF Blocks
  <2>5. r.len <= n
    BY <1>3, <1>7, <2>1x, <2>3, <2>4, RoundUp
  <2>6. r.addr + n - 1 \in Flash
    BY <2>1, <2>4
  <2>7. QED
    BY <1>2, <1>3, <1>8, <2>5, <2>6, FlashFacts
<1>11. QED
  BY <1>1, <1>2, <1>3, <1>4, <1>5, <1>6, <1>9, <1>10 DEF DirectOps, MtdOps, ByPage

(* Where a call that goes from page to page stands. *)
LEMMA PosFacts ==
  ASSUME NEW r \in Calls, NEW n \in Nat, n > 0, n <= r.len, ~ByPage(r.op), ~Unaligned(r)
  PROVE  LET pos == r.addr + r.len - n
         IN pos \in Flash /\ pos \in Nat /\ pos \div PageSize \in PageNumbers
            /\ pos % PageSize \in 0 .. PageSize - 1
<1>1. r.addr + r.len - 1 \in Flash /\ r.addr \in Flash /\ r.addr \in Nat /\ r.len \in Nat
  BY CallFacts
<1>2. PICK T \in Nat \ {0} : T = NBlocks * BlockLen
  BY FlashFacts
<1>3. PICK pos \in 0 .. T - 1 : pos = r.addr + r.len - n
  BY <1>1, <1>2, FlashFacts
<1>4. pos \div PageSize \in PageNumbers /\ pos % PageSize \in 0 .. PageSize - 1
  BY <1>2, <1>3, PageOf
<1>5. QED
  BY <1>2, <1>3, <1>4, FlashFacts

LEMMA RowFacts ==
  ASSUME NEW r \in Calls
  PROVE  r.addr \div PageSize \in PageNumbers
BY CallFacts, FlashFacts, PageOf

LEMMA FilledIs ==
  ASSUME NEW r \in Calls
  PROVE  /\ r.op = "write" => Filled[r] = {CellAt(r.addr + k - 1) : k \in 1 .. r.len}
         /\ r.op = "mtdwrite" => Filled[r] = {<<r.addr \div PageSize, k>> : k \in Columns}
         /\ r.op = "mtdwriteoob" => Filled[r] = {<<r.addr \div PageSize, Spare>>}
<1>1. Filled[r] = {PutOf(r)[k][1] : k \in DOMAIN PutOf(r)}
  BY DEF Filled
<1>2. ASSUME r.op = "write"
      PROVE  Filled[r] = {CellAt(r.addr + k - 1) : k \in 1 .. r.len}
  <2>1. PutOf(r) = [k \in 1 .. r.len |-> <<CellAt(r.addr + k - 1), Text[k]>>]
    <3>1. r.op # "mtdwrite" /\ r.op # "mtdwriteoob" /\ ~Erases(r.op)
      BY <1>2 DEF Erases
    <3>2. QED
      BY <1>2, <3>1, Zenon DEF PutOf
  <2>2. QED
    BY <1>1, <2>1
<1>3. ASSUME r.op = "mtdwrite"
      PROVE  Filled[r] = {<<r.addr \div PageSize, k>> : k \in Columns}
  <2>1. PutOf(r) = [k \in Columns |-> <<<<r.addr \div PageSize, k>>, Text[k]>>]
    <3>1. r.op # "write" /\ r.op # "mtdwriteoob" /\ ~Erases(r.op)
      BY <1>3 DEF Erases
    <3>2. QED
      BY <1>3, <3>1, Zenon DEF PutOf
  <2>2. QED
    BY <1>1, <2>1
<1>4. ASSUME r.op = "mtdwriteoob"
      PROVE  Filled[r] = {<<r.addr \div PageSize, Spare>>}
  <2>1. PutOf(r) = <<<<<<r.addr \div PageSize, Spare>>, Text[1]>>>>
    <3>1. r.op # "write" /\ r.op # "mtdwrite" /\ ~Erases(r.op)
      BY <1>4 DEF Erases
    <3>2. QED
      BY <1>4, <3>1, Zenon DEF PutOf
  <2>2. QED
    BY <1>1, <2>1
<1>5. QED
  BY <1>2, <1>3, <1>4

LEMMA OwedIs ==
  ASSUME NEW r, NEW l, NEW n, NEW d
  PROVE  LET done == l \in {"wait", "wrdi"}
             page == done \/ l \in {"leave", "waitfunc", "return"}
         IN /\ r.op = "write" =>
                 OwedOf(r, l, n, d) =
                   {CellAt(a) : a \in r.addr + r.len - n + (IF done THEN d ELSE 0)
                                        .. r.addr + r.len - 1}
            /\ r.op = "mtdwrite" =>
                 OwedOf(r, l, n, d) =
                   IF page THEN {} ELSE {<<r.addr \div PageSize, k>> : k \in Columns}
            /\ r.op = "mtdwriteoob" =>
                 OwedOf(r, l, n, d) = IF page THEN {} ELSE {<<r.addr \div PageSize, Spare>>}
            /\ ~Programs(r.op) => OwedOf(r, l, n, d) = {}
            /\ ~done => OwedOf(r, l, n, d) = OwedOf(r, l, n, 0)
BY Zenon DEF OwedOf, Programs

(* What a call owes is among what it fills. *)
LEMMA OwedInFilled ==
  ASSUME NEW r \in Calls, NEW l, NEW n \in Nat, NEW d \in Nat,
         ~ByPage(r.op) => n <= r.len
  PROVE  Programs(r.op) => OwedOf(r, l, n, d) \subseteq Filled[r]
<1>1. ASSUME r.op = "write", NEW c \in OwedOf(r, l, n, d) PROVE c \in Filled[r]
  <2>1. PICK a \in r.addr + r.len - n + (IF l \in {"wait", "wrdi"} THEN d ELSE 0)
                     .. r.addr + r.len - 1 : c = CellAt(a)
    BY <1>1, OwedIs
  <2>2. r.addr \in Nat /\ r.len \in Nat /\ n <= r.len
    BY <1>1, CallFacts DEF ByPage, MtdOps
  <2>3. a - r.addr + 1 \in 1 .. r.len /\ r.addr + (a - r.addr + 1) - 1 = a
    BY <2>2
  <2>4. c \in {CellAt(r.addr + k - 1) : k \in 1 .. r.len}
    BY <2>1, <2>3
  <2>5. QED
    BY <1>1, <2>4, FilledIs
<1>2. ASSUME r.op \in {"mtdwrite", "mtdwriteoob"}
      PROVE  OwedOf(r, l, n, d) \subseteq Filled[r]
  BY <1>2, OwedIs, FilledIs
<1>3. QED
  BY <1>1, <1>2 DEF Programs

-----------------------------------------------------------------------------
(* A page is laid over what the chip holds.                                *)

LEMMA WriteLenIs ==
  ASSUME NEW off \in 0 .. PageSize - 1, NEW n \in Nat, n > 0
  PROVE  LET w == WriteLen(off, n)
         IN w \in Nat /\ w > 0 /\ w <= n /\ off + w <= PageSize
BY SizeFacts DEF WriteLen

LEMMA ReadLenIs ==
  ASSUME NEW off \in 0 .. PageSize - 1, NEW n \in Nat, n > 0
  PROVE  LET w == ReadLen(off, n)
         IN w \in Nat /\ w > 0 /\ w <= n /\ off + w <= PageSize
BY SizeFacts DEF ReadLen

LEMMA AndFacts ==
  ASSUME NEW x, NEW y
  PROVE  And(x, x) = x /\ And(Blank, y) = y /\ And(x, Blank) = x
BY DEF And

(* The spare cell that a write lays over the old one. *)
LEMMA OverlaidIs ==
  ASSUME Types, NEW s \in PageType, NEW k \in Columns
  PROVE  /\ k = Spare => Overlaid(s)[k] = And(s[k], piece.oob)
         /\ k # Spare /\ k - piece.off \in 1 .. Len(piece.data) =>
              Overlaid(s)[k] = piece.data[k - piece.off] /\ Overlaid(s)[k] \in Val
         /\ k # Spare /\ k - piece.off \notin 1 .. Len(piece.data) => Overlaid(s)[k] = s[k]
<1>1. piece.data \in Seq(Val) /\ DOMAIN piece.data = 1 .. Len(piece.data)
  BY DEF Types
<1>2. QED
  BY <1>1 DEF Overlaid

LEMMA WriteChanges ==
  ASSUME Types, NEW u \in party, at[u] = "exec", req[u] # Idle,
         Control(u), Progress(u), PieceIs(u), OwedBlank(u)
  PROVE  LET p == piece.page
             s == chip.cells[p]
             o == Overlaid(s)
             after == OwedOf(req[u], "wait", left[u], Len(piece.data))
         IN /\ o \in PageType
            /\ \A k \in Columns :
                 And(s[k], o[k]) = o[k] /\ (o[k] # s[k] => <<p, k>> \in Owed(u) \ after)
            /\ after \subseteq Owed(u)
<1> DEFINE p == piece.page
           s == chip.cells[p]
           o == Overlaid(s)
           r == req[u]
           n == left[u]
           d == Len(piece.data)
           after == OwedOf(r, "wait", n, d)
<1>1. /\ u \in AllUsers /\ r \in Calls /\ n \in Nat /\ p \in PageNumbers /\ s \in PageType
      /\ piece.oob \in Val /\ piece.data \in Seq(Val) /\ d \in Nat
  BY PartyFacts, FlashFacts DEF Types
<1>2. Programs(r.op)
  BY DEF Control
<1>3. at[u] \in Inside \ {"next", "leave"} /\ ~Unaligned(r)
  BY DEF Control, Inside
<1>4. \A k \in Columns : s[k] \in Val
  BY <1>1 DEF PageType
<1>5. Owed(u) = OwedOf(r, "exec", n, d)
  BY DEF Owed
<1>6. \A k \in Columns : <<p, k>> \in Owed(u) => s[k] = Blank
  BY DEF OwedBlank
<1> HIDE DEF p, r, n, d
<1>7. ASSUME r.op = "write", NEW k \in Columns, k # Spare,
             k - piece.off \in 1 .. d
      PROVE  <<p, k>> \in Owed(u) \ after
  <2>1. ~ByPage(r.op) /\ n > 0 /\ n <= r.len
    BY <1>1, <1>3, <1>7 DEF Progress, ByPage, MtdOps, r, n
  <2>2. r.addr + r.len - n \in Nat /\ r.addr \in Nat /\ r.len \in Nat
    BY <1>1, <2>1, CallFacts
  <2>3. PICK pos \in Nat : pos = r.addr + r.len - n
    BY <2>2
  <2>4. p = pos \div PageSize /\ piece.off = pos % PageSize /\ d = WriteLen(piece.off, n)
    BY <1>3, <1>7, <2>3 DEF PieceIs, Pos, p, r, n, d
  <2>5. piece.off \in 0 .. PageSize - 1
    BY <2>3, <2>4, DivMod, SizeFacts, Zenon
  <2>6. d <= n /\ piece.off + d <= PageSize
    BY <1>1, <2>1, <2>4, <2>5, WriteLenIs, Zenon
  <2>7. PICK j \in 0 .. d - 1 : k = piece.off + j + 1
    <3>1. k \in Int /\ piece.off \in Int /\ d \in Nat
      BY <1>1, <2>5, SizeFacts
    <3>2. k - piece.off - 1 \in 0 .. d - 1 /\ k = piece.off + (k - piece.off - 1) + 1
      BY <1>7, <3>1, ShiftIn
    <3>3. QED
      BY <3>2
  <2>8. (pos % PageSize) + j < PageSize /\ j \in Nat
    <3>1. piece.off \in Nat /\ PageSize \in Nat /\ d \in Nat
      BY <1>1, <2>5, SizeFacts
    <3>2. piece.off + j < PageSize /\ j \in Nat
      BY <2>6, <2>7, <3>1, PieceInPage
    <3>3. QED
      BY <2>4, <3>2
  <2>9. CellAt(pos + j) = <<p, k>>
    BY <2>3, <2>4, <2>7, <2>8, CellIs
  <2>10. pos + j \in Nat /\ pos + j <= r.addr + r.len - 1 /\ pos + j < pos + d
    BY <1>1, <2>1, <2>2, <2>3, <2>6, <2>7, PieceInCall
  <2>11. <<p, k>> \in Owed(u)
    <3>1. Owed(u) = {CellAt(a) : a \in pos + 0 .. r.addr + r.len - 1}
      BY <1>5, <1>7, <2>3, OwedIs
    <3>2. pos + j \in pos + 0 .. r.addr + r.len - 1
      BY <2>2, <2>10, <2>7
    <3>3. QED
      BY <2>9, <3>1, <3>2
  <2>12. <<p, k>> \notin after
    <3>1. after = {CellAt(a) : a \in pos + d .. r.addr + r.len - 1}
      BY <1>7, <2>3, OwedIs
    <3>2. SUFFICES ASSUME NEW a \in pos + d .. r.addr + r.len - 1, CellAt(a) = CellAt(pos + j)
                   PROVE  FALSE
      BY <2>9, <3>1
    <3>3. a \in Nat
      BY <1>1, <2>2, <2>3
    <3>4. a = pos + j
      BY <2>10, <3>2, <3>3, CellsApart
    <3>5. QED
      BY <1>1, <2>2, <2>10, <3>2, <3>4
  <2>13. QED
    BY <2>11, <2>12
<1>8. ASSUME r.op \in {"mtdwrite", "mtdwriteoob"}
      PROVE  /\ after = {} /\ <<p, Spare>> \in Owed(u)
             /\ r.op = "mtdwrite" => \A k \in Columns : <<p, k>> \in Owed(u)
             /\ r.op = "mtdwriteoob" => d = 0
  <2>1. p = r.addr \div PageSize /\ (r.op = "mtdwriteoob" => piece.data = <<>>)
    BY <1>3, <1>8 DEF PieceIs, Row, p, r
  <2>2. after = {}
    BY <1>8, OwedIs
  <2>3. Owed(u) = IF r.op = "mtdwrite" THEN {<<p, k>> : k \in Columns} ELSE {<<p, Spare>>}
    BY <1>5, <1>8, <2>1, OwedIs
  <2>4. QED
    BY <1>8, <2>1, <2>2, <2>3, SizeFacts DEF d
<1>9. r.op = "write" => piece.oob = Blank
  BY <1>3 DEF PieceIs, r
<1>10. ASSUME NEW k \in Columns
       PROVE  o[k] \in Val /\ And(s[k], o[k]) = o[k] /\ (o[k] # s[k] => <<p, k>> \in Owed(u) \ after)
  <2>1. CASE k = Spare
    <3>1. o[k] = And(s[k], piece.oob)
      BY <1>1, <2>1, OverlaidIs
    <3>2. CASE r.op = "write"
      BY <1>4, <1>9, <3>1, <3>2, AndFacts
    <3>3. CASE r.op \in {"mtdwrite", "mtdwriteoob"}
      BY <1>1, <1>6, <1>8, <2>1, <3>1, <3>3, AndFacts
    <3>4. QED
      BY <1>2, <3>2, <3>3 DEF Programs
  <2>2. CASE k # Spare /\ k - piece.off \in 1 .. d
    <3>1. o[k] \in Val
      BY <1>1, <2>2, OverlaidIs DEF d
    <3>2. <<p, k>> \in Owed(u) \ after
      <4>1. CASE r.op = "write"
        BY <1>7, <2>2, <4>1
      <4>2. CASE r.op = "mtdwrite"
        BY <1>8, <4>2
      <4>3. CASE r.op = "mtdwriteoob"
        BY <1>1, <1>8, <2>2, <4>3
      <4>4. QED
        BY <1>2, <4>1, <4>2, <4>3 DEF Programs
    <3>3. QED
      BY <1>6, <3>1, <3>2, AndFacts
  <2>3. CASE k # Spare /\ k - piece.off \notin 1 .. d
    BY <1>1, <1>4, <2>3, OverlaidIs, AndFacts DEF d
  <2>4. QED
    BY <2>1, <2>2, <2>3
<1>11. o \in PageType
  <2>1. DOMAIN o = Columns /\ o = [k \in Columns |-> o[k]]
    BY DEF Overlaid
  <2>2. QED
    BY <1>10, <2>1 DEF PageType
<1>12. after \subseteq Owed(u)
  <2>1. CASE r.op = "write"
    <3>1. r.addr \in Nat /\ r.len \in Nat
      BY <1>1, CallFacts
    <3>2. Owed(u) = {CellAt(a) : a \in r.addr + r.len - n + 0 .. r.addr + r.len - 1}
      BY <1>5, <2>1, OwedIs
    <3>3. after = {CellAt(a) : a \in r.addr + r.len - n + d .. r.addr + r.len - 1}
      BY <2>1, OwedIs
    <3>4. r.addr + r.len - n + d .. r.addr + r.len - 1
            \subseteq r.addr + r.len - n + 0 .. r.addr + r.len - 1
      BY <1>1, <3>1
    <3>5. QED
      BY <3>2, <3>3, <3>4
  <2>2. QED
    BY <1>2, <1>8, <2>1 DEF Programs
<1>13. QED
  BY <1>10, <1>11, <1>12 DEF p, r, n, d

-----------------------------------------------------------------------------
(* What a step leaves alone.                                               *)

LEMMA AskedIsRequest ==
  ASSUME NEW r \in Calls
  PROVE  Asked(r) \in Request
<1> DEFINE Put == (Nat \X Nat) \X (Range(Text) \cup {Blank})
           Get == Nat \X Nat
<1>1. /\ r.op \in DirectOps \cup MtdOps /\ r.addr \in Nat /\ r.len \in Nat
      /\ r.op = "write" => r.len <= Len(Text)
      /\ r.addr \div PageSize \in Nat
  BY CallFacts, RowFacts, SizeFacts
<1>2. \A a \in Nat : CellAt(a) \in Get
  <2>1. SUFFICES ASSUME NEW a \in Nat PROVE CellAt(a) \in Get
    OBVIOUS
  <2>2. a \div PageSize \in Nat /\ a % PageSize \in 0 .. PageSize - 1
    BY DivMod, SizeFacts, Zenon
  <2>3. QED
    BY <2>2, SizeFacts DEF CellAt
<1>3. \A k \in 1 .. Len(Text) : Text[k] \in Range(Text) \cup {Blank}
  BY TextFacts DEF Val
<1>4. Columns \subseteq Nat /\ Columns = 1 .. PageSize + 1 /\ Spare \in Nat
      /\ PageSize \in Nat \ {0} /\ Len(Text) \in Nat /\ Len(Text) > PageSize
  BY SizeFacts, TextFacts
<1>5. PutOf(r) \in Seq(Put)
  <2>1. CASE r.op = "write"
    <3>1. PutOf(r) = [k \in 1 .. r.len |-> <<CellAt(r.addr + k - 1), Text[k]>>]
      <4>1. r.op # "mtdwrite" /\ r.op # "mtdwriteoob" /\ ~Erases(r.op)
        BY <2>1 DEF Erases
      <4>2. QED
        BY <2>1, <4>1, Zenon DEF PutOf
    <3>2. \A k \in 1 .. r.len : <<CellAt(r.addr + k - 1), Text[k]>> \in Put
      <4>1. SUFFICES ASSUME NEW k \in 1 .. r.len
                     PROVE  <<CellAt(r.addr + k - 1), Text[k]>> \in Put
        OBVIOUS
      <4>2. PICK a \in Nat : a = r.addr + k - 1
        BY <1>1
      <4>3. k \in 1 .. Len(Text)
        BY <1>1, <1>4, <2>1
      <4>4. CellAt(a) \in Get /\ Text[k] \in Range(Text) \cup {Blank}
        BY <1>2, <1>3, <4>3, Zenon
      <4>5. <<CellAt(a), Text[k]>> \in Put
        BY <4>4
      <4>6. QED
        BY <4>2, <4>5, Zenon
    <3>3. QED
      BY <1>1, <3>1, <3>2
  <2>2. CASE r.op = "mtdwrite"
    <3>1. PutOf(r) = [k \in Columns |-> <<<<r.addr \div PageSize, k>>, Text[k]>>]
      <4>1. r.op # "write" /\ r.op # "mtdwriteoob" /\ ~Erases(r.op)
        BY <2>2 DEF Erases
      <4>2. QED
        BY <2>2, <4>1, Zenon DEF PutOf
    <3>2. \A k \in Columns : <<<<r.addr \div PageSize, k>>, Text[k]>> \in Put
      <4>1. Columns \subseteq 1 .. Len(Text)
        BY <1>4
      <4>2. QED
        BY <1>1, <1>3, <1>4, <4>1
    <3>3. QED
      BY <1>4, <3>1, <3>2
  <2>3. CASE r.op = "mtdwriteoob"
    <3>1. PutOf(r) = <<<<<<r.addr \div PageSize, Spare>>, Text[1]>>>>
      <4>1. r.op # "write" /\ r.op # "mtdwrite" /\ ~Erases(r.op)
        BY <2>3 DEF Erases
      <4>2. QED
        BY <2>3, <4>1, Zenon DEF PutOf
    <3>2. <<<<r.addr \div PageSize, Spare>>, Text[1]>> \in Put
      BY <1>1, <1>3, <1>4
    <3>3. QED
      BY <3>1, <3>2
  <2>4. CASE Erases(r.op) /\ ~Unaligned(r)
    <3> DEFINE w == PageSize + 1
               m == Blocks(r) * PagesPerBlock * w
    <3>1. PutOf(r) = [k \in 1 .. m |->
             <<<<r.addr \div PageSize + ((k - 1) \div w), ((k - 1) % w) + 1>>, Blank>>]
      <4>1. r.op # "write" /\ r.op # "mtdwrite" /\ r.op # "mtdwriteoob"
        BY <2>4 DEF Erases
      <4>2. QED
        BY <2>4, <4>1, Zenon DEF PutOf
    <3>2. w \in Nat \ {0} /\ m \in Nat
      <4>1. Blocks(r) \in Nat
        <5>1. r.len + BlockLen - 1 \in Nat
          BY <1>1, SizeFacts
        <5>2. QED
          BY <5>1, DivMod, SizeFacts, Zenon DEF Blocks
      <4>2. Blocks(r) * PagesPerBlock \in Nat
        BY <4>1, SizeFacts
      <4>3. w \in Nat \ {0}
        BY SizeFacts
      <4>4. PICK x \in Nat : x = Blocks(r) * PagesPerBlock
        BY <4>2
      <4>5. QED
        BY <4>3, <4>4
    <3> HIDE DEF w, m
    <3>3. \A k \in 1 .. m :
            <<<<r.addr \div PageSize + ((k - 1) \div w), ((k - 1) % w) + 1>>, Blank>> \in Put
      <4>1. SUFFICES ASSUME NEW k \in 1 .. m
                     PROVE  <<<<r.addr \div PageSize + ((k - 1) \div w), ((k - 1) % w) + 1>>, Blank>>
                              \in Put
        OBVIOUS
      <4>2. k - 1 \in Nat
        BY <3>2
      <4>3. (k - 1) \div w \in Nat /\ (k - 1) % w \in 0 .. w - 1
        BY <3>2, <4>2, DivMod, Zenon
      <4>4. QED
        BY <1>1, <3>2, <4>3
    <3> HIDE DEF Put
    <3>4. \A s \in [1 .. m -> Put] : s \in Seq(Put)
      BY <3>2
    <3>5. PutOf(r) \in [1 .. m -> Put]
      BY <3>1, <3>3
    <3>6. QED
      BY <3>4, <3>5
  <2>5. CASE ~Programs(r.op) /\ ~(Erases(r.op) /\ ~Unaligned(r))
    <3>1. PutOf(r) = <<>>
      BY <2>5 DEF PutOf, Programs
    <3>2. QED
      BY <3>1
  <2>6. QED
    BY <2>1, <2>2, <2>3, <2>4, <2>5 DEF Programs
<1>6. GetOf(r) \in Seq(Get)
  <2>1. CASE r.op = "read"
    <3>1. GetOf(r) = [k \in 1 .. r.len |-> CellAt(r.addr + k - 1)]
      BY <2>1 DEF GetOf
    <3>2. PICK n \in Nat : n = r.len
      BY <1>1
    <3>3. \A k \in 1 .. n : CellAt(r.addr + k - 1) \in Get
      <4>1. TAKE k \in 1 .. n
      <4>2. PICK a \in Nat : a = r.addr + k - 1
        BY <1>1, <3>2
      <4>3. QED
        BY <1>2, <4>2, Zenon
    <3>4. [k \in 1 .. n |-> CellAt(r.addr + k - 1)] \in Seq(Get)
      BY <3>2, <3>3
    <3>5. QED
      BY <3>1, <3>2, <3>4
  <2>2. CASE r.op = "mtdread"
    <3>1. GetOf(r) = [k \in Columns |-> <<r.addr \div PageSize, k>>]
      BY <2>2 DEF GetOf, PageCells
    <3>2. QED
      BY <1>1, <1>4, <3>1
  <2>3. CASE r.op = "mtdreadoob"
    <3>1. GetOf(r) = <<<<r.addr \div PageSize, Spare>>>>
      BY <2>3 DEF GetOf
    <3>2. QED
      BY <1>1, <1>4, <3>1
  <2>4. CASE ~Reads(r.op)
    BY <2>4 DEF GetOf, Reads
  <2>5. QED
    BY <2>1, <2>2, <2>3, <2>4 DEF Reads
<1>7. QED
  BY <1>5, <1>6 DEF Asked, Request

(* A user that a step is not of. *)
LEMMA Others ==
  ASSUME IInv, NEW v \in AllUsers,
         at'[v] = at[v], req'[v] = req[v], left'[v] = left[v], todo'[v] = todo[v],
         lock' = v <=> lock = v,
         piece' = piece \/ at[v] \notin Inside
  PROVE  /\ Control(v)'
         /\ v \in party => Progress(v)' /\ PieceIs(v)'
         /\ Owed(v)' = Owed(v)
<1>1. Control(v) /\ (v \in party => Progress(v) /\ PieceIs(v))
  BY DEF IInv
<1>2. Control(v)'
  BY <1>1 DEF Control
<1>3. v \in party => Progress(v)'
  BY <1>1 DEF Progress
<1>4. v \in party => PieceIs(v)'
  BY <1>1 DEF PieceIs, Pos, Row
<1>5. Owed(v)' = Owed(v)
  <2>1. CASE piece' = piece
    BY <2>1 DEF Owed
  <2>2. CASE at[v] \notin Inside
    <3>1. ~(at[v] \in {"wait", "wrdi"})
      BY <2>2 DEF Inside
    <3>2. \A d : OwedOf(req[v], at[v], left[v], d) = OwedOf(req[v], at[v], left[v], 0)
      BY <3>1, OwedIs
    <3>3. QED
      BY <3>2 DEF Owed
  <2>3. QED
    BY <2>1, <2>2
<1>6. QED
  BY <1>2, <1>3, <1>4, <1>5

(* The user that holds the lock. *)
LEMMA HolderHas ==
  ASSUME IInv, NEW u \in party, at[u] \in Inside
  PROVE  /\ Types /\ u \in AllUsers /\ lock = u /\ ~chip.locked
         /\ req[u] \in Calls /\ req[u] # Idle /\ todo[u] \in Request /\ todo[u] # Idle
         /\ Control(u) /\ Progress(u) /\ PieceIs(u) /\ OwedBlank(u) /\ Held(u)
         /\ left[u] \in Nat /\ piece.page \in PageNumbers /\ chip.cells[piece.page] \in PageType
         /\ \A v \in AllUsers : v # u => at[v] \notin Inside
<1>1. Types /\ \A v \in AllUsers : Control(v)
  BY DEF IInv
<1>2. u \in AllUsers
  BY <1>1, PartyFacts
<1>3. lock = u /\ \A v \in AllUsers : v # u => at[v] \notin Inside
  BY <1>1, <1>2 DEF Control
<1>4. at[u] \notin Before /\ at[u] \notin {"probe", "unlock"}
  BY DEF Inside, Before
<1>5. req[u] \in Calls /\ req[u] # Idle /\ todo[u] \in Request /\ todo[u] # Idle
  BY <1>1, <1>2, <1>4 DEF Control, Types
<1>6. ~chip.locked
  BY <1>2, <1>4 DEF IInv, SetUp
<1>7. left[u] \in Nat /\ piece.page \in PageNumbers /\ chip.cells[piece.page] \in PageType
  BY <1>1, <1>2, FlashFacts DEF Types
<1>8. QED
  BY <1>1, <1>2, <1>3, <1>5, <1>6, <1>7 DEF IInv

LEMMA HolderStep ==
  ASSUME IInv, NEW u \in party, NEW l \in Inside, at[u] \in Inside,
         at' = [at EXCEPT ![u] = l],
         party' = party, req' = req, lock' = lock, state' = state,
         chip' \in ChipType, bit' \in {0, 1}, cache' \in CacheType, piece' \in PieceType,
         left' \in [AllUsers -> 0 .. NBlocks * BlockLen],
         todo' \in [AllUsers -> Request \cup {Idle}],
         \A v \in AllUsers : v # u => left'[v] = left[v] /\ todo'[v] = todo[v],
         chip'.kind = chip.kind, chip'.open = chip.open, chip'.locked = chip.locked,
         Control(u)', Progress(u)', PieceIs(u)', Held(u)',
         \A v \in party : OwedBlank(v)'
  PROVE  IInv'
<1>1. /\ Types /\ u \in AllUsers /\ lock = u /\ ~chip.locked
      /\ \A v \in AllUsers : v # u => at[v] \notin Inside
  BY HolderHas
<1>2. at' \in [AllUsers -> Before \cup {"enter"} \cup Inside \cup MtdOnly]
  BY <1>1 DEF Types
<1>3. at'[u] = l /\ \A v \in AllUsers : v # u => at'[v] = at[v]
  BY <1>1 DEF Types
<1>4. Types'
  BY <1>1, <1>2 DEF Types
<1>5. \A v \in AllUsers : v # u => Control(v)' /\ (v \in party => Progress(v)' /\ PieceIs(v)')
  <2>1. SUFFICES ASSUME NEW v \in AllUsers, v # u
                 PROVE  Control(v)' /\ (v \in party => Progress(v)' /\ PieceIs(v)')
    OBVIOUS
  <2>2. at'[v] = at[v] /\ req'[v] = req[v] /\ left'[v] = left[v] /\ todo'[v] = todo[v]
        /\ at[v] \notin Inside
    BY <1>1, <1>3, <2>1
  <2>3. QED
    BY <2>2, Others
<1>6. \A v \in AllUsers : Control(v)'
  BY <1>5
<1>7. \A v \in party' : Progress(v)' /\ PieceIs(v)' /\ OwedBlank(v)' /\ (lock' = v => Held(v)')
  BY <1>1, <1>5, PartyFacts
<1>8. lock' # Nobody
  BY <1>1, PartyFacts
<1>9. (Mtd \in party => Collected)'
  <2>1. SUFFICES ASSUME Mtd \in party PROVE Collected'
    OBVIOUS
  <2>2. u = Mtd
    BY <1>1, <2>1, PartyFacts
  <2>3. at'[Mtd] = l /\ l \notin {"data", "pageprog", "enter"}
    BY <1>3, <2>2 DEF Inside
  <2>4. QED
    BY <2>3 DEF Collected
<1>10. SetUp'
  <2>1. l \notin {"probe", "unlock"}
    BY DEF Inside
  <2>2. ASSUME NEW v \in AllUsers, at'[v] \in {"probe", "unlock"}
        PROVE  chip'.open = ~chip'.kind.gated
    <3>1. v # u /\ at[v] \in {"probe", "unlock"}
      BY <1>3, <2>1, <2>2
    <3>2. QED
      BY <3>1 DEF IInv, SetUp
  <2>3. QED
    BY <1>1, <2>2 DEF SetUp
<1>11. Apart'
  BY DEF IInv, Apart
<1>12. QED
  BY <1>4, <1>6, <1>7, <1>8, <1>9, <1>10, <1>11, Zenon DEF IInv

(* It changes no cell, and owes no other. *)
LEMMA HolderRests ==
  ASSUME IInv, NEW u \in party, NEW l \in Inside, at[u] \in Inside,
         at' = [at EXCEPT ![u] = l],
         party' = party, req' = req, lock' = lock, state' = state, todo' = todo,
         chip' \in ChipType, bit' \in {0, 1}, cache' \in CacheType, piece' \in PieceType,
         left' \in [AllUsers -> 0 .. NBlocks * BlockLen],
         \A v \in AllUsers : v # u => left'[v] = left[v],
         chip'.kind = chip.kind, chip'.open = chip.open, chip'.locked = chip.locked,
         chip'.cells = chip.cells, Owed(u)' \subseteq Owed(u),
         Control(u)', Progress(u)', PieceIs(u)', Held(u)'
  PROVE  IInv'
<1>1. /\ Types /\ u \in AllUsers /\ lock = u
      /\ \A v \in AllUsers : v # u => at[v] \notin Inside
  BY HolderHas
<1>2. ASSUME NEW v \in party PROVE OwedBlank(v)'
  <2>1. OwedBlank(v) /\ v \in AllUsers
    BY <1>1, PartyFacts DEF IInv
  <2>2. Owed(v)' \subseteq Owed(v)
    <3>1. CASE v = u
      BY <3>1
    <3>2. CASE v # u
      <4>1. at'[v] = at[v] /\ at[v] \notin Inside
        BY <1>1, <2>1, <3>2 DEF Types
      <4>2. QED
        BY <2>1, <3>2, <4>1, Others
    <3>3. QED
      BY <3>1, <3>2
  <2>3. QED
    BY <2>1, <2>2 DEF OwedBlank
<1>3. todo' \in [AllUsers -> Request \cup {Idle}]
  BY <1>1 DEF Types
<1>4. QED
  BY <1>2, <1>3, HolderStep

(* What is owed shrinks with what is left. *)
LEMMA OwedKept ==
  ASSUME NEW r, NEW l, NEW m, NEW n, NEW d, NEW e,
         l \in {"wait", "wrdi"} <=> m \in {"wait", "wrdi"},
         l \in {"leave", "waitfunc", "return"} => m \in {"leave", "waitfunc", "return"},
         l \in {"wait", "wrdi"} => d = e
  PROVE  OwedOf(r, m, n, e) \subseteq OwedOf(r, l, n, d)
<1>1. CASE r.op = "write"
  <2>1. CASE l \in {"wait", "wrdi"}
    BY <1>1, <2>1, OwedIs
  <2>2. CASE ~(l \in {"wait", "wrdi"})
    BY <1>1, <2>2, OwedIs
  <2>3. QED
    BY <2>1, <2>2
<1>2. CASE r.op = "mtdwrite"
  BY <1>2, OwedIs
<1>3. CASE r.op = "mtdwriteoob"
  BY <1>3, OwedIs
<1>4. QED
  BY <1>1, <1>2, <1>3, OwedIs DEF Programs

(* It goes on with the same piece. *)
LEMMA HolderMoves ==
  ASSUME IInv, NEW u \in party, NEW l \in Inside \ {"next"}, at[u] \in Inside \ {"next", "leave"},
         l \in {"wait", "wrdi"} <=> at[u] \in {"wait", "wrdi"},
         at' = [at EXCEPT ![u] = l],
         party' = party, req' = req, lock' = lock, state' = state, todo' = todo,
         left' = left, piece' = piece,
         chip' \in ChipType, bit' \in {0, 1}, cache' \in CacheType,
         chip'.kind = chip.kind, chip'.open = chip.open, chip'.locked = chip.locked,
         chip'.cells = chip.cells, Control(u)', Held(u)'
  PROVE  IInv'
<1>1. Types /\ u \in AllUsers /\ Progress(u) /\ PieceIs(u)
  BY HolderHas
<1>2. at'[u] = l
  BY <1>1 DEF Types
<1>3. Progress(u)'
  BY <1>1, <1>2 DEF Progress, Inside
<1>4. PieceIs(u)'
  BY <1>1, <1>2 DEF PieceIs, Pos, Row
<1>5. Owed(u)' \subseteq Owed(u)
  <2>1. ~(at[u] \in {"leave", "waitfunc", "return"})
    BY DEF Inside
  <2>2. OwedOf(req[u], l, left[u], Len(piece.data))
          \subseteq OwedOf(req[u], at[u], left[u], Len(piece.data))
    BY <2>1, OwedKept
  <2>3. QED
    BY <1>2, <2>2 DEF Owed
<1>6. piece' \in PieceType /\ left' \in [AllUsers -> 0 .. NBlocks * BlockLen]
  BY <1>1 DEF Types
<1>7. QED
  BY <1>3, <1>4, <1>5, <1>6, HolderRests

-----------------------------------------------------------------------------
(* Under the lock.                                                         *)

LEMMA OpFacts ==
  ASSUME NEW r \in Calls
  PROVE  /\ Programs(r.op) \/ Reads(r.op) \/ Erases(r.op)
         /\ Reads(r.op) => ~Erases(r.op) /\ ~Programs(r.op)
         /\ Erases(r.op) => ~Programs(r.op) /\ ~ByPage(r.op)
         /\ Programs(r.op) /\ ~ByPage(r.op) => r.op = "write"
         /\ Reads(r.op) /\ ~ByPage(r.op) => r.op = "read"
         /\ r.op \in {"mtdwrite", "mtdwriteoob", "mtdread", "mtdreadoob"} <=> ByPage(r.op)
         /\ r.op \in {"read", "write"} => ~ByPage(r.op) /\ ~Erases(r.op)
BY CallFacts DEF Programs, Reads, Erases, ByPage, DirectOps, MtdOps

(* Where a call goes with its page in the cache. *)
LEMMA LoadedIs ==
  ASSUME IInv, NEW u \in party, at[u] \in {"load", "fetch"}
  PROVE  /\ Loaded(u) \in {"lay", "copy", "leave"}
         /\ ~Erases(req[u].op)
         /\ at' = [at EXCEPT ![u] = Loaded(u)] /\ req' = req /\ todo' = todo /\ lock' = lock
              => Control(u)'
<1>1. at[u] \in Inside
  BY DEF Inside
<1>2. Types /\ u \in AllUsers /\ lock = u /\ req[u] \in Calls /\ req[u] # Idle /\ Control(u)
  BY <1>1, HolderHas
<1>3. ~Erases(req[u].op)
  BY <1>2 DEF Control
<1>4. Loaded(u) \in {"lay", "copy", "leave"}
  BY DEF Loaded
<1>5. Loaded(u) = "lay" => Programs(req[u].op)
  BY <1>2, <1>3, OpFacts DEF Loaded
<1>6. Loaded(u) = "copy" => req[u].op = "read"
  BY <1>2, OpFacts DEF Loaded
<1>7. ASSUME at' = [at EXCEPT ![u] = Loaded(u)], req' = req, todo' = todo, lock' = lock
      PROVE  Control(u)'
  <2>1. at'[u] = Loaded(u)
    BY <1>2, <1>7 DEF Types
  <2>2. at'[u] \in Inside /\ at'[u] \notin Before
    BY <1>4, <2>1 DEF Inside, Before
  <2>3. ~Unaligned(req[u])
    BY <1>3 DEF Unaligned
  <2>4. at[u] \notin Before
    BY DEF Before
  <2>5. QED
    BY <1>2, <1>4, <1>5, <1>6, <1>7, <2>1, <2>2, <2>3, <2>4 DEF Control, MtdOnly
<1>8. QED
  BY <1>3, <1>4, <1>7

LEMMA LoadKeeps ==
  ASSUME IInv, NEW u \in party, Load(u)
  PROVE  IInv'
<1>1. at[u] = "load" /\ at[u] \in Inside
  BY DEF Load, Inside
<1>2. /\ Types /\ u \in AllUsers /\ lock = u /\ req[u] \in Calls /\ req[u] # Idle
      /\ Control(u) /\ Held(u) /\ piece.page \in PageNumbers
  BY <1>1, HolderHas
<1>3. chip.op = "idle" /\ ~chip.wel /\ DataIs /\ MapIs
  BY <1>1, <1>2 DEF Held, Steady, Cached, LaidOver, SpareBehind
<1>4. CASE cache.page = piece.page
  <2>1. at' = [at EXCEPT ![u] = Loaded(u)] /\ chip' = chip
    BY <1>4 DEF Load, Same, Goto
  <2>2. Loaded(u) \in {"lay", "copy", "leave"} /\ ~Erases(req[u].op) /\ Control(u)'
    BY <1>1, <1>4, <2>1, LoadedIs DEF Load, Same, history
  <2>3. at'[u] = Loaded(u)
    BY <1>2, <2>1 DEF Types
  <2>4. Steady(u)' /\ Registers(u)'
    BY <1>3, <2>1, <2>2, <2>3 DEF Steady, Registers
  <2>5. Cached(u)'
    BY <1>3, <1>4, <2>1, <2>2, <2>3 DEF Cached, LaidOver, DataIs, MapIs, Load, Same
  <2>6. Loaded(u) \in Inside \ {"next"} /\ ~(Loaded(u) \in {"wait", "wrdi"})
    BY <2>2 DEF Inside
  <2>7. QED
    BY <1>1, <1>2, <1>4, <2>1, <2>2, <2>4, <2>5, <2>6, HolderMoves
       DEF Load, Same, history, Held, Types
<1>5. CASE cache.page # piece.page
  <2>1. at' = [at EXCEPT ![u] = "loading"] /\ chip' = PageRead(chip, piece.page)
    BY <1>5 DEF Load, Same, Goto
  <2>2. /\ chip' \in ChipType /\ chip'.cells = chip.cells /\ chip'.op = "read"
        /\ chip'.kind = chip.kind /\ chip'.wel = chip.wel /\ chip'.locked = chip.locked
        /\ chip'.open = chip.open
        /\ chip'.reg[PlaneOf(chip, piece.page)] = chip.cells[piece.page]
    <3>1. chip \in ChipType
      BY <1>2 DEF Types
    <3>2. QED
      BY <1>2, <1>3, <2>1, <3>1, PageReads
  <2>3. at'[u] = "loading" /\ ~Erases(req[u].op)
    BY <1>1, <1>2, <2>1 DEF Types, Control
  <2>4. Control(u)'
    BY <1>1, <1>2, <2>3 DEF Control, Inside, Before, MtdOnly, Load, Same, history
  <2>5. Steady(u)' /\ Registers(u)'
    BY <1>3, <2>2, <2>3 DEF Steady, Registers, PlaneOf, Load, Same
  <2>6. Cached(u)'
    BY <1>3, <2>2, <2>3 DEF Cached, LaidOver, DataIs, MapIs, Load, Same
  <2>7. "loading" \in Inside \ {"next"}
    BY DEF Inside
  <2>8. QED
    BY <1>1, <1>2, <1>5, <2>1, <2>2, <2>4, <2>5, <2>6, <2>7, HolderMoves
       DEF Load, Same, history, Held, Types
<1>6. QED
  BY <1>4, <1>5

LEMMA LoadingKeeps ==
  ASSUME IInv, NEW u \in party, Loading(u)
  PROVE  IInv'
<1>1. at[u] = "loading" /\ at[u] \in Inside
  BY DEF Loading, Inside
<1>2. /\ Types /\ u \in AllUsers /\ lock = u /\ req[u] \in Calls /\ req[u] # Idle
      /\ Control(u) /\ Held(u)
  BY <1>1, HolderHas
<1>3. at' = [at EXCEPT ![u] = "fetch"] /\ chip' = chip /\ chip.op = "idle"
  BY DEF Loading, Same, Goto, OIP
<1>4. at'[u] = "fetch" /\ ~Erases(req[u].op)
  BY <1>1, <1>2, <1>3 DEF Types, Control
<1>5. Control(u)'
  BY <1>1, <1>2, <1>4 DEF Control, Inside, Before, MtdOnly, Loading, Same, history
<1>6. Steady(u)' /\ Registers(u)'
  BY <1>1, <1>2, <1>3, <1>4 DEF Held, Steady, Registers, PlaneOf, Loading, Same
<1>7. Cached(u)'
  BY <1>1, <1>2, <1>3, <1>4 DEF Held, Cached, LaidOver, SpareBehind, DataIs, MapIs, Loading, Same
<1>8. "fetch" \in Inside \ {"next"}
  BY DEF Inside
<1>9. QED
  BY <1>1, <1>2, <1>3, <1>5, <1>6, <1>7, <1>8, HolderMoves
     DEF Loading, Same, history, Held, Types

LEMMA SelectIs ==
  ASSUME Types, NEW p \in PageNumbers
  PROVE  Select(p) \in {0, 1} /\ Selected(chip, Select(p)) = PlaneOf(chip, p)
<1>1. BlockOf(p) % 2 \in {0, 1}
  BY Planes DEF Types
<1>2. QED
  BY <1>1 DEF Select, Selected, PlaneOf, Types

LEMMA FetchKeeps ==
  ASSUME IInv, NEW u \in party, Fetch(u)
  PROVE  IInv'
<1>1. at[u] = "fetch" /\ at[u] \in Inside
  BY DEF Fetch, Inside
<1>2. /\ Types /\ u \in AllUsers /\ lock = u /\ req[u] \in Calls /\ req[u] # Idle
      /\ Control(u) /\ Held(u) /\ piece.page \in PageNumbers
      /\ chip.cells[piece.page] \in PageType
  BY <1>1, HolderHas
<1>3. /\ chip.op = "idle" /\ ~chip.wel
      /\ chip.reg[PlaneOf(chip, piece.page)] = chip.cells[piece.page]
  BY <1>1, <1>2 DEF Held, Steady, Registers
<1>4. bit' \in {0, 1} /\ Selected(chip, bit') = PlaneOf(chip, piece.page)
  BY <1>2, SelectIs DEF Fetch
<1>5. ReadFromCache(chip, bit') = chip.cells[piece.page]
  BY <1>2, <1>3, <1>4, Reading DEF Types
<1>6. cache' = [page |-> piece.page, data |-> chip.cells[piece.page],
                map |-> chip.cells[piece.page][Spare]]
  BY <1>5 DEF Fetch
<1>7. cache' \in CacheType
  <2>1. chip.cells[piece.page][Spare] \in Val
    BY <1>2, SizeFacts DEF PageType
  <2>2. chip.cells[piece.page] \in AnyPage
    BY <1>2 DEF PageType, AnyPage
  <2>3. QED
    BY <1>2, <1>6, <2>1, <2>2
<1>8. at' = [at EXCEPT ![u] = Loaded(u)] /\ chip' = chip
  BY DEF Fetch, Same, Goto
<1>9. Loaded(u) \in {"lay", "copy", "leave"} /\ ~Erases(req[u].op) /\ Control(u)'
  BY <1>1, <1>8, LoadedIs DEF Fetch, Same, history
<1>10. at'[u] = Loaded(u)
  BY <1>2, <1>8 DEF Types
<1>11. Steady(u)' /\ Registers(u)'
  BY <1>3, <1>8, <1>9, <1>10 DEF Steady, Registers
<1>12. Cached(u)'
  <2>1. DataIs' /\ MapIs'
    BY <1>6, <1>8 DEF DataIs, MapIs
  <2>2. cache'.page = piece'.page
    BY <1>6 DEF Fetch
  <2>3. QED
    BY <1>9, <1>10, <2>1, <2>2 DEF Cached, LaidOver, Fetch, Same
<1>13. Loaded(u) \in Inside \ {"next"} /\ ~(Loaded(u) \in {"wait", "wrdi"})
  BY <1>9 DEF Inside
<1>14. QED
  BY <1>1, <1>2, <1>4, <1>7, <1>8, <1>9, <1>11, <1>12, <1>13, HolderMoves
     DEF Fetch, Same, history, Held, Types

LEMMA LayKeeps ==
  ASSUME IInv, NEW u \in party, Lay(u)
  PROVE  IInv'
<1>1. at[u] = "lay" /\ at[u] \in Inside
  BY DEF Lay, Inside
<1>2. /\ Types /\ u \in AllUsers /\ lock = u /\ req[u] \in Calls /\ req[u] # Idle
      /\ Control(u) /\ Held(u) /\ piece.page \in PageNumbers
      /\ chip.cells[piece.page] \in PageType
  BY <1>1, HolderHas
<1>3. Programs(req[u].op) /\ ~Reads(req[u].op) /\ ~Erases(req[u].op)
  BY <1>1, <1>2, OpFacts DEF Control
<1>4. /\ chip.op = "idle" /\ ~chip.wel /\ MapIs
      /\ cache.page = piece.page /\ cache.data = chip.cells[piece.page]
  <2>1. piece.page # NoPage
    BY <1>2, SizeFacts
  <2>2. QED
    BY <1>1, <1>2, <2>1 DEF Held, Steady, Cached, LaidOver, SpareBehind, DataIs
<1>5. bit' \in {0, 1} /\ Selected(chip, bit') = PlaneOf(chip, piece.page)
  BY <1>2, SelectIs DEF Lay
<1>6. Overlaid(chip.cells[piece.page]) \in AnyPage
  <2> DEFINE s == chip.cells[piece.page]
             o == Overlaid(s)
  <2>1. ASSUME NEW k \in Columns PROVE o[k] \in Val \cup {Mixed}
    <3>1. s[k] \in Val /\ piece.oob \in Val
      BY <1>2 DEF PageType, Types
    <3>2. And(s[k], piece.oob) \in Val \cup {Mixed}
      BY <3>1 DEF And
    <3>3. QED
      BY <1>2, <3>1, <3>2, OverlaidIs
  <2>2. o = [k \in Columns |-> o[k]]
    BY DEF Overlaid
  <2> HIDE DEF o
  <2>3. o \in [Columns -> Val \cup {Mixed}]
    BY <2>1, <2>2
  <2>4. QED
    BY <2>3 DEF o, AnyPage
<1>7. /\ cache' \in CacheType /\ cache'.page = piece.page /\ cache'.map = cache.map
      /\ cache'.data = Overlaid(chip.cells[piece.page])
  <2>1. cache' = [cache EXCEPT !.data = Overlaid(chip.cells[piece.page])]
    BY <1>4 DEF Lay
  <2>2. QED
    BY <1>2, <1>4, <1>6, <2>1 DEF Types
<1>8. at' = [at EXCEPT ![u] = "wren"] /\ chip' = chip
  BY DEF Lay, Same, Goto
<1>9. at'[u] = "wren"
  BY <1>2, <1>8 DEF Types
<1>10. Control(u)'
  BY <1>1, <1>2, <1>3, <1>9 DEF Control, Inside, Before, MtdOnly, Lay, Same, history
<1>11. Steady(u)' /\ Registers(u)'
  BY <1>3, <1>4, <1>5, <1>8, <1>9 DEF Steady, Registers, PlaneOf, Selected, Lay, Same
<1>12. Cached(u)'
  BY <1>3, <1>4, <1>7, <1>8, <1>9 DEF Cached, LaidOver, MapIs, Overlaid, Lay, Same
<1>13. "wren" \in Inside \ {"next"}
  BY DEF Inside
<1>14. QED
  BY <1>1, <1>2, <1>5, <1>7, <1>8, <1>10, <1>11, <1>12, <1>13, HolderMoves
     DEF Lay, Same, history, Held, Types

LEMMA WrEnKeeps ==
  ASSUME IInv, NEW u \in party, WrEn(u)
  PROVE  IInv'
<1> DEFINE l == IF Erases(req[u].op) THEN "erase" ELSE "pload"
<1>1. at[u] = "wren" /\ at[u] \in Inside
  BY DEF WrEn, Inside
<1>2. /\ Types /\ u \in AllUsers /\ lock = u /\ req[u] \in Calls /\ req[u] # Idle
      /\ Control(u) /\ Held(u)
  BY <1>1, HolderHas
<1>3. ~Reads(req[u].op) /\ (~Erases(req[u].op) => Programs(req[u].op))
  BY <1>1, <1>2, OpFacts DEF Control
<1>4. chip.op = "idle" /\ ~chip.wel
  BY <1>1, <1>2 DEF Held, Steady
<1>5. /\ chip' \in ChipType /\ chip'.cells = chip.cells /\ chip'.op = chip.op
      /\ chip'.reg = chip.reg /\ chip'.kind = chip.kind /\ chip'.wel
      /\ chip'.locked = chip.locked /\ chip'.open = chip.open
  BY <1>2, <1>4, Latch DEF Types, WrEn
<1>6. at' = [at EXCEPT ![u] = l]
  BY DEF WrEn, Same, Goto
<1>7. at'[u] = l
  BY <1>2, <1>6 DEF Types
<1>8. Control(u)'
  BY <1>1, <1>2, <1>3, <1>7 DEF Control, Inside, Before, MtdOnly, WrEn, Same, history
<1>9. Steady(u)' /\ Registers(u)'
  <2>1. Steady(u)'
    BY <1>4, <1>5, <1>7 DEF Steady
  <2>2. Registers(u) /\ Programs(req[u].op) =>
          Selected(chip', bit') = PlaneOf(chip', piece'.page)
    BY <1>1, <1>5 DEF Registers, PlaneOf, Selected, WrEn
  <2>3. Registers(u)'
    BY <1>2, <1>3, <1>7, <2>2 DEF Registers, Held, WrEn, Same
  <2>4. QED
    BY <2>1, <2>3
<1>10. Cached(u)'
  <2>1. CASE Erases(req[u].op)
    BY <1>1, <1>2, <1>5, <1>7, <2>1, OpFacts
       DEF Held, Cached, LaidOver, SpareBehind, DataIs, MapIs, WrEn, Same
  <2>2. CASE ~Erases(req[u].op)
    <3>1. /\ cache.page = piece.page /\ cache.data = Overlaid(chip.cells[piece.page]) /\ MapIs
      BY <1>1, <1>2, <1>3, <2>2 DEF Held, Cached, LaidOver, SpareBehind
    <3>2. QED
      BY <1>3, <1>5, <1>7, <2>2, <3>1 DEF Cached, LaidOver, MapIs, Overlaid, WrEn, Same
  <2>3. QED
    BY <2>1, <2>2
<1>11. l \in Inside \ {"next"} /\ ~(l \in {"wait", "wrdi"})
  BY DEF Inside
<1> HIDE DEF l
<1>12. QED
  BY <1>1, <1>2, <1>5, <1>6, <1>8, <1>9, <1>10, <1>11, HolderMoves
     DEF WrEn, Same, history, Held, Types

LEMMA PLoadKeeps ==
  ASSUME IInv, NEW u \in party, PLoad(u)
  PROVE  IInv'
<1>1. at[u] = "pload" /\ at[u] \in Inside
  BY DEF PLoad, Inside
<1>2. /\ Types /\ u \in AllUsers /\ lock = u /\ req[u] \in Calls /\ req[u] # Idle
      /\ Control(u) /\ Held(u)
  BY <1>1, HolderHas
<1>3. Programs(req[u].op) /\ ~Reads(req[u].op) /\ ~Erases(req[u].op)
  BY <1>1, <1>2, OpFacts DEF Control
<1>4. chip.op = "idle" /\ chip.wel /\ Selected(chip, bit) = PlaneOf(chip, piece.page)
  BY <1>1, <1>2, <1>3 DEF Held, Steady, Registers
<1>5. /\ chip' \in ChipType /\ chip'.cells = chip.cells /\ chip'.op = chip.op
      /\ chip'.kind = chip.kind /\ chip'.wel = chip.wel
      /\ chip'.locked = chip.locked /\ chip'.open = chip.open
      /\ chip'.reg[Selected(chip, bit)] = cache.data
  <2>1. chip \in ChipType /\ bit \in {0, 1} /\ cache.data \in AnyPage
    BY <1>2 DEF Types
  <2>2. chip' = ProgramLoad(chip, bit, cache.data)
    BY DEF PLoad
  <2>3. chip.op = "idle"
    BY <1>4
  <2>4. QED
    BY <2>1, <2>2, <2>3, Loads
<1>6. at' = [at EXCEPT ![u] = "exec"]
  BY DEF PLoad, Same, Goto
<1>7. at'[u] = "exec"
  BY <1>2, <1>6 DEF Types
<1>8. Control(u)'
  BY <1>1, <1>2, <1>3, <1>7 DEF Control, Inside, Before, MtdOnly, PLoad, Same, history
<1>9. Steady(u)' /\ Registers(u)'
  <2>1. chip'.op = "idle" /\ chip'.wel
    BY <1>4, <1>5
  <2>2. Steady(u)'
    BY <1>7, <2>1 DEF Steady
  <2>3. PlaneOf(chip, piece.page)' = PlaneOf(chip, piece.page) /\ UNCHANGED <<piece, cache>>
    BY <1>5 DEF PlaneOf, PLoad
  <2>4. chip'.reg[PlaneOf(chip, piece.page)] = cache.data
    BY <1>4, <1>5
  <2>5. Registers(u)'
    BY <1>7, <2>3, <2>4 DEF Registers
  <2>6. QED
    BY <2>2, <2>5
<1>10. Cached(u)'
  <2>1. /\ cache.page = piece.page /\ cache.data = Overlaid(chip.cells[piece.page]) /\ MapIs
    BY <1>1, <1>2, <1>3 DEF Held, Cached, LaidOver, SpareBehind
  <2>2. UNCHANGED <<cache, piece, req>> /\ chip'.cells = chip.cells
    BY <1>5 DEF PLoad, Same, history
  <2>3. Overlaid(chip.cells[piece.page])' = Overlaid(chip.cells[piece.page]) /\ MapIs'
    BY <2>1, <2>2 DEF Overlaid, MapIs
  <2>4. LaidOver(u)' /\ ~Erases(req[u].op)'
    BY <1>3, <1>7, <2>2 DEF LaidOver
  <2>5. QED
    BY <1>7, <2>1, <2>2, <2>3, <2>4 DEF Cached
<1>11. "exec" \in Inside \ {"next"}
  BY DEF Inside
<1>12. QED
  BY <1>1, <1>2, <1>5, <1>6, <1>8, <1>9, <1>10, <1>11, HolderMoves
     DEF PLoad, Same, history, Held, Types

LEMMA WaitKeeps ==
  ASSUME IInv, NEW u \in party, Wait(u)
  PROVE  IInv'
<1>1. at[u] = "wait" /\ at[u] \in Inside
  BY DEF Wait, Inside
<1>2. /\ Types /\ u \in AllUsers /\ lock = u /\ req[u] \in Calls /\ req[u] # Idle
      /\ Control(u) /\ Held(u)
  BY <1>1, HolderHas
<1>3. at' = [at EXCEPT ![u] = "wrdi"] /\ chip' = chip /\ chip.op = "idle"
  BY DEF Wait, Same, Goto, OIP
<1>4. at'[u] = "wrdi" /\ ~chip.wel /\ ~Reads(req[u].op)
  BY <1>1, <1>2, <1>3 DEF Types, Control, Held, Steady
<1>5. Control(u)'
  BY <1>1, <1>2, <1>4 DEF Control, Inside, Before, MtdOnly, Wait, Same, history
<1>6. Steady(u)' /\ Registers(u)'
  BY <1>1, <1>2, <1>3, <1>4 DEF Steady, Registers
<1>7. Cached(u)'
  BY <1>1, <1>2, <1>3, <1>4 DEF Held, Cached, LaidOver, SpareBehind, DataIs, MapIs, Wait, Same
<1>8. "wrdi" \in Inside \ {"next"}
  BY DEF Inside
<1>9. QED
  BY <1>1, <1>2, <1>3, <1>5, <1>6, <1>7, <1>8, HolderMoves
     DEF Wait, Same, history, Held, Types

LEMMA NextPieceKeeps ==
  ASSUME IInv, NEW u \in party, NextPiece(u)
  PROVE  IInv'
<1> DEFINE r == req[u]
           l == IF left[u] = 0 THEN "leave" ELSE IF Erases(r.op) THEN "wren" ELSE "load"
<1>1. at[u] = "next" /\ at[u] \in Inside
  BY DEF NextPiece, Inside
<1>2. /\ Types /\ u \in AllUsers /\ lock = u /\ r \in Calls /\ r # Idle
      /\ Control(u) /\ Progress(u) /\ Held(u) /\ left[u] \in Nat
  BY <1>1, HolderHas
<1>3. ~ByPage(r.op) /\ ~Unaligned(r) /\ left[u] <= r.len
  BY <1>1, <1>2 DEF Control, Progress, Inside
<1>4. at' = [at EXCEPT ![u] = l]
  BY DEF NextPiece, Same, Goto
<1>5. at'[u] = l
  BY <1>2, <1>4 DEF Types
<1>6. ASSUME left[u] # 0
      PROVE  /\ piece' \in PieceType
             /\ piece'.page = Pos(u) \div PageSize /\ piece'.off = Pos(u) % PageSize
             /\ piece'.oob = Blank
             /\ r.op = "write" => Len(piece'.data) = WriteLen(piece'.off, left[u])
  <2> DEFINE pos == r.addr + r.len - left[u]
             off == pos % PageSize
             n == WriteLen(off, left[u])
             s == IF r.op = "write"
                  THEN SubSeq(Text, r.len - left[u] + 1, r.len - left[u] + n) ELSE <<>>
  <2>1. piece' = [page |-> pos \div PageSize, off |-> off, oob |-> Blank, data |-> s]
    BY <1>6 DEF NextPiece
  <2>2. pos \div PageSize \in PageNumbers /\ off \in 0 .. PageSize - 1
    BY <1>2, <1>3, <1>6, PosFacts
  <2> HIDE DEF off
  <2>3. n \in Nat /\ n > 0 /\ n <= left[u]
    BY <1>2, <1>6, <2>2, WriteLenIs
  <2> HIDE DEF n
  <2>4. ASSUME r.op = "write" PROVE s \in Seq(Val) /\ Len(s) = n
    <3>1. r.len \in Nat /\ r.len <= Len(Text)
      BY <1>2, <2>4, CallFacts
    <3>2. PICK a \in Nat : a = r.len - left[u]
      BY <1>2, <1>3, <3>1
    <3>3. a + n <= Len(Text)
      BY <1>2, <2>3, <3>1, <3>2
    <3>4. Text \in Seq(Val) /\ Len(Text) \in Nat
      BY TextFacts DEF Val
    <3>5. SubSeq(Text, a + 1, a + n) \in Seq(Val) /\ Len(SubSeq(Text, a + 1, a + n)) = n
      BY <2>3, <3>3, <3>4
    <3>6. QED
      BY <2>4, <3>2, <3>5
  <2>5. s \in Seq(Val)
    BY <2>4
  <2> HIDE DEF s
  <2>6. off \in 0 .. PageSize
    BY <2>2, SizeFacts
  <2>7. piece' \in PieceType /\ piece'.page = pos \div PageSize /\ piece'.off = off
        /\ piece'.oob = Blank /\ piece'.data = s
    BY <2>1, <2>2, <2>5, <2>6, TextFacts
  <2>8. QED
    BY <2>4, <2>7 DEF Pos, off, n
<1>7. piece' \in PieceType
  <2>1. left[u] = 0 => piece' = piece
    BY DEF NextPiece
  <2>2. QED
    BY <1>2, <1>6, <2>1 DEF Types
<1>8. Control(u)'
  <2>1. l = "wren" => ~Reads(r.op)
    BY <1>2, OpFacts
  <2>2. l \in Inside /\ l \notin Before /\ at[u] \notin Before
    BY <1>1 DEF Inside, Before
  <2>3. QED
    BY <1>1, <1>2, <1>3, <1>5, <2>1, <2>2 DEF Control, MtdOnly, NextPiece, Same, history
<1>9. Progress(u)'
  BY <1>2, <1>3, <1>5 DEF Progress, NextPiece, Same, Inside
<1>10. PieceIs(u)'
  <2>1. CASE left[u] = 0
    BY <1>5, <2>1 DEF PieceIs
  <2>2. CASE left[u] # 0
    <3>1. r.op \notin {"mtdwrite", "mtdwriteoob"}
      BY <1>2, <1>3, OpFacts
    <3>2. req'[u] = r /\ left' = left /\ Pos(u)' = Pos(u)
      BY DEF Pos, NextPiece, Same
    <3>3. QED
      BY <1>6, <2>2, <3>1, <3>2 DEF PieceIs
  <2>3. QED
    BY <2>1, <2>2
<1>11. /\ chip' = chip /\ cache' = cache /\ chip.op = "idle" /\ ~chip.wel /\ DataIs /\ MapIs
       /\ Erases(r.op) => cache.page = NoPage
  BY <1>1, <1>2 DEF NextPiece, Held, Steady, Cached, LaidOver, SpareBehind
<1>12. Steady(u)' /\ Registers(u)'
  <2>1. l = "wren" => ~Programs(r.op)
    BY <1>2, OpFacts
  <2>2. QED
    BY <1>5, <1>11, <2>1 DEF Steady, Registers, NextPiece, Same
<1>13. Cached(u)'
  <2>1. l = "wren" => ~Programs(r.op)
    BY <1>2, OpFacts
  <2>2. QED
    BY <1>5, <1>11, <2>1 DEF Cached, LaidOver, DataIs, MapIs, NextPiece, Same
<1>14. Owed(u)' \subseteq Owed(u)
  <2>1. ~(at[u] \in {"wait", "wrdi", "leave", "waitfunc", "return"}) /\ ~(l \in {"wait", "wrdi"})
    BY <1>1
  <2>2. OwedOf(r, l, left[u], Len(piece'.data)) \subseteq OwedOf(r, at[u], left[u], Len(piece.data))
    BY <2>1, OwedKept
  <2>3. QED
    BY <1>5, <2>2 DEF Owed, NextPiece, Same
<1>15. l \in Inside
  BY DEF Inside
<1> HIDE DEF l
<1>16. QED
  BY <1>1, <1>2, <1>4, <1>7, <1>8, <1>9, <1>10, <1>11, <1>12, <1>13, <1>14, <1>15, HolderRests
     DEF NextPiece, Same, history, Held, Types

LEMMA CopyKeeps ==
  ASSUME IInv, NEW u \in party, Copy(u)
  PROVE  IInv'
<1> DEFINE n == ReadLen(piece.off, left[u])
<1>1. at[u] = "copy" /\ at[u] \in Inside \ {"next", "leave"}
  BY DEF Copy, Inside
<1>2. /\ Types /\ u \in AllUsers /\ lock = u /\ req[u] \in Calls /\ req[u] # Idle
      /\ Control(u) /\ Progress(u) /\ PieceIs(u) /\ Held(u) /\ left[u] \in Nat
  BY <1>1, HolderHas
<1>3. req[u].op = "read" /\ ~ByPage(req[u].op) /\ ~Erases(req[u].op) /\ ~Unaligned(req[u])
  BY <1>1, <1>2, OpFacts DEF Control, Unaligned
<1>4. left[u] > 0 /\ left[u] <= req[u].len
  BY <1>1, <1>2, <1>3 DEF Progress
<1>5. piece.off \in 0 .. PageSize - 1
  <2>1. piece.off = Pos(u) % PageSize
    BY <1>1, <1>2, <1>3 DEF PieceIs
  <2>2. QED
    BY <1>2, <1>3, <1>4, <2>1, PosFacts DEF Pos
<1>6. n \in Nat /\ n <= left[u]
  BY <1>2, <1>4, <1>5, ReadLenIs
<1> HIDE DEF n
<1>7. left' = [left EXCEPT ![u] = left[u] - n] /\ at' = [at EXCEPT ![u] = "next"]
  BY DEF Copy, Same, Goto, n
<1>8. left'[u] \in Nat /\ left'[u] <= left[u]
      /\ left' \in [AllUsers -> 0 .. NBlocks * BlockLen]
      /\ at'[u] = "next" /\ \A v \in AllUsers : v # u => left'[v] = left[v]
  <2>1. PICK T \in Nat : T = NBlocks * BlockLen
    BY FlashFacts
  <2>2. left \in [AllUsers -> 0 .. T]
    BY <1>2, <2>1 DEF Types
  <2>3. left[u] - n \in 0 .. T /\ left[u] - n <= left[u]
    BY <1>2, <1>6, <2>2
  <2>4. QED
    BY <1>2, <1>7, <2>1, <2>2, <2>3 DEF Types
<1>9. Control(u)'
  BY <1>1, <1>2, <1>3, <1>8 DEF Control, Inside, Before, MtdOnly, Copy, Same, history
<1>10. Progress(u)'
  BY <1>2, <1>4, <1>8, CallFacts DEF Progress, Copy, Same, Inside
<1>11. PieceIs(u)'
  BY <1>8 DEF PieceIs
<1>12. Held(u)'
  BY <1>1, <1>2, <1>3, <1>8
     DEF Held, Steady, Registers, Cached, LaidOver, SpareBehind, DataIs, MapIs, Copy, Same
<1>13. Owed(u)' = {}
  BY <1>3, OwedIs DEF Owed, Programs, Copy, Same
<1>14. "next" \in Inside
  BY DEF Inside
<1>15. QED
  BY <1>1, <1>2, <1>7, <1>8, <1>9, <1>10, <1>11, <1>12, <1>13, <1>14, HolderRests
     DEF Copy, Same, history, Types

LEMMA PlacedIsRequest ==
  ASSUME IInv, NEW u \in party, NEW n \in Nat, at[u] \in Inside, Place(u, n)
  PROVE  /\ todo' \in [AllUsers -> Request \cup {Idle}] /\ todo'[u] # Idle
         /\ \A v \in AllUsers : v # u => todo'[v] = todo[v]
<1> DEFINE Put == (Nat \X Nat) \X (Range(Text) \cup {Blank})
           s == todo[u].put
           cut == SubSeq(s, n + 1, Len(s))
<1>1. Types /\ u \in AllUsers /\ todo[u] \in Request
  BY HolderHas
<1>2. s \in Seq(Put)
  BY <1>1 DEF Request
<1>3. cut \in Seq(Put)
  <2> HIDE DEF Put, s
  <2>1. QED
    BY <1>2
<1>4. todo' = [todo EXCEPT ![u] = [todo[u] EXCEPT !.put = cut]]
  BY <1>1 DEF Place, Types
<1> DEFINE new == [todo[u] EXCEPT !.put = cut]
<1>5. new \in Request
  <2> HIDE DEF cut
  <2>1. QED
    BY <1>1, <1>3 DEF Request
<1>6. new # Idle
  BY <1>5, IdleAssumption
<1> HIDE DEF new, cut
<1>7. todo' = [todo EXCEPT ![u] = new]
  BY <1>4 DEF new
<1>8. QED
  BY <1>1, <1>5, <1>6, <1>7 DEF Types

(* What a write owes are cells of the chip. *)
LEMMA OwedInCells ==
  ASSUME IInv, NEW v \in party, req[v] # Idle, NEW c \in Owed(v)
  PROVE  c \in PageNumbers \X Columns /\ Programs(req[v].op) /\ c \in Filled[req[v]]
<1> DEFINE r == req[v]
<1>1. /\ Types /\ v \in AllUsers /\ r \in Calls /\ left[v] \in Nat /\ Len(piece.data) \in Nat
      /\ ~ByPage(r.op) => left[v] <= r.len
  BY PartyFacts, FlashFacts DEF IInv, Types, Progress
<1>2. Programs(r.op)
  BY OwedIs DEF Owed
<1>3. c \in Filled[r]
  BY <1>1, <1>2, OwedInFilled DEF Owed
<1>4. c \in PageNumbers \X Columns
  <2>1. CASE r.op = "write"
    <3>1. PICK k \in 1 .. r.len : c = CellAt(r.addr + k - 1)
      BY <1>1, <1>3, <2>1, FilledIs
    <3>2. r.addr \in Nat /\ r.len \in Nat /\ r.addr + r.len - 1 \in Flash
      BY <1>1, <2>1, CallFacts DEF ByPage, MtdOps, Unaligned, Erases
    <3>3. PICK T \in Nat : T = NBlocks * BlockLen
      BY FlashFacts
    <3>4. r.addr + k - 1 \in 0 .. T - 1
      <4>1. r.addr + r.len - 1 \in 0 .. T - 1
        BY <3>2, <3>3, FlashFacts
      <4>2. QED
        BY <3>2, <4>1, InBounds
    <3>5. PICK a \in 0 .. T - 1 : a = r.addr + k - 1
      BY <3>4
    <3>6. a \div PageSize \in PageNumbers /\ a % PageSize \in 0 .. PageSize - 1
      BY <3>3, <3>5, PageOf
    <3>7. (a % PageSize) + 1 \in Columns
      BY <3>6, SizeFacts
    <3>8. QED
      BY <3>1, <3>5, <3>6, <3>7 DEF CellAt
  <2>2. CASE r.op \in {"mtdwrite", "mtdwriteoob"}
    BY <1>1, <1>3, <2>2, FilledIs, RowFacts, SizeFacts
  <2>3. QED
    BY <1>2, <2>1, <2>2 DEF Programs
<1>5. QED
  BY <1>2, <1>3, <1>4

LEMMA ExecKeeps ==
  ASSUME IInv, NEW u \in party, Exec(u)
  PROVE  IInv'
<1> DEFINE p == piece.page
           s == chip.cells[p]
           o == Overlaid(s)
           after == OwedOf(req[u], "wait", left[u], Len(piece.data))
<1>1. at[u] = "exec" /\ at[u] \in Inside
  BY DEF Exec, Inside
<1>2. /\ Types /\ u \in AllUsers /\ lock = u /\ req[u] \in Calls /\ req[u] # Idle
      /\ Control(u) /\ Progress(u) /\ PieceIs(u) /\ OwedBlank(u) /\ Held(u)
      /\ p \in PageNumbers /\ s \in PageType /\ ~chip.locked
  BY <1>1, HolderHas
<1>3. Programs(req[u].op) /\ ~Reads(req[u].op) /\ ~Erases(req[u].op)
  BY <1>1, <1>2, OpFacts DEF Control
<1>4. Takes(chip) /\ chip.reg[PlaneOf(chip, p)] = o
      /\ cache.page = p /\ cache.data = o /\ MapIs
  BY <1>1, <1>2, <1>3
     DEF Held, Steady, Registers, Cached, LaidOver, SpareBehind, Takes, OIP
<1>5. /\ o \in PageType /\ after \subseteq Owed(u)
      /\ \A k \in Columns :
           And(s[k], o[k]) = o[k] /\ (o[k] # s[k] => <<p, k>> \in Owed(u) \ after)
  BY <1>1, <1>2, WriteChanges
<1> HIDE DEF p, s, o, after
<1>6. /\ chip' \in ChipType /\ chip'.cells = [chip.cells EXCEPT ![p] = o]
      /\ chip'.op = "write" /\ chip'.kind = chip.kind /\ chip'.wel = chip.wel
      /\ chip'.locked = chip.locked /\ chip'.open = chip.open
  <2>1. chip \in ChipType
    BY <1>2 DEF Types
  <2>2. chip' = ProgramExecute(chip, p)
    BY DEF Exec, p
  <2>3. \A k \in Columns : And(chip.cells[p][k], o[k]) = o[k]
    BY <1>5 DEF s
  <2>4. p \in PageNumbers /\ o \in PageType /\ Takes(chip) /\ chip.reg[PlaneOf(chip, p)] = o
    BY <1>2, <1>4, <1>5
  <2>5. QED
    BY <2>1, <2>2, <2>3, <2>4, Programmed
<1>7. at' = [at EXCEPT ![u] = "wait"]
  BY DEF Exec, Same, Goto
<1>8. at'[u] = "wait"
  BY <1>2, <1>7 DEF Types
<1>9. ASSUME NEW v \in party PROVE OwedBlank(v)'
  <2>1. v \in AllUsers /\ OwedBlank(v)
    BY <1>2, PartyFacts DEF IInv
  <2>2. SUFFICES ASSUME req'[v] # Idle, NEW c \in Owed(v)'
                 PROVE  chip'.cells[c[1]][c[2]] = Blank
    BY DEF OwedBlank
  <2>3. req[v] # Idle
    BY <2>2 DEF Exec, Same
  <2>4. c \in Owed(v) /\ (v = u => c \in after)
    <3>1. CASE v = u
      BY <1>5, <1>8, <2>2, <3>1 DEF Owed, Exec, Same, after
    <3>2. CASE v # u
      <4>1. at[v] \notin Inside /\ at'[v] = at[v]
        BY <1>1, <1>2, <1>7, <2>1, <3>2, HolderHas DEF Types
      <4>2. Owed(v)' = Owed(v)
        <5>1. req'[v] = req[v] /\ left'[v] = left[v] /\ lock' = lock /\ piece' = piece
          BY DEF Exec, Same
        <5>2. \A d : OwedOf(req[v], at[v], left[v], d) = OwedOf(req[v], at[v], left[v], d)
          OBVIOUS
        <5>3. QED
          BY <4>1, <5>1 DEF Owed
      <4>3. QED
        BY <2>2, <3>2, <4>2
    <3>3. QED
      BY <3>1, <3>2
  <2>5. chip.cells[c[1]][c[2]] = Blank
    BY <2>1, <2>3, <2>4 DEF OwedBlank
  <2>6. c \in PageNumbers \X Columns /\ Programs(req[v].op) /\ c \in Filled[req[v]]
    BY <2>3, <2>4, OwedInCells
  <2>7. CASE c[1] # p
    BY <1>2, <1>6, <2>5, <2>6, <2>7 DEF Types
  <2>8. CASE c[1] = p
    <3>1. c = <<p, c[2]>> /\ c[2] \in Columns
      BY <2>6, <2>8
    <3>2. chip'.cells[p][c[2]] = o[c[2]]
      BY <1>2, <1>6 DEF Types
    <3>3. o[c[2]] = s[c[2]]
      <4>1. SUFFICES ASSUME o[c[2]] # s[c[2]] PROVE FALSE
        OBVIOUS
      <4>2. c \in Owed(u) \ after
        BY <1>5, <3>1, <4>1
      <4>3. v # u
        BY <2>4, <4>2
      <4>4. c \in Filled[req[u]]
        BY <1>2, <4>2, OwedInCells
      <4>5. QED
        BY <1>2, <1>3, <2>3, <2>6, <4>3, <4>4 DEF IInv, Apart
    <3>4. QED
      BY <2>5, <2>8, <3>2, <3>3 DEF s
  <2>9. QED
    BY <2>7, <2>8
<1>10. PICK n \in Nat : Place(u, n)
  <2>1. Len(piece.data) \in Nat
    BY <1>2 DEF Types
  <2>2. QED
    BY <2>1, SizeFacts DEF Exec
<1>11. /\ todo' \in [AllUsers -> Request \cup {Idle}] /\ todo'[u] # Idle
       /\ \A v \in AllUsers : v # u => todo'[v] = todo[v]
  BY <1>1, <1>10, PlacedIsRequest
<1>12. Control(u)'
  BY <1>1, <1>2, <1>3, <1>8, <1>11 DEF Control, Inside, Before, MtdOnly, Exec, Same
<1>13. Progress(u)'
  BY <1>1, <1>2, <1>8 DEF Progress, Inside, Exec, Same
<1>14. PieceIs(u)'
  BY <1>1, <1>2, <1>8 DEF PieceIs, Pos, Row, Inside, Exec, Same
<1>15. Held(u)'
  <2>1. chip'.cells[p] = o
    BY <1>2, <1>6 DEF Types
  <2>2. cache'.page = p /\ cache'.data = o /\ cache'.map = cache.map
    BY <1>4 DEF Exec
  <2>3. DataIs'
    BY <2>1, <2>2 DEF DataIs
  <2>4. req[u].op = "write" => MapIs'
    <3>1. SUFFICES ASSUME req[u].op = "write" PROVE MapIs'
      OBVIOUS
    <3>2. piece.oob = Blank
      BY <1>1, <1>2, <3>1 DEF PieceIs, Inside
    <3>3. o[Spare] = s[Spare]
      BY <1>2, <3>2, SizeFacts, OverlaidIs, AndFacts DEF o
    <3>4. cache.map = s[Spare]
      <4>1. p # NoPage
        BY <1>2, SizeFacts
      <4>2. QED
        BY <1>4, <4>1 DEF MapIs, s
    <3>5. QED
      BY <2>1, <2>2, <3>3, <3>4 DEF MapIs
  <2>5. Cached(u)'
    BY <1>3, <1>8, <2>3, <2>4 DEF Cached, LaidOver, SpareBehind, Programs, Exec, Same
  <2>6. Steady(u)' /\ Registers(u)'
    BY <1>4, <1>6, <1>8 DEF Steady, Registers, Takes
  <2>7. QED
    BY <2>5, <2>6 DEF Held
<1>16. "wait" \in Inside
  BY DEF Inside
<1>17. QED
  BY <1>1, <1>2, <1>6, <1>7, <1>9, <1>11, <1>12, <1>13, <1>14, <1>15, <1>16, HolderStep
     DEF Exec, Same, Types

LEMMA EraseBlockKeeps ==
  ASSUME IInv, NEW u \in party, EraseBlock(u)
  PROVE  IInv'
<1>1. at[u] = "erase" /\ at[u] \in Inside
  BY DEF EraseBlock, Inside
<1>2. /\ Types /\ u \in AllUsers /\ lock = u /\ req[u] \in Calls /\ req[u] # Idle
      /\ Control(u) /\ Progress(u) /\ PieceIs(u) /\ Held(u) /\ ~chip.locked
      /\ chip \in ChipType
  BY <1>1, HolderHas DEF Types
<1>3. Erases(req[u].op) /\ ~Reads(req[u].op) /\ ~Programs(req[u].op)
  BY <1>1, <1>2, OpFacts DEF Control
<1>4. Takes(chip) /\ cache.page = NoPage
  BY <1>1, <1>2, <1>3 DEF Held, Steady, Cached, Takes, OIP
<1>5. /\ chip' \in ChipType /\ chip'.op = "write" /\ chip'.kind = chip.kind
      /\ chip'.wel = chip.wel /\ chip'.locked = chip.locked /\ chip'.open = chip.open
      /\ chip'.cells = [q \in PageNumbers |->
                          IF BlockOf(q) = BlockOf(piece.page) THEN BlankPage ELSE chip.cells[q]]
  BY <1>2, <1>4, Erased DEF EraseBlock
<1>6. at' = [at EXCEPT ![u] = "wait"]
  BY DEF EraseBlock, Same, Goto
<1>7. at'[u] = "wait"
  BY <1>2, <1>6 DEF Types
<1>8. PICK n \in Nat : Place(u, n)
  <2>1. PagesPerBlock * (PageSize + 1) \in Nat
    BY SizeFacts
  <2>2. QED
    BY <2>1 DEF EraseBlock
<1>9. /\ todo' \in [AllUsers -> Request \cup {Idle}] /\ todo'[u] # Idle
      /\ \A v \in AllUsers : v # u => todo'[v] = todo[v]
  BY <1>1, <1>8, PlacedIsRequest
<1>10. ASSUME NEW v \in party PROVE OwedBlank(v)'
  <2>1. v \in AllUsers /\ OwedBlank(v)
    BY <1>2, PartyFacts DEF IInv
  <2>2. SUFFICES ASSUME req'[v] # Idle, NEW c \in Owed(v)'
                 PROVE  chip'.cells[c[1]][c[2]] = Blank
    BY DEF OwedBlank
  <2>3. v # u
    BY <1>3, <2>2, OwedIs DEF Owed, EraseBlock, Same
  <2>4. c \in Owed(v) /\ req[v] # Idle
    <3>1. at'[v] = at[v]
      BY <1>2, <1>6, <2>1, <2>3 DEF Types
    <3>2. req' = req /\ left' = left /\ piece' = piece
      BY DEF EraseBlock, Same
    <3>3. QED
      BY <2>2, <3>1, <3>2 DEF Owed
  <2>5. chip.cells[c[1]][c[2]] = Blank
    BY <2>1, <2>4 DEF OwedBlank
  <2>6. c \in PageNumbers \X Columns
    BY <2>4, OwedInCells
  <2>7. c[1] \in PageNumbers /\ c[2] \in Columns
    BY <2>6
  <2>8. CASE BlockOf(c[1]) = BlockOf(piece.page)
    BY <1>5, <2>7, <2>8 DEF BlankPage
  <2>9. CASE BlockOf(c[1]) # BlockOf(piece.page)
    BY <1>5, <2>5, <2>7, <2>9
  <2>10. QED
    BY <2>8, <2>9
<1>11. Control(u)'
  BY <1>1, <1>2, <1>3, <1>7, <1>9 DEF Control, Inside, Before, MtdOnly, EraseBlock, Same
<1>12. Progress(u)'
  BY <1>1, <1>2, <1>7 DEF Progress, Inside, EraseBlock, Same
<1>13. PieceIs(u)'
  BY <1>1, <1>2, <1>7 DEF PieceIs, Pos, Row, Inside, EraseBlock, Same
<1>14. Held(u)'
  <2>1. Steady(u)' /\ Registers(u)'
    BY <1>4, <1>5, <1>7 DEF Steady, Registers, Takes
  <2>2. Cached(u)'
    BY <1>4, <1>7 DEF Cached, LaidOver, DataIs, MapIs, EraseBlock, Same
  <2>3. QED
    BY <2>1, <2>2 DEF Held
<1>15. "wait" \in Inside
  BY DEF Inside
<1>16. QED
  BY <1>1, <1>2, <1>5, <1>6, <1>9, <1>10, <1>11, <1>12, <1>13, <1>14, <1>15, HolderStep
     DEF EraseBlock, Same, Types

LEMMA WrDiKeeps ==
  ASSUME IInv, NEW u \in party, WrDi(u)
  PROVE  IInv'
<1> DEFINE r == req[u]
           l == IF ByPage(r.op) THEN "leave" ELSE "next"
           n == IF Erases(r.op) THEN BlockLen ELSE Len(piece.data)
           m == IF n > left[u] THEN 0 ELSE left[u] - n
<1>1. at[u] = "wrdi" /\ at[u] \in Inside \ {"next", "leave"}
  BY DEF WrDi, Inside
<1>2. /\ Types /\ u \in AllUsers /\ lock = u /\ r \in Calls /\ r # Idle
      /\ Control(u) /\ Progress(u) /\ PieceIs(u) /\ Held(u) /\ left[u] \in Nat
      /\ Len(piece.data) \in Nat
  BY <1>1, HolderHas DEF Types
<1>3. n \in Nat
  BY <1>2, SizeFacts
<1>4. at' = [at EXCEPT ![u] = l] /\ left' = [left EXCEPT ![u] = m]
  BY DEF WrDi, Same, Goto
<1>5. m \in Nat /\ m <= left[u]
  <2> HIDE DEF n
  <2>1. QED
    BY <1>2, <1>3
<1>6. r.op = "write" => m = left[u] - Len(piece.data)
  <2>1. SUFFICES ASSUME r.op = "write" PROVE m = left[u] - Len(piece.data)
    OBVIOUS
  <2>2. ~ByPage(r.op) /\ ~Erases(r.op) /\ ~Unaligned(r)
    BY <1>2, <2>1, OpFacts DEF Unaligned
  <2>3. left[u] > 0 /\ left[u] <= r.len
    BY <1>1, <1>2, <2>2 DEF Progress
  <2>4. piece.off = Pos(u) % PageSize /\ Len(piece.data) = WriteLen(piece.off, left[u])
    BY <1>1, <1>2, <2>1 DEF PieceIs
  <2>5. piece.off \in 0 .. PageSize - 1
    BY <1>2, <2>2, <2>3, <2>4, PosFacts DEF Pos
  <2>6. Len(piece.data) <= left[u]
    BY <1>2, <2>3, <2>4, <2>5, WriteLenIs
  <2>7. QED
    BY <1>2, <2>2, <2>6
<1> HIDE DEF m, n
<1>7. /\ at'[u] = l /\ left'[u] = m /\ left' \in [AllUsers -> 0 .. NBlocks * BlockLen]
      /\ \A v \in AllUsers : v # u => left'[v] = left[v]
  <2>1. PICK T \in Nat : T = NBlocks * BlockLen
    BY FlashFacts
  <2>2. m \in 0 .. T
    BY <1>2, <1>5, <2>1 DEF Types
  <2>3. QED
    BY <1>2, <1>4, <2>1, <2>2 DEF Types
<1>8. chip.op = "idle" /\ DataIs /\ (SpareBehind(u) \/ MapIs)
      /\ (Erases(r.op) => cache.page = NoPage)
  BY <1>1, <1>2 DEF Held, Steady, Cached, LaidOver
<1>9. /\ chip' \in ChipType /\ chip'.cells = chip.cells /\ chip'.op = chip.op
      /\ chip'.kind = chip.kind /\ ~chip'.wel
      /\ chip'.locked = chip.locked /\ chip'.open = chip.open
  <2>1. chip \in ChipType /\ chip' = WriteDisable(chip) /\ chip.op = "idle"
    BY <1>2, <1>8 DEF Types, WrDi
  <2>2. QED
    BY <2>1, Latch
<1>10. ~Reads(r.op)
  BY <1>1, <1>2 DEF Control
<1>11. Control(u)'
  <2>1. ~Erases(r.op) => ~Unaligned(r)
    BY DEF Unaligned
  <2>2. ~Unaligned(r)
    BY <1>1, <1>2 DEF Control
  <2>3. QED
    BY <1>1, <1>2, <1>7, <1>10, <2>2 DEF Control, Inside, Before, MtdOnly, WrDi, Same, history
<1>12. Progress(u)'
  <2>1. ~ByPage(r.op) => left[u] <= r.len /\ r.len \in Nat
    BY <1>2, CallFacts DEF Progress
  <2>2. ~ByPage(r.op) => m <= r.len
    BY <1>2, <1>5, <2>1
  <2>3. QED
    BY <1>7, <2>2 DEF Progress, WrDi, Same, Inside
<1>13. PieceIs(u)'
  BY <1>7 DEF PieceIs
<1>14. Held(u)'
  <2>1. Steady(u)' /\ Registers(u)'
    BY <1>7, <1>8, <1>9 DEF Steady, Registers
  <2>2. DataIs' /\ (MapIs => MapIs')
    BY <1>8, <1>9 DEF DataIs, MapIs, WrDi
  <2>3. SpareBehind(u) => SpareBehind(u)'
    BY <1>2, <1>7, OpFacts DEF SpareBehind, WrDi, Same
  <2>4. Cached(u)'
    BY <1>7, <1>8, <2>2, <2>3 DEF Cached, LaidOver, WrDi, Same
  <2>5. QED
    BY <2>1, <2>4 DEF Held
<1>15. Owed(u)' \subseteq Owed(u)
  <2>1. Owed(u)' = OwedOf(r, l, m, Len(piece.data))
    BY <1>7 DEF Owed, WrDi, Same
  <2>2. CASE r.op = "write"
    <3>1. /\ Owed(u) = {CellAt(a) : a \in r.addr + r.len - left[u] + Len(piece.data)
                                            .. r.addr + r.len - 1}
          /\ OwedOf(r, l, m, Len(piece.data)) =
               {CellAt(a) : a \in r.addr + r.len - m + 0 .. r.addr + r.len - 1}
      BY <1>1, <2>2, OwedIs DEF Owed
    <3>2. r.addr + r.len - m + 0 = r.addr + r.len - left[u] + Len(piece.data)
      BY <1>2, <1>6, <2>2, CallFacts
    <3>3. QED
      BY <2>1, <3>1, <3>2
  <2>3. CASE r.op # "write"
    <3>1. ByPage(r.op) \/ ~Programs(r.op)
      BY <1>2, <2>3, OpFacts
    <3>2. CASE ~Programs(r.op)
      BY <2>1, <3>2, OwedIs
    <3>3. CASE ByPage(r.op) /\ Programs(r.op)
      BY <2>1, <2>3, <3>3, OwedIs DEF Programs
    <3>4. QED
      BY <3>1, <3>2, <3>3
  <2>4. QED
    BY <2>2, <2>3
<1>16. l \in Inside
  BY DEF Inside
<1> HIDE DEF l
<1>17. QED
  BY <1>1, <1>2, <1>4, <1>7, <1>9, <1>11, <1>12, <1>13, <1>14, <1>15, <1>16, HolderRests
     DEF WrDi, Same, history, Types

-----------------------------------------------------------------------------
(* Around the lock.                                                        *)

(* The user of a step, which leaves the chip alone. *)
LEMMA FreeStep ==
  ASSUME IInv, NEW u \in party, NEW l \in {"idle", "enter"} \cup Inside \cup MtdOnly,
         at[u] \notin {"probe", "unlock"}, at' = [at EXCEPT ![u] = l],
         party' = party, chip' = chip, bit' = bit,
         cache' \in CacheType, piece' \in PieceType, lock' \in party \cup {Nobody},
         req' \in [AllUsers -> Calls \cup {Idle}],
         left' \in [AllUsers -> 0 .. NBlocks * BlockLen],
         todo' \in [AllUsers -> Request \cup {Idle}],
         \A v \in AllUsers : v # u =>
           /\ req'[v] = req[v] /\ left'[v] = left[v] /\ todo'[v] = todo[v]
           /\ lock' = v <=> lock = v
           /\ piece' = piece \/ at[v] \notin Inside,
         Control(u)', Progress(u)', PieceIs(u)', OwedBlank(u)',
         \A v \in party : lock' = v => Held(v)',
         lock' = Nobody => AtRest',
         Mtd \in party => Collected',
         Apart'
  PROVE  IInv'
<1>1. Types /\ u \in AllUsers
  BY PartyFacts DEF IInv
<1>2. /\ at' \in [AllUsers -> Before \cup {"enter"} \cup Inside \cup MtdOnly]
      /\ at'[u] = l /\ \A v \in AllUsers : v # u => at'[v] = at[v]
  BY <1>1 DEF Types, Before
<1>3. Types'
  BY <1>1, <1>2 DEF Types
<1>4. ASSUME NEW v \in AllUsers, v # u
      PROVE  /\ Control(v)'
             /\ v \in party => Progress(v)' /\ PieceIs(v)' /\ OwedBlank(v)'
  <2>1. /\ Control(v)' /\ (v \in party => Progress(v)' /\ PieceIs(v)')
        /\ Owed(v)' = Owed(v)
    <3>1. at'[v] = at[v] /\ req'[v] = req[v] /\ left'[v] = left[v] /\ todo'[v] = todo[v]
          /\ (lock' = v <=> lock = v) /\ (piece' = piece \/ at[v] \notin Inside)
      BY <1>2, <1>4
    <3>2. QED
      BY <3>1, Others
  <2>2. v \in party => OwedBlank(v)'
    <3>1. v \in party => OwedBlank(v)
      BY DEF IInv
    <3>2. req'[v] = req[v]
      BY <1>4
    <3>3. QED
      BY <2>1, <3>1, <3>2 DEF OwedBlank
  <2>3. QED
    BY <2>1, <2>2
<1>5. \A v \in AllUsers : Control(v)'
  BY <1>4
<1>6. \A v \in party' : Progress(v)' /\ PieceIs(v)' /\ OwedBlank(v)' /\ (lock' = v => Held(v)')
  BY <1>1, <1>4, PartyFacts
<1>7. SetUp'
  <2>1. l \notin {"probe", "unlock"}
    BY DEF Inside, MtdOnly
  <2>2. ~chip.locked
    BY <1>1 DEF IInv, SetUp
  <2>3. ASSUME NEW v \in AllUsers, at'[v] \in {"probe", "unlock"}
        PROVE  chip'.open = ~chip'.kind.gated
    <3>1. v # u /\ at[v] \in {"probe", "unlock"}
      BY <1>2, <2>1, <2>3
    <3>2. QED
      BY <3>1 DEF IInv, SetUp
  <2>4. QED
    BY <2>2, <2>3 DEF SetUp
<1>8. QED
  BY <1>3, <1>5, <1>6, <1>7, Zenon DEF IInv

(* Nothing that another user's place under the lock rests on. *)
LEMMA HeldStays ==
  ASSUME NEW v, Held(v), at'[v] = at[v], req'[v] = req[v],
         chip' = chip, bit' = bit, cache' = cache, piece' = piece
  PROVE  Held(v)'
BY DEF Held, Steady, Registers, Cached, LaidOver, SpareBehind, DataIs, MapIs, Overlaid

LEMMA ApartStays ==
  ASSUME IInv, party' = party, \A v \in party : req'[v] \in {req[v], Idle}
  PROVE  Apart'
BY DEF IInv, Apart

LEMMA EnterKeeps ==
  ASSUME IInv, NEW u \in party, Enter(u)
  PROVE  IInv'
<1> DEFINE r == req[u]
           l == IF Unaligned(r) THEN "leave" ELSE IF ByPage(r.op) THEN "load" ELSE "next"
<1>1. at[u] = "enter" /\ lock = Nobody /\ lock' = u
  BY DEF Enter
<1>2. Types /\ u \in AllUsers /\ Control(u) /\ Progress(u) /\ OwedBlank(u) /\ AtRest
  BY <1>1, PartyFacts DEF IInv
<1>3. r \in Calls /\ r # Idle
  BY <1>1, <1>2 DEF Types, Control, Before
<1>4. at' = [at EXCEPT ![u] = l]
  BY DEF Enter, Same, Goto
<1>5. at'[u] = l
  BY <1>2, <1>4 DEF Types
<1>6. cache' \in CacheType /\ (cache' = cache \/ cache'.page = NoPage)
      /\ (Erases(r.op) => cache'.page = NoPage)
  <2>1. cache \in CacheType
    BY <1>2 DEF Types
  <2>2. CASE Reads(r.op)
    BY <1>3, <2>1, <2>2, OpFacts DEF Enter
  <2>3. CASE ~Reads(r.op)
    <3>1. cache' = [cache EXCEPT !.page = NoPage]
      BY <2>3 DEF Enter, Cleared
    <3>2. QED
      BY <2>1, <3>1
  <2>4. QED
    BY <2>2, <2>3
<1>7. l \in {"leave", "load", "next"} /\ (l = "load" => ByPage(r.op) /\ ~Erases(r.op))
      /\ (l = "next" => ~ByPage(r.op)) /\ (l # "leave" => ~Unaligned(r))
  BY <1>3, OpFacts
<1> HIDE DEF l
<1>8. l \in Inside
  BY <1>7 DEF Inside
<1>9. Control(u)'
  BY <1>1, <1>2, <1>3, <1>5, <1>7, <1>8 DEF Control, Before, MtdOnly, Enter, Same, history
<1>10. Progress(u)'
  <2>1. ~ByPage(r.op) => left[u] = r.len /\ r.len \in Nat
    BY <1>1, <1>2, <1>3, CallFacts DEF Progress
  <2>2. QED
    BY <1>5, <1>7, <2>1 DEF Progress, Enter, Same
<1>11. PieceIs(u)'
  <2>1. SUFFICES ASSUME l = "load" PROVE PieceIs(u)'
    BY <1>5, <1>7 DEF PieceIs
  <2>2. r.op \notin {"read", "write"}
    BY <1>3, <1>7, <2>1, OpFacts
  <2>3. r.op \in {"mtdwrite", "mtdwriteoob"} => u = Mtd /\ Programs(r.op)
    BY <1>2, <1>3 DEF Control, MtdOps, Programs
  <2>4. r.op \in {"mtdwrite", "mtdwriteoob"} =>
          piece.page = Row(u) /\ (r.op = "mtdwriteoob" => piece.data = <<>>)
    BY <1>1, <2>3 DEF IInv, Collected
  <2>5. QED
    BY <2>2, <2>4 DEF PieceIs, Row, Enter, Same
<1>12. OwedBlank(u)'
  <2>1. OwedOf(r, l, left[u], Len(piece.data)) \subseteq OwedOf(r, at[u], left[u], Len(piece.data))
    BY <1>1, <1>7, OwedKept
  <2>2. Owed(u)' \subseteq Owed(u)
    BY <1>5, <2>1 DEF Owed, Enter, Same
  <2>3. QED
    BY <1>2, <2>2 DEF OwedBlank, Enter, Same
<1>13. Held(u)'
  <2>1. Steady(u)' /\ Registers(u)'
    BY <1>2, <1>5, <1>7 DEF AtRest, Steady, Registers, Enter
  <2>2. DataIs' /\ MapIs'
    BY <1>2, <1>6 DEF AtRest, DataIs, MapIs, Enter
  <2>3. Cached(u)'
    BY <1>5, <1>6, <1>7, <2>2 DEF Cached, LaidOver, Enter, Same
  <2>4. QED
    BY <2>1, <2>3 DEF Held
<1>14. Mtd \in party => Collected'
  <2>1. SUFFICES ASSUME Mtd \in party PROVE Collected'
    OBVIOUS
  <2>2. u = Mtd
    BY <1>2, <2>1, PartyFacts
  <2>3. QED
    BY <1>5, <1>7, <2>2 DEF Collected
<1>15. Apart'
  BY ApartStays DEF Enter, Same
<1>16. lock' # Nobody /\ \A v \in AllUsers : v # u => (lock' = v <=> lock = v)
  <2>1. Nobody \notin AllUsers /\ u # Nobody
    BY <1>2, NandMtdAssumption DEF AllUsers
  <2>2. QED
    BY <1>1, <2>1
<1>17. /\ party' = party /\ chip' = chip /\ bit' = bit /\ piece' = piece
       /\ req' = req /\ left' = left /\ todo' = todo
  BY DEF Enter, Same, history
<1>18. /\ piece' \in PieceType /\ req' \in [AllUsers -> Calls \cup {Idle}]
       /\ left' \in [AllUsers -> 0 .. NBlocks * BlockLen]
       /\ todo' \in [AllUsers -> Request \cup {Idle}]
       /\ lock' \in party \cup {Nobody}
  BY <1>1, <1>2, <1>17 DEF Types
<1>19. \A v \in party : lock' = v => Held(v)'
  BY <1>1, <1>13
<1>20. at[u] \notin {"probe", "unlock"}
  BY <1>1
<1>21. QED
  BY <1>4, <1>6, <1>8, <1>9, <1>10, <1>11, <1>12, <1>14, <1>15, <1>16, <1>17, <1>18, <1>19,
     <1>20, FreeStep

(* A call ends. *)
LEMMA ReturnKeeps ==
  ASSUME IInv, NEW u \in party, NEW s, at[u] \notin Before, Return(u, s),
         chip' = chip, bit' = bit, cache' \in CacheType, piece' = piece,
         lock' = Nobody, lock \in {u, Nobody}, AtRest'
  PROVE  IInv'
<1>1. Types /\ u \in AllUsers
  BY PartyFacts DEF IInv
<1>2. /\ at' = [at EXCEPT ![u] = "idle"] /\ req' = [req EXCEPT ![u] = Idle]
      /\ todo' = [todo EXCEPT ![u] = Idle] /\ left' = [left EXCEPT ![u] = 0]
  BY DEF Return, Goto
<1>3. at'[u] = "idle" /\ req'[u] = Idle /\ todo'[u] = Idle
      /\ req' \in [AllUsers -> Calls \cup {Idle}] /\ todo' \in [AllUsers -> Request \cup {Idle}]
      /\ \A v \in AllUsers : v # u => req'[v] = req[v] /\ todo'[v] = todo[v]
  BY <1>1, <1>2 DEF Types
<1>4. left' \in [AllUsers -> 0 .. NBlocks * BlockLen]
      /\ \A v \in AllUsers : v # u => left'[v] = left[v]
  BY <1>1, <1>2, FlashFacts DEF Types
<1>5. Nobody \notin AllUsers
  BY NandMtdAssumption DEF AllUsers
<1>6. Control(u)'
  BY <1>1, <1>3, <1>5 DEF Control, Before, Inside, MtdOnly
<1>7. Progress(u)' /\ OwedBlank(u)'
  BY <1>3 DEF Progress, OwedBlank
<1>8. PieceIs(u)'
  BY <1>3 DEF PieceIs, Inside
<1>9. Mtd \in party => Collected'
  <2>1. SUFFICES ASSUME Mtd \in party PROVE Collected'
    OBVIOUS
  <2>2. u = Mtd
    BY <1>1, <2>1, PartyFacts
  <2>3. QED
    BY <1>3, <2>2 DEF Collected
<1>10. Apart'
  <2>1. \A v \in party : req'[v] \in {req[v], Idle}
    BY <1>1, <1>3, PartyFacts
  <2>2. QED
    BY <2>1, ApartStays DEF Return
<1>11. at[u] \notin {"probe", "unlock"}
  BY DEF Before
<1>12. \A v \in AllUsers : v # u => (lock' = v <=> lock = v)
  BY <1>1, <1>5
<1>13. \A v \in party : lock' # v
  BY <1>1, PartyFacts
<1>14. piece' \in PieceType /\ lock' \in party \cup {Nobody} /\ party' = party
  BY <1>1 DEF Types, Return
<1>15. \A v \in AllUsers : v # u =>
         /\ req'[v] = req[v] /\ left'[v] = left[v] /\ todo'[v] = todo[v]
         /\ lock' = v <=> lock = v
         /\ piece' = piece \/ at[v] \notin Inside
  BY <1>3, <1>4, <1>12
<1>16. QED
  BY <1>2, <1>3, <1>4, <1>6, <1>7, <1>8, <1>9, <1>10, <1>11, <1>13, <1>14, <1>15, FreeStep

LEMMA LeaveKeeps ==
  ASSUME IInv, NEW u \in party, Leave(u)
  PROVE  IInv'
<1> DEFINE r == req[u]
           l == CASE Reads(r.op) -> "fetchbuf"
                  [] r.op = "mtdwriteoob" -> "return"
                  [] OTHER -> "waitfunc"
<1>1. at[u] = "leave" /\ at[u] \in Inside /\ lock' = Nobody
  BY DEF Leave, Inside
<1>2. /\ Types /\ u \in AllUsers /\ lock = u /\ r \in Calls /\ r # Idle /\ todo[u] # Idle
      /\ Control(u) /\ OwedBlank(u) /\ Held(u)
  BY <1>1, HolderHas
<1>3. chip.op = "idle" /\ ~chip.wel /\ DataIs /\ (SpareBehind(u) \/ MapIs) /\ chip' = chip
  BY <1>1, <1>2 DEF Held, Steady, Cached, LaidOver, Leave
<1>4. cache' \in CacheType /\ AtRest'
  <2>1. cache \in CacheType
    BY <1>2 DEF Types
  <2>2. CASE r.op \in {"mtdwrite", "mtdwriteoob"}
    <3>1. cache' = [cache EXCEPT !.page = NoPage]
      BY <2>2 DEF Leave, Cleared
    <3>2. cache' \in CacheType /\ cache'.page = NoPage
      BY <2>1, <3>1
    <3>3. QED
      BY <1>3, <3>2 DEF AtRest, DataIs, MapIs
  <2>3. CASE r.op \notin {"mtdwrite", "mtdwriteoob"}
    <3>1. cache' = cache /\ MapIs
      BY <1>3, <2>3 DEF Leave, SpareBehind
    <3>2. QED
      BY <1>3, <2>1, <3>1 DEF AtRest, DataIs, MapIs
  <2>4. QED
    BY <2>2, <2>3
<1>5. CASE u # Mtd
  <2>1. Return(u, got[u])
    BY <1>5 DEF Leave
  <2>2. at[u] \notin Before
    BY <1>1 DEF Before
  <2>3. bit' = bit /\ piece' = piece
    BY DEF Leave
  <2>4. QED
    BY <1>1, <1>2, <1>3, <1>4, <2>1, <2>2, <2>3, ReturnKeeps
<1>6. CASE u = Mtd
  <2>1. at' = [at EXCEPT ![u] = l] /\ req' = req /\ party' = party
        /\ left' = left /\ todo' = todo
    BY <1>6 DEF Leave, Same, Goto, history
  <2>2. at'[u] = l
    BY <1>2, <2>1 DEF Types
  <2>3. l \in {"fetchbuf", "return", "waitfunc"}
    OBVIOUS
  <2> HIDE DEF l
  <2>4. l \in MtdOnly /\ l \notin Inside /\ l \notin Before /\ at[u] \notin Before
    BY <1>1, <2>3 DEF MtdOnly, Inside, Before
  <2>5. Nobody \notin AllUsers
    BY NandMtdAssumption DEF AllUsers
  <2>6. Control(u)'
    BY <1>1, <1>2, <1>6, <2>1, <2>2, <2>3, <2>4, <2>5 DEF Control
  <2>7. Progress(u)'
    BY <1>1, <1>2, <2>1, <2>2, <2>3, <2>4, HolderHas DEF Progress
  <2>8. PieceIs(u)'
    BY <2>2, <2>4 DEF PieceIs
  <2>9. OwedBlank(u)'
    <3>1. OwedOf(r, l, left[u], Len(piece.data))
            \subseteq OwedOf(r, at[u], left[u], Len(piece.data))
      <4>1. CASE Reads(r.op)
        BY <1>2, <4>1, OpFacts, OwedIs
      <4>2. CASE ~Reads(r.op)
        <5>1. l \in {"return", "waitfunc"}
          BY <4>2 DEF l
        <5>2. QED
          BY <1>1, <5>1, OwedKept
      <4>3. QED
        BY <4>1, <4>2
    <3>2. Owed(u)' \subseteq Owed(u)
      BY <2>1, <2>2, <3>1 DEF Owed, Leave
    <3>3. QED
      BY <1>2, <1>3, <2>1, <3>2 DEF OwedBlank
  <2>10. Collected'
    BY <1>6, <2>2, <2>3 DEF Collected
  <2>11. Apart'
    BY <2>1, ApartStays
  <2>12. \A v \in AllUsers : v # u => (lock' = v <=> lock = v)
    BY <1>1, <1>2, <2>5
  <2>13. \A v \in party : lock' # v
    BY <1>1, <1>2, PartyFacts
  <2>14. bit' = bit /\ piece' = piece /\ at[u] \notin {"probe", "unlock"}
    BY <1>1 DEF Leave
  <2>15. QED
    BY <1>1, <1>2, <1>3, <1>4, <2>1, <2>4, <2>6, <2>7, <2>8, <2>9, <2>10, <2>11, <2>12,
       <2>13, <2>14, FreeStep DEF Types
<1>7. QED
  BY <1>5, <1>6

LEMMA BeginKeeps ==
  ASSUME IInv, NEW u \in party, NEW r \in Calls, Begin(u, r)
  PROVE  IInv'
<1> DEFINE l == IF r.op \in DirectOps THEN "enter" ELSE IF Reads(r.op) THEN "read0" ELSE "status"
<1>1. at[u] = "idle" /\ (u = Mtd <=> r.op \in MtdOps)
  BY DEF Begin
<1>2. Types /\ u \in AllUsers /\ Control(u)
  BY PartyFacts DEF IInv
<1>3. r # Idle /\ Asked(r) \in Request /\ Asked(r) # Idle /\ req[u] = Idle
  BY <1>1, <1>2, AskedIsRequest, IdleAssumption DEF Control, Before
<1>4. /\ at' = [at EXCEPT ![u] = l] /\ req' = [req EXCEPT ![u] = r]
      /\ left' = [left EXCEPT ![u] = r.len] /\ todo' = [todo EXCEPT ![u] = Asked(r)]
      /\ party' = party /\ chip' = chip /\ bit' = bit /\ cache' = cache /\ lock' = lock
      /\ piece' = piece
  BY DEF Begin, Goto
<1>5. /\ at'[u] = l /\ req'[u] = r /\ left'[u] = r.len /\ todo'[u] # Idle
      /\ req' \in [AllUsers -> Calls \cup {Idle}] /\ todo' \in [AllUsers -> Request \cup {Idle}]
      /\ \A v \in AllUsers : v # u =>
           at'[v] = at[v] /\ req'[v] = req[v] /\ left'[v] = left[v] /\ todo'[v] = todo[v]
  BY <1>2, <1>3, <1>4 DEF Types
<1>6. left' \in [AllUsers -> 0 .. NBlocks * BlockLen]
  <2>1. PICK T \in Nat : T = NBlocks * BlockLen
    BY FlashFacts
  <2>2. r.len \in 0 .. T
    BY <2>1, CallFacts
  <2>3. QED
    BY <1>2, <1>4, <2>1, <2>2 DEF Types
<1>7. /\ l \in {"enter", "read0", "status"}
      /\ l = "enter" <=> r.op \in DirectOps
      /\ l = "read0" => Reads(r.op) /\ r.op \in MtdOps
      /\ l = "status" => ~Reads(r.op) /\ r.op \in MtdOps
  <2>1. r.op \in DirectOps \cup MtdOps
    BY CallFacts
  <2>2. QED
    BY <2>1
<1> HIDE DEF l
<1>8. l \notin Before /\ l \notin Inside /\ l \in {"idle", "enter"} \cup Inside \cup MtdOnly
      /\ at[u] \notin Inside
  BY <1>1, <1>7 DEF Before, Inside, MtdOnly
<1>9. Control(u)'
  <2>1. lock' # u
    BY <1>2, <1>4, <1>8 DEF Control
  <2>2. l \in MtdOnly => u = Mtd
    BY <1>1, <1>7 DEF MtdOnly
  <2>3. l \notin {"wren", "wait", "wrdi", "lay", "pload", "exec", "seqin", "data", "pageprog",
                  "writeoob", "load", "loading", "fetch", "erase", "copy", "next"}
    BY <1>7
  <2>4. l = "read0" => Reads(r.op)
    BY <1>7
  <2>5. l = "status" => ~Reads(r.op)
    BY <1>7
  <2>6. /\ req'[u] = r /\ r # Idle /\ at'[u] = l /\ todo'[u] # Idle
        /\ (u = Mtd <=> r.op \in MtdOps)
    BY <1>1, <1>3, <1>5
  <2> HIDE DEF l
  <2>7. QED
    BY <1>8, <2>1, <2>2, <2>3, <2>4, <2>5, <2>6 DEF Control
<1>10. Progress(u)'
  BY <1>5, <1>7, <1>8, CallFacts DEF Progress
<1>11. PieceIs(u)'
  BY <1>5, <1>8 DEF PieceIs
<1>12. Programs(r.op) => \A c \in Filled[r] :
         /\ chip.cells[c[1]][c[2]] = Blank
         /\ \A v \in party : req[v] # Idle => c \notin Filled[req[v]]
  BY OpFacts DEF Begin, Sensible
<1>13. OwedBlank(u)'
  <2>1. Owed(u)' = OwedOf(r, l, r.len, Len(piece.data))
    BY <1>4, <1>5 DEF Owed
  <2>2. CASE ~Programs(r.op)
    BY <2>1, <2>2, OwedIs DEF OwedBlank
  <2>3. CASE Programs(r.op)
    <3>1. r.len \in Nat /\ r.len <= r.len /\ Len(piece.data) \in Nat
      BY <1>2, CallFacts DEF Types
    <3>2. Owed(u)' \subseteq Filled[r]
      BY <2>1, <2>3, <3>1, OwedInFilled
    <3>3. QED
      BY <1>4, <1>12, <2>3, <3>2 DEF OwedBlank
  <2>4. QED
    BY <2>2, <2>3
<1>14. Apart'
  <2>1. SUFFICES ASSUME NEW v \in party, NEW w \in party, v # w,
                        req'[v] # Idle, req'[w] # Idle,
                        Programs(req'[v].op), Programs(req'[w].op)
                 PROVE  Filled[req'[v]] \cap Filled[req'[w]] = {}
    BY <1>4 DEF Apart
  <2>2. v \in AllUsers /\ w \in AllUsers
    BY <1>2, PartyFacts
  <2>3. CASE v = u
    BY <1>5, <1>12, <2>1, <2>2, <2>3
  <2>4. CASE w = u
    BY <1>5, <1>12, <2>1, <2>2, <2>4
  <2>5. CASE v # u /\ w # u
    BY <1>5, <2>1, <2>2, <2>5 DEF IInv, Apart
  <2>6. QED
    BY <2>3, <2>4, <2>5
<1>15. Mtd \in party => Collected'
  <2>1. SUFFICES ASSUME Mtd \in party PROVE Collected'
    OBVIOUS
  <2>2. u = Mtd
    BY <1>2, <2>1, PartyFacts
  <2>3. l # "enter"
    BY <1>1, <1>7, <2>2 DEF DirectOps, MtdOps
  <2>4. QED
    BY <1>5, <1>7, <2>2, <2>3 DEF Collected
<1>16. \A v \in party : lock' = v => Held(v)'
  <2>1. SUFFICES ASSUME NEW v \in party, lock = v PROVE Held(v)'
    BY <1>4
  <2>2. v \in AllUsers /\ v # u /\ Held(v)
    BY <1>2, <1>8, <2>1, PartyFacts DEF IInv, Control
  <2>3. QED
    BY <1>4, <1>5, <2>2, HeldStays
<1>17. lock' = Nobody => AtRest'
  BY <1>4 DEF IInv, AtRest, DataIs, MapIs
<1>18. cache' \in CacheType /\ piece' \in PieceType /\ lock' \in party \cup {Nobody}
       /\ at[u] \notin {"probe", "unlock"}
  BY <1>1, <1>2, <1>4 DEF Types
<1>19. QED
  BY <1>4, <1>5, <1>6, <1>8, <1>9, <1>10, <1>11, <1>13, <1>14, <1>15, <1>16, <1>17, <1>18,
     FreeStep

-----------------------------------------------------------------------------
(* MTD, between two calls to the driver.                                   *)

LEMMA MtdStep ==
  ASSUME IInv, Mtd \in party, NEW l \in {"enter"} \cup MtdOnly,
         at[Mtd] \in MtdOnly \ {"waitfunc", "return"},
         at' = [at EXCEPT ![Mtd] = l],
         party' = party, chip' = chip, bit' = bit, cache' = cache, lock' = lock,
         req' = req, left' = left, todo' = todo, piece' \in PieceType,
         l = "status" => at[Mtd] = "status",
         l = "enter" => at[Mtd] = "status" \/ ByPage(req[Mtd].op),
         Control(Mtd)', Collected'
  PROVE  IInv'
<1>1. Types /\ Mtd \in AllUsers /\ Control(Mtd) /\ Progress(Mtd) /\ OwedBlank(Mtd)
  BY PartyFacts DEF IInv
<1>2. at'[Mtd] = l
  BY <1>1 DEF Types
<1>3. l \notin Inside /\ at[Mtd] \notin Inside /\ at[Mtd] \notin {"probe", "unlock"}
      /\ l \notin {"wait", "wrdi"} /\ at[Mtd] \notin {"wait", "wrdi", "leave", "waitfunc", "return"}
  BY DEF MtdOnly, Inside
<1>4. lock = Nobody /\ AtRest
  <2>1. lock # Mtd
    BY <1>1, <1>3 DEF Control
  <2>2. lock = Nobody
    BY <1>1, <2>1, PartyFacts DEF Types
  <2>3. QED
    BY <2>2 DEF IInv
<1>5. Progress(Mtd)'
  BY <1>1, <1>2, <1>3 DEF Progress
<1>6. PieceIs(Mtd)'
  BY <1>2, <1>3 DEF PieceIs
<1>7. OwedBlank(Mtd)'
  <2>1. OwedOf(req[Mtd], l, left[Mtd], Len(piece'.data))
          \subseteq OwedOf(req[Mtd], at[Mtd], left[Mtd], Len(piece.data))
    BY <1>3, OwedKept
  <2>2. Owed(Mtd)' \subseteq Owed(Mtd)
    BY <1>2, <2>1 DEF Owed
  <2>3. QED
    BY <1>1, <2>2 DEF OwedBlank
<1>8. Apart'
  BY ApartStays
<1>9. AtRest'
  BY <1>4 DEF AtRest, DataIs, MapIs
<1>10. \A v \in party : lock' # v
  BY <1>1, <1>4, PartyFacts
<1>11. \A v \in AllUsers : v # Mtd => (piece' = piece \/ at[v] \notin Inside)
  <2>1. Nobody \notin AllUsers
    BY NandMtdAssumption DEF AllUsers
  <2>2. QED
    BY <1>4, <2>1 DEF IInv, Control
<1>12. /\ cache' \in CacheType /\ lock' \in party \cup {Nobody}
       /\ req' \in [AllUsers -> Calls \cup {Idle}]
       /\ left' \in [AllUsers -> 0 .. NBlocks * BlockLen]
       /\ todo' \in [AllUsers -> Request \cup {Idle}]
  BY <1>1 DEF Types
<1>13. QED
  BY <1>2, <1>3, <1>5, <1>6, <1>7, <1>8, <1>9, <1>10, <1>11, <1>12, FreeStep

LEMMA MtdHas ==
  ASSUME IInv, Mtd \in party, at[Mtd] \in MtdOnly
  PROVE  /\ Types /\ Mtd \in AllUsers /\ Control(Mtd) /\ Collected
         /\ req[Mtd] \in Calls /\ req[Mtd] # Idle /\ req[Mtd].op \in MtdOps /\ todo[Mtd] # Idle
         /\ lock = Nobody /\ AtRest /\ Row(Mtd) \in PageNumbers
<1>1. Types /\ Mtd \in AllUsers /\ Control(Mtd) /\ Collected
  BY PartyFacts DEF IInv
<1>2. at[Mtd] \notin Before /\ at[Mtd] \notin Inside
  BY DEF MtdOnly, Before, Inside
<1>3. req[Mtd] # Idle /\ todo[Mtd] # Idle /\ req[Mtd].op \in MtdOps /\ lock # Mtd
  BY <1>1, <1>2 DEF Control
<1>4. req[Mtd] \in Calls
  BY <1>1, <1>3 DEF Types
<1>5. lock = Nobody
  BY <1>1, <1>3, PartyFacts DEF Types
<1>6. QED
  BY <1>1, <1>3, <1>4, <1>5, RowFacts DEF IInv, Row

(* The next place of MTD, outside the lock as before. *)
LEMMA MtdControl ==
  ASSUME IInv, Mtd \in party, NEW l \in {"enter"} \cup MtdOnly, at[Mtd] \in MtdOnly,
         at' = [at EXCEPT ![Mtd] = l], req' = req, todo' = todo, lock' = lock,
         l = "read0" => Reads(req[Mtd].op),
         l = "status" => ~Reads(req[Mtd].op),
         l \in {"seqin", "data", "pageprog"} => req[Mtd].op = "mtdwrite",
         l = "writeoob" => req[Mtd].op = "mtdwriteoob"
  PROVE  Control(Mtd)' /\ at'[Mtd] = l
<1>1. /\ Types /\ Mtd \in AllUsers /\ Control(Mtd) /\ req[Mtd] # Idle
      /\ req[Mtd].op \in MtdOps /\ todo[Mtd] # Idle /\ lock = Nobody /\ Mtd # Nobody
  BY MtdHas, PartyFacts
<1>2. at'[Mtd] = l
  BY <1>1 DEF Types
<1>3. l \notin Before /\ l \notin Inside
  BY DEF MtdOnly, Before, Inside
<1>4. QED
  BY <1>1, <1>2, <1>3 DEF Control, Inside

LEMMA StatusKeeps ==
  ASSUME IInv, Mtd \in party, Status
  PROVE  IInv'
<1> DEFINE l == CASE req[Mtd].op = "mtdwrite" -> "seqin"
                  [] req[Mtd].op = "mtdwriteoob" -> "writeoob"
                  [] OTHER -> "enter"
<1>1. at[Mtd] = "status" /\ at[Mtd] \in MtdOnly \ {"waitfunc", "return"}
  BY DEF Status, MtdOnly
<1>2. /\ Types /\ req[Mtd].op \in MtdOps
  BY <1>1, MtdHas
<1>3. at' = [at EXCEPT ![Mtd] = l]
  BY DEF Status, Same, Goto
<1>4. /\ l \in {"seqin", "writeoob", "enter"}
      /\ l = "seqin" => req[Mtd].op = "mtdwrite"
      /\ l = "writeoob" => req[Mtd].op = "mtdwriteoob"
      /\ l = "enter" => ~Programs(req[Mtd].op)
  BY <1>2 DEF Programs, MtdOps
<1> HIDE DEF l
<1>5. l \in {"enter"} \cup MtdOnly
  BY <1>4 DEF MtdOnly
<1>6. Control(Mtd)' /\ at'[Mtd] = l
  BY <1>1, <1>3, <1>4, <1>5, MtdControl DEF Status, Same, history
<1>7. Collected'
  BY <1>4, <1>6 DEF Collected, Programs, Status, Same
<1>8. piece' \in PieceType
  BY <1>2 DEF Types, Status
<1>9. QED
  BY <1>1, <1>3, <1>4, <1>5, <1>6, <1>7, <1>8, MtdStep DEF Status, Same, history

LEMMA ReadCommandKeeps ==
  ASSUME IInv, Mtd \in party, ReadCommand
  PROVE  IInv'
<1>1. at[Mtd] = "read0" /\ at[Mtd] \in MtdOnly \ {"waitfunc", "return"}
  BY DEF ReadCommand, MtdOnly
<1>2. /\ Types /\ req[Mtd] \in Calls /\ Reads(req[Mtd].op) /\ req[Mtd].op \in MtdOps
      /\ Row(Mtd) \in PageNumbers
  BY <1>1, MtdHas DEF Control
<1>3. ByPage(req[Mtd].op) /\ ~Programs(req[Mtd].op)
  BY <1>2 DEF ByPage, Reads, MtdOps, Programs
<1>4. at' = [at EXCEPT ![Mtd] = "enter"]
  BY DEF ReadCommand, Same, Goto
<1>5. "enter" \in {"enter"} \cup MtdOnly
  OBVIOUS
<1>6. Control(Mtd)' /\ at'[Mtd] = "enter"
  BY <1>1, <1>4, <1>5, MtdControl DEF ReadCommand, Same, history
<1>7. Collected'
  BY <1>3, <1>6 DEF Collected, Programs, ReadCommand, Same
<1>8. piece' \in PieceType
  <2>1. piece' = [page |-> Row(Mtd), off |-> 0, data |-> <<>>, oob |-> Blank]
    BY DEF ReadCommand, NoPiece
  <2>2. QED
    BY <1>2, <2>1, TextFacts, SizeFacts
<1>9. QED
  BY <1>1, <1>3, <1>4, <1>5, <1>6, <1>7, <1>8, MtdStep DEF ReadCommand, Same, history

LEMMA SeqInKeeps ==
  ASSUME IInv, Mtd \in party, SeqIn
  PROVE  IInv'
<1>1. at[Mtd] = "seqin" /\ at[Mtd] \in MtdOnly \ {"waitfunc", "return"}
  BY DEF SeqIn, MtdOnly
<1>2. Types /\ req[Mtd].op = "mtdwrite"
  BY <1>1, MtdHas DEF Control
<1>3. at' = [at EXCEPT ![Mtd] = "data"]
  BY DEF SeqIn, Same, Goto
<1>4. "data" \in {"enter"} \cup MtdOnly
  BY DEF MtdOnly
<1>5. Control(Mtd)' /\ at'[Mtd] = "data"
  BY <1>1, <1>2, <1>3, <1>4, MtdControl DEF SeqIn, Same, history
<1>6. Collected'
  BY <1>5 DEF Collected, Row, SeqIn, Same
<1>7. piece' \in PieceType
  BY <1>2 DEF Types, SeqIn
<1>8. QED
  BY <1>1, <1>3, <1>4, <1>5, <1>6, <1>7, MtdStep DEF SeqIn, Same, history

LEMMA WritePageHweccKeeps ==
  ASSUME IInv, Mtd \in party, WritePageHwecc
  PROVE  IInv'
<1>1. at[Mtd] = "data" /\ at[Mtd] \in MtdOnly \ {"waitfunc", "return"}
  BY DEF WritePageHwecc, MtdOnly
<1>2. Types /\ req[Mtd].op = "mtdwrite" /\ state = [Quiet EXCEPT !.command = "seqin", !.row = Row(Mtd)]
  BY <1>1, MtdHas DEF Control, Collected
<1>3. at' = [at EXCEPT ![Mtd] = "pageprog"]
  BY DEF WritePageHwecc, Same, Goto
<1>4. "pageprog" \in {"enter"} \cup MtdOnly
  BY DEF MtdOnly
<1>5. Control(Mtd)' /\ at'[Mtd] = "pageprog"
  BY <1>1, <1>2, <1>3, <1>4, MtdControl DEF WritePageHwecc, Same, history
<1>6. /\ state'.idx = 0 /\ state'.len = PageSize /\ state'.row = Row(Mtd)
      /\ state'.buf \in PageType /\ state'.oob \in Val
  <2> DEFINE s == SubSeq(Text, 1, PageSize)
             new == [k \in Columns |-> IF k - 0 \in DOMAIN s THEN s[k - 0] ELSE BlankPage[k]]
             one == [command |-> "seqin", idx |-> 0, len |-> PageSize, col |-> PageSize,
                     row |-> Row(Mtd), buf |-> new, oob |-> Blank]
  <2>1. Len(s) = PageSize /\ DOMAIN s = 1 .. PageSize /\ \A k \in 1 .. PageSize : s[k] \in Val
    <3>1. 1 \in 1 .. Len(Text) /\ PageSize \in 1 .. Len(Text) /\ PageSize \in Nat
      BY TextFacts, SizeFacts
    <3>2. Len(s) = PageSize /\ DOMAIN s = 1 .. PageSize
          /\ \A k \in 1 .. PageSize : s[k] = Text[k]
      BY <3>1, TextFacts
    <3>3. QED
      BY <3>1, <3>2, TextFacts
  <2>2. state = [command |-> "seqin", idx |-> 0, len |-> 0, col |-> 0, row |-> Row(Mtd),
                 buf |-> BlankPage, oob |-> Blank]
    BY <1>2 DEF Quiet
  <2> HIDE DEF s
  <2>3. WriteBuf(state, s) = one
    <3>1. PageSize > 0 /\ PageSize \in Nat
      BY SizeFacts
    <3>2. WriteBuf(state, s) =
            [state EXCEPT !.buf = [k \in Columns |-> IF k - state.idx \in DOMAIN s
                                     THEN s[k - state.idx] ELSE state.buf[k]],
                          !.col = state.col + Len(s), !.len = state.len + Len(s)]
      BY <2>2, <3>1 DEF WriteBuf
    <3>3. [k \in Columns |-> IF k - state.idx \in DOMAIN s
                              THEN s[k - state.idx] ELSE state.buf[k]] = new
      BY <2>2
    <3>4. state.col + Len(s) = PageSize /\ state.len + Len(s) = PageSize
      BY <2>1, <2>2, <3>1
    <3> HIDE DEF new
    <3>5. QED
      BY <2>2, <3>2, <3>3, <3>4
  <2>4. new \in PageType
    <3>1. \A k \in Columns : k - 0 = k /\ BlankPage[k] \in Val
      BY SizeFacts, TextFacts DEF BlankPage
    <3>2. QED
      BY <2>1, <3>1 DEF PageType
  <2> HIDE DEF new
  <2>5. state' = [one EXCEPT !.oob = Text[Spare], !.col = PageSize + 1]
    <3>1. state' = WriteBuf(one, <<Text[Spare]>>)
      BY <2>3 DEF WritePageHwecc, s
    <3>2. PageSize >= PageSize
      BY SizeFacts
    <3>3. QED
      BY <3>1, <3>2 DEF WriteBuf
  <2>6. Text[Spare] \in Val
    BY SizeFacts, TextFacts
  <2>7. QED
    BY <2>4, <2>5, <2>6
<1>7. Collected'
  BY <1>5, <1>6 DEF Collected, Row, WritePageHwecc, Same
<1>8. piece' \in PieceType
  BY <1>2 DEF Types, WritePageHwecc
<1>9. QED
  BY <1>1, <1>3, <1>4, <1>5, <1>7, <1>8, MtdStep DEF WritePageHwecc, Same, history

LEMMA PageProgKeeps ==
  ASSUME IInv, Mtd \in party, PageProg
  PROVE  IInv'
<1>1. at[Mtd] = "pageprog" /\ at[Mtd] \in MtdOnly \ {"waitfunc", "return"}
  BY DEF PageProg, MtdOnly
<1>2. /\ req[Mtd].op = "mtdwrite" /\ Row(Mtd) \in PageNumbers
      /\ state.idx = 0 /\ state.len = PageSize /\ state.row = Row(Mtd)
      /\ state.buf \in PageType /\ state.oob \in Val
  BY <1>1, MtdHas DEF Control, Collected
<1>3. at' = [at EXCEPT ![Mtd] = "enter"]
  BY DEF PageProg, Same, Goto
<1>4. "enter" \in {"enter"} \cup MtdOnly
  OBVIOUS
<1>5. Control(Mtd)' /\ at'[Mtd] = "enter"
  BY <1>1, <1>3, <1>4, MtdControl DEF PageProg, Same, history
<1>6. piece' \in PieceType /\ piece'.page = Row(Mtd)
  <2>1. PICK off \in StackOffsets :
          piece' = [page |-> Row(Mtd), off |-> off, oob |-> state.oob,
                    data |-> SubSeq(state.buf, 0 + 1, 0 + PageSize)]
    BY <1>2 DEF PageProg
  <2>2. off \in 0 .. PageSize
    BY NandMtdAssumption
  <2>3. SubSeq(state.buf, 0 + 1, 0 + PageSize) \in Seq(Val)
    <3>1. state.buf \in Seq(Val)
      BY <1>2, PageIsSeq DEF PageType
    <3>2. Len(state.buf) = PageSize + 1 /\ PageSize \in Nat \ {0}
      BY <1>2, <3>1, SizeFacts DEF PageType
    <3>3. QED
      BY <3>1, <3>2
  <2>4. QED
    BY <1>2, <2>1, <2>2, <2>3
<1>7. Collected'
  BY <1>2, <1>5, <1>6 DEF Collected, Row, PageProg, Same
<1>8. ByPage(req[Mtd].op)
  BY <1>2 DEF ByPage, MtdOps
<1>9. QED
  BY <1>1, <1>3, <1>4, <1>5, <1>6, <1>7, <1>8, MtdStep DEF PageProg, Same, history

LEMMA WriteOobKeeps ==
  ASSUME IInv, Mtd \in party, WriteOob
  PROVE  IInv'
<1>1. at[Mtd] = "writeoob" /\ at[Mtd] \in MtdOnly \ {"waitfunc", "return"}
  BY DEF WriteOob, MtdOnly
<1>2. req[Mtd].op = "mtdwriteoob" /\ Row(Mtd) \in PageNumbers
  BY <1>1, MtdHas DEF Control
<1>3. at' = [at EXCEPT ![Mtd] = "enter"]
  BY DEF WriteOob, Same, Goto
<1>4. "enter" \in {"enter"} \cup MtdOnly
  OBVIOUS
<1>5. Control(Mtd)' /\ at'[Mtd] = "enter"
  BY <1>1, <1>3, <1>4, MtdControl DEF WriteOob, Same, history
<1>6. piece' \in PieceType /\ piece'.page = Row(Mtd) /\ piece'.data = <<>>
  <2>1. PICK off \in StackOffsets :
          piece' = [page |-> Row(Mtd), off |-> off, oob |-> Text[1], data |-> <<>>]
    BY DEF WriteOob
  <2>2. off \in 0 .. PageSize /\ Text[1] \in Val
    BY NandMtdAssumption, TextFacts, SizeFacts
  <2>3. QED
    BY <1>2, <2>1, <2>2
<1>7. Collected'
  BY <1>5, <1>6 DEF Collected, Row, WriteOob, Same
<1>8. ByPage(req[Mtd].op)
  BY <1>2 DEF ByPage, MtdOps
<1>9. QED
  BY <1>1, <1>3, <1>4, <1>5, <1>6, <1>7, <1>8, MtdStep DEF WriteOob, Same, history

LEMMA ReadPageHweccKeeps ==
  ASSUME IInv, Mtd \in party, ReadPageHwecc
  PROVE  IInv'
<1>1. at[Mtd] \in MtdOnly /\ at[Mtd] \notin Before
  BY DEF ReadPageHwecc, MtdOnly, Before
<1>2. /\ Types /\ lock = Nobody /\ AtRest
      /\ chip' = chip /\ cache' = cache /\ bit' = bit /\ lock' = lock /\ piece' = piece
  BY <1>1, MtdHas DEF ReadPageHwecc
<1>3. AtRest' /\ cache' \in CacheType
  BY <1>2 DEF AtRest, DataIs, MapIs, Types
<1>4. PICK s : Return(Mtd, s)
  BY DEF ReadPageHwecc
<1>5. QED
  BY <1>1, <1>2, <1>3, <1>4, ReturnKeeps

LEMMA ReadBufKeeps ==
  ASSUME IInv, Mtd \in party, ReadBuf
  PROVE  IInv'
<1>1. at[Mtd] \in MtdOnly /\ at[Mtd] \notin Before
  BY DEF ReadBuf, MtdOnly, Before
<1>2. /\ Types /\ lock = Nobody /\ AtRest
      /\ chip' = chip /\ cache' = cache /\ bit' = bit /\ lock' = lock /\ piece' = piece
  BY <1>1, MtdHas DEF ReadBuf
<1>3. AtRest' /\ cache' \in CacheType
  BY <1>2 DEF AtRest, DataIs, MapIs, Types
<1>4. PICK s : Return(Mtd, s)
  BY DEF ReadBuf
<1>5. QED
  BY <1>1, <1>2, <1>3, <1>4, ReturnKeeps

LEMMA WaitFuncKeeps ==
  ASSUME IInv, Mtd \in party, WaitFunc
  PROVE  IInv'
<1>1. at[Mtd] \in MtdOnly /\ at[Mtd] \notin Before
  BY DEF WaitFunc, MtdOnly, Before
<1>2. /\ Types /\ lock = Nobody /\ AtRest
      /\ chip' = chip /\ cache' = cache /\ bit' = bit /\ lock' = lock /\ piece' = piece
  BY <1>1, MtdHas DEF WaitFunc
<1>3. AtRest' /\ cache' \in CacheType
  BY <1>2 DEF AtRest, DataIs, MapIs, Types
<1>4. Return(Mtd, <<>>)
  BY DEF WaitFunc
<1>5. QED
  BY <1>1, <1>2, <1>3, <1>4, ReturnKeeps

-----------------------------------------------------------------------------
(* Setting up, and the chip.                                               *)

(* Users go from one place before their calls to another. *)
LEMMA SetUpStep ==
  ASSUME IInv, lock = Nobody,
         at' \in [AllUsers -> Before \cup {"enter"} \cup Inside \cup MtdOnly],
         \A v \in AllUsers : at'[v] = at[v] \/ (at[v] \in Before /\ at'[v] \in Before),
         chip' \in ChipType, chip'.cells = chip.cells, chip'.op = chip.op,
         chip'.wel = chip.wel,
         state' = state \/ at'[Mtd] \in Before,
         party' = party, bit' = bit, cache' = cache, lock' = lock, req' = req,
         left' = left, piece' = piece, todo' = todo,
         SetUp'
  PROVE  IInv'
<1>1. Types
  BY DEF IInv
<1>2. Types'
  BY <1>1 DEF Types
<1>3. Nobody \notin AllUsers /\ Nobody \notin party
  BY <1>1, PartyFacts, NandMtdAssumption DEF AllUsers
<1>4. \A v \in AllUsers : at[v] \in Before => at[v] \notin Inside /\ at[v] \notin MtdOnly
  BY DEF Before, Inside, MtdOnly
<1>5. ASSUME NEW v \in AllUsers PROVE Control(v)'
  <2>1. Control(v)
    BY DEF IInv
  <2>2. CASE at'[v] = at[v]
    BY <2>1, <2>2 DEF Control
  <2>3. CASE at[v] \in Before /\ at'[v] \in Before
    <3>1. req[v] = Idle /\ todo[v] = Idle /\ at'[v] \notin Inside /\ at'[v] \notin MtdOnly
          /\ lock # v
      BY <1>3, <2>1, <2>3 DEF Control, Before, Inside, MtdOnly
    <3>2. QED
      BY <2>3, <3>1 DEF Control
  <2>4. QED
    BY <2>2, <2>3
<1>6. ASSUME NEW v \in party PROVE Progress(v)' /\ PieceIs(v)' /\ OwedBlank(v)'
  <2>1. v \in AllUsers /\ Control(v) /\ Progress(v) /\ PieceIs(v) /\ OwedBlank(v)
    BY <1>1, PartyFacts DEF IInv
  <2>2. CASE at'[v] = at[v]
    <3>1. Progress(v)'
      BY <2>1, <2>2 DEF Progress
    <3>2. PieceIs(v)'
      BY <2>1, <2>2 DEF PieceIs, Pos, Row
    <3>3. Owed(v)' = Owed(v)
      BY <2>2 DEF Owed
    <3>4. QED
      BY <2>1, <3>1, <3>2, <3>3 DEF OwedBlank
  <2>3. CASE at[v] \in Before /\ at'[v] \in Before
    <3>1. req'[v] = Idle /\ at'[v] \notin Inside
      BY <2>1, <2>3 DEF Control, Before, Inside
    <3>2. QED
      BY <3>1 DEF Progress, PieceIs, OwedBlank
  <2>4. QED
    BY <2>1, <2>2, <2>3
<1>7. AtRest'
  BY DEF IInv, AtRest, DataIs, MapIs
<1>8. Mtd \in party => Collected'
  <2>1. SUFFICES ASSUME Mtd \in party PROVE Collected'
    OBVIOUS
  <2>2. Mtd \in AllUsers /\ Collected
    BY <1>1, <2>1, PartyFacts DEF IInv
  <2>3. CASE at'[Mtd] \in Before
    BY <2>3 DEF Collected, Before
  <2>4. CASE at'[Mtd] = at[Mtd] /\ state' = state
    BY <2>2, <2>4 DEF Collected, Row
  <2>5. QED
    BY <2>2, <2>3, <2>4
<1>9. Apart'
  BY ApartStays
<1>10. \A v \in party' : Progress(v)' /\ PieceIs(v)' /\ OwedBlank(v)' /\ (lock' = v => Held(v)')
  BY <1>3, <1>6
<1>11. QED
  BY <1>2, <1>5, <1>7, <1>8, <1>9, <1>10, Zenon DEF IInv

(* Nobody holds the lock whose user is at rest. *)
LEMMA NoHolder ==
  ASSUME IInv, \A u \in party : at[u] \in Before
  PROVE  lock = Nobody /\ AtRest
<1>1. Types
  BY DEF IInv
<1>2. \A u \in party : lock # u
  BY <1>1, PartyFacts DEF IInv, Control, Before, Inside
<1>3. QED
  BY <1>1, <1>2 DEF IInv, Types

LEMMA ProbeKeeps ==
  ASSUME IInv, Probe
  PROVE  IInv'
<1>1. Types /\ \A u \in AllUsers : at[u] = "probe"
  BY DEF IInv, Probe
<1>2. /\ at' = [u \in AllUsers |-> "unlock"]
      /\ party' = party /\ chip' = chip /\ bit' = bit /\ cache' = cache /\ lock' = lock
      /\ req' = req /\ left' = left /\ piece' = piece /\ todo' = todo /\ state' = state
  BY DEF Probe, history
<1>3. lock = Nobody
  BY <1>1, NoHolder, PartyFacts DEF Before
<1>4. at' \in [AllUsers -> Before \cup {"enter"} \cup Inside \cup MtdOnly]
      /\ \A v \in AllUsers : at[v] \in Before /\ at'[v] \in Before
  BY <1>1, <1>2 DEF Before
<1>5. SetUp'
  BY <1>1, <1>2 DEF IInv, SetUp
<1>6. chip' \in ChipType
  BY <1>1, <1>2 DEF Types
<1>7. QED
  BY <1>2, <1>3, <1>4, <1>5, <1>6, SetUpStep

LEMMA ManufactureInitKeeps ==
  ASSUME IInv, ManufactureInit
  PROVE  IInv'
<1>1. Types /\ \A u \in AllUsers : at[u] = "unlock"
  BY DEF IInv, ManufactureInit
<1>2. /\ at' = [u \in AllUsers |-> IF u = Mtd THEN "scan" ELSE "idle"]
      /\ chip' = Unlock(chip)
      /\ party' = party /\ bit' = bit /\ cache' = cache /\ lock' = lock
      /\ req' = req /\ left' = left /\ piece' = piece /\ todo' = todo /\ state' = state
  BY DEF ManufactureInit, history
<1>3. lock = Nobody /\ chip.op = "idle"
  BY <1>1, NoHolder, PartyFacts DEF Before, AtRest
<1>4. at' \in [AllUsers -> Before \cup {"enter"} \cup Inside \cup MtdOnly]
      /\ \A v \in AllUsers : at[v] \in Before /\ at'[v] \in Before
  BY <1>1, <1>2 DEF Before
<1>5. chip \in ChipType
  BY <1>1 DEF Types
<1>6. /\ chip' \in ChipType /\ chip'.cells = chip.cells /\ chip'.op = chip.op
      /\ chip'.wel = chip.wel
  BY <1>2, <1>3, <1>5, UnlockOnly
<1>7. SetUp'
  <2>1. CASE AllUsers = {}
    BY <2>1 DEF SetUp
  <2>2. CASE AllUsers # {}
    <3>1. chip.open = ~chip.kind.gated
      BY <1>1, <2>2 DEF IInv, SetUp
    <3>2. ~chip'.locked
      BY <1>2, <1>3, <1>5, <3>1, Unlocks
    <3>3. QED
      BY <1>2, <3>2 DEF SetUp
  <2>3. QED
    BY <2>1, <2>2
<1>8. QED
  BY <1>2, <1>3, <1>4, <1>6, <1>7, SetUpStep

LEMMA ScanKeeps ==
  ASSUME IInv, Scan
  PROVE  IInv'
<1>1. Types /\ Mtd \in party /\ at[Mtd] = "scan" /\ party = {Mtd} /\ Mtd \in AllUsers
  BY PartyFacts DEF IInv, Scan
<1>2. /\ at' = [at EXCEPT ![Mtd] = "idle"] /\ chip' = chip
      /\ party' = party /\ bit' = bit /\ cache' = cache /\ lock' = lock
      /\ req' = req /\ left' = left /\ piece' = piece /\ todo' = todo
  BY DEF Scan, Same, Goto, Reset, history
<1>3. lock = Nobody
  BY <1>1, NoHolder DEF Before
<1>4. /\ at'[Mtd] = "idle" /\ \A v \in AllUsers : v # Mtd => at'[v] = at[v]
      /\ at' \in [AllUsers -> Before \cup {"enter"} \cup Inside \cup MtdOnly]
  BY <1>1, <1>2 DEF Types, Before
<1>5. at[Mtd] \in Before /\ at'[Mtd] \in Before
  BY <1>1, <1>4 DEF Before
<1>6. ~chip.locked
  BY <1>1 DEF IInv, SetUp
<1>7. SetUp'
  <2>1. ASSUME NEW v \in AllUsers, at'[v] \in {"probe", "unlock"}
        PROVE  chip.open = ~chip.kind.gated
    <3>1. at[v] \in {"probe", "unlock"}
      BY <1>4, <2>1
    <3>2. QED
      BY <3>1 DEF IInv, SetUp
  <2>2. QED
    BY <1>2, <1>6, <2>1 DEF SetUp
<1>8. chip' \in ChipType
  BY <1>1, <1>2 DEF Types
<1>9. \A v \in AllUsers : at'[v] = at[v] \/ (at[v] \in Before /\ at'[v] \in Before)
  BY <1>4, <1>5
<1>10. QED
  BY <1>2, <1>3, <1>4, <1>5, <1>7, <1>8, <1>9, SetUpStep

LEMMA ChipReadyKeeps ==
  ASSUME IInv, ChipReady
  PROVE  IInv'
<1>1. Types /\ chip \in ChipType /\ chip.op # "idle"
  BY DEF IInv, Types, ChipReady, OIP
<1>2. /\ chip' \in ChipType /\ chip'.cells = chip.cells /\ chip'.op = "idle"
      /\ chip'.reg = chip.reg /\ chip'.kind = chip.kind
      /\ chip'.locked = chip.locked /\ chip'.open = chip.open
      /\ chip'.wel = (chip.wel /\ chip.op # "write")
  BY <1>1, Rested DEF ChipReady
<1>3. /\ party' = party /\ bit' = bit /\ cache' = cache /\ lock' = lock /\ at' = at
      /\ req' = req /\ left' = left /\ piece' = piece /\ todo' = todo /\ state' = state
  BY DEF ChipReady, history
<1>4. Types'
  BY <1>1, <1>2, <1>3 DEF Types
<1>5. \A v \in AllUsers : Control(v)'
  BY <1>3 DEF IInv, Control
<1>6. ASSUME NEW v \in party PROVE Progress(v)' /\ PieceIs(v)' /\ OwedBlank(v)'
  <2>1. Progress(v) /\ PieceIs(v) /\ OwedBlank(v)
    BY DEF IInv
  <2>2. Progress(v)'
    BY <1>3, <2>1 DEF Progress
  <2>3. PieceIs(v)'
    BY <1>3, <2>1 DEF PieceIs, Pos, Row
  <2>4. OwedBlank(v)'
    BY <1>2, <1>3, <2>1 DEF OwedBlank, Owed
  <2>5. QED
    BY <2>2, <2>3, <2>4
<1>7. ASSUME NEW v \in party, lock = v PROVE Held(v)'
  <2>1. Steady(v) /\ Registers(v) /\ Cached(v)
    BY <1>7 DEF IInv, Held
  <2>2. Steady(v)'
    BY <1>1, <1>2, <1>3, <2>1 DEF Steady
  <2>3. Registers(v)'
    BY <1>2, <1>3, <2>1 DEF Registers, PlaneOf, Selected
  <2>4. Cached(v)'
    BY <1>2, <1>3, <2>1 DEF Cached, LaidOver, SpareBehind, DataIs, MapIs, Overlaid
  <2>5. QED
    BY <2>2, <2>3, <2>4 DEF Held
<1>8. lock # Nobody
  BY <1>1 DEF IInv, AtRest
<1>9. (Mtd \in party => Collected)'
  BY <1>3 DEF IInv, Collected, Row
<1>10. SetUp'
  BY <1>2, <1>3 DEF IInv, SetUp
<1>11. Apart'
  BY <1>3, ApartStays
<1>12. \A v \in party' : Progress(v)' /\ PieceIs(v)' /\ OwedBlank(v)' /\ (lock' = v => Held(v)')
  BY <1>3, <1>6, <1>7
<1>13. lock' = Nobody => AtRest'
  BY <1>3, <1>8
<1>14. QED
  BY <1>4, <1>5, <1>9, <1>10, <1>11, <1>12, <1>13, Zenon DEF IInv

-----------------------------------------------------------------------------
(* The invariant.                                                          *)

LEMMA Starting ==
  ASSUME Init
  PROVE  IInv
<1>1. PICK kind \in Kinds : chip = NewChip(kind)
  BY DEF Init
<1>2. chip \in ChipType /\ chip.op = "idle" /\ ~chip.wel /\ chip.locked
      /\ chip.open = ~chip.kind.gated
  <2>1. kind.gated \in BOOLEAN
    BY SizeFacts
  <2>2. [p \in PageNumbers |-> BlankPage] \in [PageNumbers -> PageType]
    BY TextFacts DEF BlankPage, PageType
  <2>3. [plane \in {0, 1} |-> JunkPage] \in [{0, 1} -> AnyPage]
    BY DEF JunkPage, AnyPage
  <2>4. QED
    BY <1>1, <2>1, <2>2, <2>3 DEF NewChip
<1>3. Types
  <2>1. cache \in CacheType
    <3>1. JunkPage \in AnyPage
      BY DEF JunkPage, AnyPage
    <3>2. QED
      BY <3>1 DEF Init
  <2>2. piece \in PieceType
    BY SizeFacts, TextFacts DEF Init, NoPiece
  <2>3. left \in [AllUsers -> 0 .. NBlocks * BlockLen]
    BY FlashFacts DEF Init
  <2>4. at \in [AllUsers -> Before \cup {"enter"} \cup Inside \cup MtdOnly]
    BY DEF Init, Before
  <2>5. QED
    BY <1>2, <2>1, <2>2, <2>3, <2>4 DEF Init, Types
<1>4. \A u \in AllUsers : at[u] = "probe" /\ req[u] = Idle /\ todo[u] = Idle /\ lock # u
  <2>1. Nobody \notin AllUsers
    BY NandMtdAssumption DEF AllUsers
  <2>2. QED
    BY <2>1 DEF Init
<1>5. \A u \in AllUsers : Control(u)
  BY <1>4 DEF Control, Before, Inside, MtdOnly
<1>6. \A u \in party : Progress(u) /\ PieceIs(u) /\ OwedBlank(u) /\ (lock = u => Held(u))
  BY <1>3, <1>4, PartyFacts DEF Progress, PieceIs, OwedBlank, Inside
<1>7. AtRest
  BY <1>2 DEF Init, AtRest, DataIs, MapIs
<1>8. Mtd \in party => Collected
  BY <1>3, <1>4, PartyFacts DEF Collected
<1>9. SetUp
  BY <1>2, <1>4 DEF SetUp
<1>10. Apart
  BY <1>3, <1>4, PartyFacts DEF Apart
<1>11. QED
  BY <1>3, <1>5, <1>6, <1>7, <1>8, <1>9, <1>10, SMTT(60) DEF IInv

LEMMA Stuttering ==
  ASSUME IInv, UNCHANGED vars
  PROVE  IInv'
BY SMTT(60) DEF IInv, vars, history, Types, Control, Progress, PieceIs, OwedBlank, Owed, Pos, Row,
       Held, Steady, Registers, Cached, LaidOver, SpareBehind, DataIs, MapIs, Overlaid, AtRest,
       Collected, SetUp, Apart

LEMMA NextKeeps ==
  ASSUME IInv, [Next]_vars
  PROVE  IInv'
<1>1. CASE Probe \/ ManufactureInit \/ Scan \/ ChipReady
  BY <1>1, ProbeKeeps, ManufactureInitKeeps, ScanKeeps, ChipReadyKeeps
<1>2. CASE Rest \/ UNCHANGED vars
  BY <1>2, Stuttering DEF Rest
<1>3. ASSUME NEW u \in party, NEW r \in Calls, Begin(u, r) PROVE IInv'
  BY <1>3, BeginKeeps
<1>4. ASSUME NEW u \in party, UnderLock(u) PROVE IInv'
  BY <1>4, EnterKeeps, NextPieceKeeps, LoadKeeps, LoadingKeeps, FetchKeeps, CopyKeeps,
     LayKeeps, WrEnKeeps, PLoadKeeps, ExecKeeps, EraseBlockKeeps, WaitKeeps, WrDiKeeps,
     LeaveKeeps DEF UnderLock
<1>5. CASE Mtd \in party /\ ByMtd
  BY <1>5, StatusKeeps, ReadCommandKeeps, SeqInKeeps, WritePageHweccKeeps, PageProgKeeps,
     WriteOobKeeps, ReadPageHweccKeeps, ReadBufKeeps, WaitFuncKeeps DEF ByMtd
<1>6. QED
  BY <1>1, <1>2, <1>3, <1>4, <1>5 DEF Next

(* Whatever is called on whatever processor, the chip is told nothing it    *)
(* does not take, the register holds what is about to be read or            *)
(* programmed, the cache is the page with what is being written over it,    *)
(* and the cells a write has still to change are blank.                     *)
THEOREM Invariant == Spec => []IInv
<1>1. Init => IInv
  BY Starting
<1>2. IInv /\ [Next]_vars => IInv'
  BY NextKeeps
<1>3. QED
  BY <1>1, <1>2, PTL DEF Spec

(* No cell is ever programmed to two values, nothing but a page of the chip *)
(* is cached or written, and a user has a request while its call lasts.     *)
THEOREM TypeInvariant == Spec => []TypeOK
<1>1. IInv => TypeOK
  <2>1. SUFFICES ASSUME IInv PROVE TypeOK
    OBVIOUS
  <2>2. Types /\ party \subseteq AllUsers
    BY <2>1, PartyFacts DEF IInv
  <2>3. ASSUME NEW u \in party PROVE req[u] = Idle <=> todo[u] = Idle
    <3>1. Control(u)
      BY <2>1, <2>2 DEF IInv
    <3>2. QED
      BY <3>1 DEF Control
  <2>4. chip.cells \in [PageNumbers -> Seq(Range(Text) \cup {Blank})]
    <3>1. chip.cells \in [PageNumbers -> PageType]
      BY <2>2 DEF Types
    <3>2. PageType \subseteq Seq(Range(Text) \cup {Blank})
      BY PageIsSeq DEF PageType, Val
    <3>3. QED
      BY <3>1, <3>2
  <2>5. /\ chip.op \in {"idle", "read", "write"} /\ bit \in {0, 1}
        /\ cache.page \in PageNumbers \cup {NoPage} /\ lock \in party \cup {Nobody}
        /\ party \in Parties
    BY <2>2 DEF Types
  <2>6. \A u \in party : req[u] \in Calls \cup {Idle} /\ left[u] \in 0 .. NBlocks * BlockLen
    BY <2>2 DEF Types
  <2>7. QED
    BY <2>3, <2>4, <2>5, <2>6 DEF TypeOK
<1>2. QED
  BY <1>1, Invariant, PTL

(* Between two calls the cached page is the page, its spare area twice, and *)
(* the chip is at rest with its write latch down.                           *)
THEOREM CacheIsThePageAlways == Spec => []CacheIsThePage
<1>1. IInv => CacheIsThePage
  BY DEF IInv, AtRest, DataIs, MapIs, CacheIsThePage, OIP
<1>2. QED
  BY <1>1, Invariant, PTL

=============================================================================
