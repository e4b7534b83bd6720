---------------------------- MODULE NandMtdStore ----------------------------
(***************************************************************************)
(* The NAND driver is the plain store of FlashStore, for chips of any size, *)
(* calls of any length and any number of processors.  Without MTD this is   *)
(* so whatever lies on the stack; MTD's page write takes its offset from    *)
(* there, and is right in the behaviours where it finds 0 (OffsetIsZero).   *)
(*                                                                         *)
(* Each program and each erase is a step in which the store lays down the   *)
(* next cells of a request; a call's end is the store's answer; all else    *)
(* the store does not see.  So what remains of a request is what the pieces *)
(* still to come will write (Remains, Given, Whole), a read has collected   *)
(* what the cells hold, since none changes while it has the lock (Gotten,   *)
(* Buffered), and only the holder's request has begun to change them        *)
(* (Turn).                                                                  *)
(***************************************************************************)
EXTENDS NandMtdProofs

BlockCells == PagesPerBlock * (PageSize + 1)
Ended == {"leave", "waitfunc", "return", "fetchbuf"}
Laying == {"wren", "erase", "wait", "wrdi"}

(* How many cells of call r are in the chip, at place l with n cells left   *)
(* and d cells in the piece.                                                *)
PlacedOf(r, l, n, d) ==
  LET now == l \in {"wait", "wrdi"}
      end == now \/ l \in Ended
  IN CASE r.op = "write"       -> r.len - n + (IF now THEN d ELSE 0)
       [] r.op = "mtdwrite"    -> IF end THEN PageSize + 1 ELSE 0
       [] r.op = "mtdwriteoob" -> IF end THEN 1 ELSE 0
       [] Erases(r.op) /\ ~Unaligned(r) ->
            ((r.len - n + BlockLen - 1) \div BlockLen + (IF now THEN 1 ELSE 0)) * BlockCells
       [] OTHER -> 0

Placed(u) == PlacedOf(req[u], at[u], left[u], Len(piece.data))

(* What the store still has to do is what the call still has to do. *)
Remains(u) ==
  req[u] # Idle =>
    todo[u] = [put |-> SubSeq(PutOf(req[u]), Placed(u) + 1, Len(PutOf(req[u]))),
               get |-> GetOf(req[u])]

Through(u) ==
  at[u] \in Ended /\ ~ByPage(req[u].op) /\ ~Unaligned(req[u]) => left[u] = 0

(* An erase goes block by block. *)
Whole(u) ==
  req[u] # Idle /\ Erases(req[u].op) /\ ~Unaligned(req[u]) =>
    /\ left[u] > 0 => (req[u].len - left[u]) % BlockLen = 0
    /\ at[u] \in Laying => piece.page = Pos(u) \div PageSize

CellOf(c) == chip.cells[c[1]][c[2]]

(* What a read has collected. *)
Gotten(u) ==
  req[u] # Idle =>
    /\ at[u] = "enter" \/ req[u].op # "read" => got[u] = <<>>
    /\ at[u] \in Inside /\ req[u].op = "read" =>
         got[u] = [k \in 1 .. req[u].len - left[u] |-> CellOf(CellAt(req[u].addr + k - 1))]

(* What a piece writes is the part of the text that is its turn. *)
Given(u) ==
  /\ at[u] \in Inside \ {"next", "leave"} /\ req[u].op = "write" =>
       piece.data = SubSeq(Text, req[u].len - left[u] + 1,
                           req[u].len - left[u] + WriteLen(piece.off, left[u]))
  /\ at[u] \in {"enter"} \cup Inside /\ req[u].op = "mtdwrite" =>
       piece.off = 0 /\ piece.data = SubSeq(Text, 1, PageSize) /\ piece.oob = Text[Spare]
  /\ at[u] \in {"enter"} \cup Inside /\ req[u].op = "mtdwriteoob" =>
       piece.data = <<>> /\ piece.oob = Text[1]

(* What MTD has put into its state, and what it will find in the cache. *)
Buffered ==
  /\ at[Mtd] = "pageprog" =>
       /\ \A k \in 1 .. PageSize : state.buf[k] = Text[k]
       /\ state.oob = Text[Spare]
  /\ at[Mtd] \in {"enter"} \cup Inside /\ Reads(req[Mtd].op) => piece.page = Row(Mtd)
  /\ at[Mtd] \in {"leave", "fetchbuf"} /\ Reads(req[Mtd].op) => cache.page = Row(Mtd)
  /\ at[Mtd] \in {"enter", "fetchbuf"} \cup Inside /\ req[Mtd].op = "mtdreadoob" =>
       state.idx = PageSize
  /\ at[Mtd] \in {"waitfunc", "return"} => ~Reads(req[Mtd].op)

Turn ==
  /\ turn \in party \cup {Nobody}
  /\ turn # Nobody => /\ req[turn] # Idle
                      /\ lock = turn \/ (turn = Mtd /\ at[Mtd] \in Ended)

Follows(u) == Remains(u) /\ Through(u) /\ Whole(u) /\ Gotten(u) /\ Given(u)

GotType == got \in [AllUsers -> Seq(Val \cup {Mixed})]

StateType == DOMAIN state = DOMAIN Quiet

(* What MTD's page write has found in addr_offset. *)
OffsetIsZero ==
  Mtd \in party /\ at[Mtd] = "enter" /\ req[Mtd].op = "mtdwrite" => piece.off = 0

SInv ==
  GotType /\ StateType /\ (\A u \in party : Follows(u)) /\ (Mtd \in party => Buffered) /\ Turn

-----------------------------------------------------------------------------
(* Requests and how much of them is done.                                  *)

LEMMA PutIs ==
  ASSUME NEW r \in Calls
  PROVE  /\ r.op = "write" =>
              PutOf(r) = [k \in 1 .. r.len |-> <<CellAt(r.addr + k - 1), Text[k]>>]
         /\ r.op = "mtdwrite" =>
              PutOf(r) = [k \in Columns |-> <<<<r.addr \div PageSize, k>>, Text[k]>>]
         /\ r.op = "mtdwriteoob" => PutOf(r) = <<<<<<r.addr \div PageSize, Spare>>, Text[1]>>>>
         /\ Erases(r.op) /\ ~Unaligned(r) =>
              PutOf(r) = [k \in 1 .. Blocks(r) * PagesPerBlock * (PageSize + 1) |->
                <<<<r.addr \div PageSize + ((k - 1) \div (PageSize + 1)),
                    ((k - 1) % (PageSize + 1)) + 1>>, Blank>>]
         /\ Reads(r.op) \/ (Erases(r.op) /\ Unaligned(r)) => PutOf(r) = <<>>
<1>1. CASE r.op \in {"write", "mtdwrite", "mtdwriteoob"}
  BY <1>1 DEF PutOf, Erases, Reads
<1>2. CASE r.op \notin {"write", "mtdwrite", "mtdwriteoob"}
  BY <1>2 DEF PutOf, Erases, Reads
<1>3. QED
  BY <1>1, <1>2

LEMMA GetIs ==
  ASSUME NEW r \in Calls
  PROVE  /\ r.op = "read" => GetOf(r) = [k \in 1 .. r.len |-> CellAt(r.addr + k - 1)]
         /\ r.op = "mtdread" => GetOf(r) = PageCells(r.addr \div PageSize)
         /\ r.op = "mtdreadoob" => GetOf(r) = <<<<r.addr \div PageSize, Spare>>>>
         /\ ~Reads(r.op) => GetOf(r) = <<>>
BY DEF GetOf, Reads

LEMMA PlacedIs ==
  ASSUME NEW r, NEW l, NEW n, NEW d
  PROVE  LET now == l \in {"wait", "wrdi"}
             end == now \/ l \in Ended
         IN /\ r.op = "write" => PlacedOf(r, l, n, d) = r.len - n + (IF now THEN d ELSE 0)
            /\ r.op = "mtdwrite" => PlacedOf(r, l, n, d) = IF end THEN PageSize + 1 ELSE 0
            /\ r.op = "mtdwriteoob" => PlacedOf(r, l, n, d) = IF end THEN 1 ELSE 0
            /\ Erases(r.op) /\ ~Unaligned(r) =>
                 PlacedOf(r, l, n, d) =
                   ((r.len - n + BlockLen - 1) \div BlockLen + (IF now THEN 1 ELSE 0))
                     * BlockCells
            /\ Reads(r.op) \/ (Erases(r.op) /\ Unaligned(r)) => PlacedOf(r, l, n, d) = 0
<1>1. CASE r.op \in {"write", "mtdwrite", "mtdwriteoob"}
  BY <1>1 DEF PlacedOf, Erases, Reads
<1>2. CASE r.op \notin {"write", "mtdwrite", "mtdwriteoob"}
  BY <1>2 DEF PlacedOf, Erases, Reads
<1>3. QED
  BY <1>1, <1>2

-----------------------------------------------------------------------------
(* Who stands still.                                                       *)

StoreNext == Store!Next \/ UNCHANGED Store!vars

LEMMA Unseen ==
  ASSUME chip'.cells = chip.cells, todo' = todo, turn' = turn, answer' = answer
  PROVE  UNCHANGED Store!vars
BY DEF Store!vars

(* The turn belongs to who has the lock. *)
LEMMA TurnIs ==
  ASSUME IInv, SInv, NEW u \in party, at[u] \in Inside \/ u = Mtd
  PROVE  turn \in {Nobody, u}
<1>1. Types /\ Turn
  BY DEF IInv, SInv
<1>2. CASE at[u] \in Inside
  <2>1. lock = u
    BY <1>2, HolderHas
  <2>2. Mtd \in party => u = Mtd
    BY <1>1, PartyFacts
  <2>3. QED
    BY <1>1, <2>1, <2>2 DEF Turn
<1>3. CASE u = Mtd
  <2>1. party = {Mtd}
    BY <1>1, <1>3, PartyFacts
  <2>2. QED
    BY <1>1, <1>3, <2>1 DEF Turn
<1>4. QED
  BY <1>2, <1>3

(* Those whose places stay as they are follow still. *)
LEMMA OthersFollow ==
  ASSUME IInv, SInv, NEW v \in party,
         at'[v] = at[v], req'[v] = req[v], left'[v] = left[v], todo'[v] = todo[v],
         got'[v] = got[v],
         (piece' = piece /\ chip'.cells = chip.cells) \/ (at[v] \notin Inside /\ v # Mtd)
  PROVE  Follows(v)'
<1>1. Types /\ v \in AllUsers /\ Control(v) /\ Follows(v)
  BY PartyFacts DEF IInv, SInv
<1>2. CASE piece' = piece /\ chip'.cells = chip.cells
  <2>1. Remains(v)'
    BY <1>1, <1>2 DEF Follows, Remains, Placed
  <2>2. Through(v)' /\ Whole(v)'
    BY <1>1, <1>2 DEF Follows, Through, Whole, Pos
  <2>3. Gotten(v)'
    BY <1>1, <1>2 DEF Follows, Gotten, CellOf
  <2>4. Given(v)'
    BY <1>1, <1>2 DEF Follows, Given
  <2>5. QED
    BY <2>1, <2>2, <2>3, <2>4 DEF Follows
<1>3. CASE at[v] \notin Inside /\ v # Mtd
  <2>1. at[v] \notin Laying /\ at[v] \notin {"wait", "wrdi"}
    BY <1>3 DEF Inside, Laying
  <2>2. Remains(v)'
    <3>1. \A d, e : PlacedOf(req[v], at[v], left[v], d) = PlacedOf(req[v], at[v], left[v], e)
      BY <2>1 DEF PlacedOf
    <3>2. Placed(v)' = Placed(v)
      BY <3>1 DEF Placed
    <3>3. QED
      BY <1>1, <3>2 DEF Follows, Remains
  <2>3. Through(v)' /\ Whole(v)'
    BY <1>1, <2>1 DEF Follows, Through, Whole, Pos
  <2>4. Gotten(v)'
    BY <1>1, <1>3 DEF Follows, Gotten
  <2>5. Given(v)'
    <3>1. at'[v] \notin Inside /\ (req'[v] # Idle => req'[v].op \notin MtdOps)
      BY <1>1, <1>3 DEF Control
    <3>2. req'[v] = Idle => at'[v] # "enter"
      BY <1>1 DEF Control, Before
    <3>3. QED
      BY <3>1, <3>2 DEF Given, MtdOps
  <2>6. QED
    BY <2>2, <2>3, <2>4, <2>5 DEF Follows
<1>4. QED
  BY <1>2, <1>3

LEMMA FollowStep ==
  ASSUME IInv, SInv, NEW u \in party, party' = party,
         \A v \in AllUsers : v # u => /\ at'[v] = at[v] /\ req'[v] = req[v]
                                      /\ left'[v] = left[v] /\ todo'[v] = todo[v]
                                      /\ got'[v] = got[v],
         at[u] \in Inside \/ (piece' = piece /\ chip'.cells = chip.cells) \/ u = Mtd,
         DOMAIN state' = DOMAIN state,
         GotType', Follows(u)', u = Mtd => Buffered', Turn'
  PROVE  SInv'
<1>1. Types
  BY DEF IInv
<1>2. Mtd \in party => u = Mtd
  BY <1>1, PartyFacts
<1>3. ASSUME NEW v \in party, v # u PROVE Follows(v)'
  <2>1. v # Mtd /\ v \in AllUsers
    BY <1>1, <1>2, <1>3, PartyFacts
  <2>2. at[u] \in Inside => at[v] \notin Inside
    BY <1>3, <2>1, HolderHas
  <2>3. (piece' = piece /\ chip'.cells = chip.cells) \/ (at[v] \notin Inside /\ v # Mtd)
    <3>1. u # Mtd
      BY <1>1, <1>3, PartyFacts
    <3>2. QED
      BY <2>1, <2>2, <3>1
  <2>4. QED
    BY <1>3, <2>1, <2>3, OthersFollow
<1>4. \A v \in party' : Follows(v)'
  BY <1>3
<1>5. Mtd \in party' => Buffered'
  BY <1>2
<1>6. StateType'
  BY DEF SInv, StateType
<1>7. QED
  BY <1>4, <1>5, <1>6 DEF SInv

LEMMA TurnStays ==
  ASSUME IInv, SInv, NEW u \in party, at[u] \in Inside, turn' \in {turn, u},
         lock' = lock, req' = req, party' = party
  PROVE  Turn'
<1>1. turn' \in {Nobody, u}
  BY TurnIs
<1>2. lock = u /\ req[u] # Idle
  BY HolderHas
<1>3. QED
  BY <1>1, <1>2 DEF Turn

(* The holder of the lock does what the store does not see. *)
LEMMA HolderFollows ==
  ASSUME IInv, SInv, NEW u \in party, NEW l \in Inside, at[u] \in Inside,
         at' = [at EXCEPT ![u] = l],
         party' = party, req' = req, lock' = lock, todo' = todo, turn' = turn,
         answer' = answer, chip'.cells = chip.cells,
         DOMAIN state' = DOMAIN state,
         \A v \in AllUsers : v # u => left'[v] = left[v] /\ got'[v] = got[v],
         GotType', Follows(u)', u = Mtd => Buffered'
  PROVE  SInv' /\ StoreNext
<1>1. Types
  BY DEF IInv
<1>2. Turn'
  BY TurnStays
<1>3. \A v \in AllUsers : v # u => at'[v] = at[v]
  BY <1>1 DEF Types
<1>4. SInv'
  BY <1>2, <1>3, FollowStep
<1>5. QED
  BY <1>4, Unseen DEF StoreNext

(* It goes on with the same piece. *)
LEMMA HolderGoes ==
  ASSUME IInv, SInv, NEW u \in party, NEW l \in Inside \ {"next"},
         at[u] \in Inside \ {"next", "leave"},
         l \in {"wait", "wrdi"} <=> at[u] \in {"wait", "wrdi"},
         l \in Laying /\ Erases(req[u].op) => at[u] \in Laying,
         l = "leave" => ByPage(req[u].op) /\ Reads(req[u].op) /\ cache'.page = piece.page,
         at' = [at EXCEPT ![u] = l],
         party' = party, req' = req, lock' = lock, state' = state, todo' = todo, turn' = turn,
         answer' = answer, chip'.cells = chip.cells, left' = left, piece' = piece, got' = got
  PROVE  SInv' /\ StoreNext
<1>1. Types /\ u \in AllUsers /\ req[u] \in Calls /\ req[u] # Idle
  BY HolderHas
<1>2. Follows(u)
  BY DEF SInv
<1>3. at'[u] = l
  BY <1>1 DEF Types
<1>4. Placed(u)' = Placed(u)
  <2>1. l \in Ended => Reads(req[u].op)
    BY DEF Ended, Inside
  <2>2. at[u] \notin Ended /\ l \notin {"waitfunc", "return", "fetchbuf"}
    BY DEF Ended, Inside
  <2>3. CASE Reads(req[u].op)
    BY <1>1, <1>3, <2>3, PlacedIs DEF Placed
  <2>4. CASE ~Reads(req[u].op)
    <3>1. l \notin Ended
      BY <2>1, <2>4
    <3>2. \A d : PlacedOf(req[u], l, left[u], d) = PlacedOf(req[u], at[u], left[u], d)
      BY <2>2, <3>1 DEF PlacedOf
    <3>3. QED
      BY <1>3, <3>2 DEF Placed
  <2>5. QED
    BY <2>3, <2>4
<1>5. Remains(u)'
  BY <1>2, <1>4 DEF Follows, Remains
<1>6. Through(u)'
  BY <1>3 DEF Through, Ended, Inside
<1>7. Whole(u)'
  BY <1>2, <1>3 DEF Follows, Whole, Pos
<1>8. Gotten(u)'
  <2>1. l # "enter"
    BY DEF Inside
  <2>2. QED
    BY <1>2, <1>3, <2>1 DEF Follows, Gotten, CellOf
<1>9. Given(u)'
  BY <1>2, <1>3 DEF Follows, Given
<1>10. Follows(u)'
  BY <1>5, <1>6, <1>7, <1>8, <1>9 DEF Follows
<1>11. u = Mtd => Buffered'
  <2>1. SUFFICES ASSUME u = Mtd PROVE Buffered'
    OBVIOUS
  <2>2. Buffered
    BY <2>1 DEF SInv
  <2>3. l \in Inside /\ l \notin {"pageprog", "enter", "fetchbuf", "waitfunc", "return"}
    BY DEF Inside
  <2>4. QED
    BY <1>3, <2>1, <2>2, <2>3 DEF Buffered, Row
<1>12. GotType'
  BY DEF SInv, GotType
<1>13. QED
  BY <1>10, <1>11, <1>12, HolderFollows

-----------------------------------------------------------------------------
(* Steps the store does not see.                                           *)

LEMMA LoadedGoes ==
  ASSUME IInv, NEW u \in party, at[u] \in {"load", "fetch"}
  PROVE  /\ Loaded(u) \in Inside \ {"next"} /\ Loaded(u) \notin {"wait", "wrdi"} \cup Laying
         /\ Loaded(u) = "leave" => ByPage(req[u].op) /\ Reads(req[u].op)
BY DEF Loaded, Inside, Laying

LEMMA LoadFollows ==
  ASSUME IInv, SInv, NEW u \in party, Load(u)
  PROVE  SInv' /\ StoreNext
<1>1. at[u] = "load" /\ at[u] \in Inside \ {"next", "leave"} /\ at[u] \notin {"wait", "wrdi"}
  BY DEF Load, Inside
<1>2. /\ party' = party /\ req' = req /\ lock' = lock /\ state' = state /\ todo' = todo
      /\ turn' = turn /\ answer' = answer /\ left' = left /\ piece' = piece /\ got' = got
      /\ cache' = cache
  BY DEF Load, Same, history
<1>3. CASE cache.page = piece.page
  <2>1. at' = [at EXCEPT ![u] = Loaded(u)] /\ chip' = chip
    BY <1>3 DEF Load, Same, Goto
  <2>2. QED
    BY <1>1, <1>2, <1>3, <2>1, LoadedGoes, HolderGoes
<1>4. CASE cache.page # piece.page
  <2>1. at' = [at EXCEPT ![u] = "loading"] /\ chip' = PageRead(chip, piece.page)
    BY <1>4 DEF Load, Same, Goto
  <2>2. chip'.cells = chip.cells
    <3>1. chip \in ChipType /\ piece.page \in PageNumbers /\ chip.op = "idle"
      BY <1>1, HolderHas DEF Types, Held, Steady
    <3>2. QED
      BY <2>1, <3>1, PageReads
  <2>3. "loading" \in Inside \ {"next"} /\ "loading" \notin {"wait", "wrdi"} \cup Laying
    BY DEF Inside, Laying
  <2>4. QED
    BY <1>1, <1>2, <2>1, <2>2, <2>3, HolderGoes
<1>5. QED
  BY <1>3, <1>4

LEMMA LoadingFollows ==
  ASSUME IInv, SInv, NEW u \in party, Loading(u)
  PROVE  SInv' /\ StoreNext
<1>1. at[u] = "loading" /\ at[u] \in Inside \ {"next", "leave"} /\ at[u] \notin {"wait", "wrdi"}
  BY DEF Loading, Inside
<1>2. /\ party' = party /\ req' = req /\ lock' = lock /\ state' = state /\ todo' = todo
      /\ turn' = turn /\ answer' = answer /\ left' = left /\ piece' = piece /\ got' = got
      /\ at' = [at EXCEPT ![u] = "fetch"] /\ chip' = chip
  BY DEF Loading, Same, Goto, history
<1>3. "fetch" \in Inside \ {"next"} /\ "fetch" \notin {"wait", "wrdi"} \cup Laying
  BY DEF Inside, Laying
<1>4. QED
  BY <1>1, <1>2, <1>3, HolderGoes

LEMMA FetchFollows ==
  ASSUME IInv, SInv, NEW u \in party, Fetch(u)
  PROVE  SInv' /\ StoreNext
<1>1. at[u] = "fetch" /\ at[u] \in Inside \ {"next", "leave"} /\ at[u] \notin {"wait", "wrdi"}
  BY DEF Fetch, Inside
<1>2. /\ party' = party /\ req' = req /\ lock' = lock /\ state' = state /\ todo' = todo
      /\ turn' = turn /\ answer' = answer /\ left' = left /\ piece' = piece /\ got' = got
      /\ at' = [at EXCEPT ![u] = Loaded(u)] /\ chip' = chip
  BY DEF Fetch, Same, Goto, history
<1>3. cache'.page = piece.page
  BY DEF Fetch
<1>4. QED
  BY <1>1, <1>2, <1>3, LoadedGoes, HolderGoes

LEMMA LayFollows ==
  ASSUME IInv, SInv, NEW u \in party, Lay(u)
  PROVE  SInv' /\ StoreNext
<1>1. at[u] = "lay" /\ at[u] \in Inside \ {"next", "leave"} /\ at[u] \notin {"wait", "wrdi"}
  BY DEF Lay, Inside
<1>2. /\ party' = party /\ req' = req /\ lock' = lock /\ state' = state /\ todo' = todo
      /\ turn' = turn /\ answer' = answer /\ left' = left /\ piece' = piece /\ got' = got
      /\ at' = [at EXCEPT ![u] = "wren"] /\ chip' = chip
  BY DEF Lay, Same, Goto, history
<1>3. "wren" \in Inside \ {"next"} /\ "wren" \notin {"wait", "wrdi", "leave"}
  BY DEF Inside
<1>4. ~Erases(req[u].op)
  BY <1>1, HolderHas, OpFacts DEF Control
<1>5. QED
  BY <1>1, <1>2, <1>3, <1>4, HolderGoes

LEMMA WrEnFollows ==
  ASSUME IInv, SInv, NEW u \in party, WrEn(u)
  PROVE  SInv' /\ StoreNext
<1> DEFINE l == IF Erases(req[u].op) THEN "erase" ELSE "pload"
<1>1. /\ at[u] = "wren" /\ at[u] \in Inside \ {"next", "leave"} /\ at[u] \notin {"wait", "wrdi"}
      /\ at[u] \in Laying
  BY DEF WrEn, Inside, Laying
<1>2. /\ party' = party /\ req' = req /\ lock' = lock /\ state' = state /\ todo' = todo
      /\ turn' = turn /\ answer' = answer /\ left' = left /\ piece' = piece /\ got' = got
      /\ at' = [at EXCEPT ![u] = l]
  BY DEF WrEn, Same, Goto, history
<1>3. l \in Inside \ {"next"} /\ l \notin {"wait", "wrdi", "leave"}
  BY DEF Inside
<1>4. chip'.cells = chip.cells
  <2>1. chip \in ChipType /\ chip.op = "idle"
    BY <1>1, HolderHas DEF Types, Held, Steady
  <2>2. QED
    BY <2>1, Latch DEF WrEn
<1>5. QED
  BY <1>1, <1>2, <1>3, <1>4, HolderGoes

LEMMA PLoadFollows ==
  ASSUME IInv, SInv, NEW u \in party, PLoad(u)
  PROVE  SInv' /\ StoreNext
<1>1. at[u] = "pload" /\ at[u] \in Inside \ {"next", "leave"} /\ at[u] \notin {"wait", "wrdi"}
  BY DEF PLoad, Inside
<1>2. /\ party' = party /\ req' = req /\ lock' = lock /\ state' = state /\ todo' = todo
      /\ turn' = turn /\ answer' = answer /\ left' = left /\ piece' = piece /\ got' = got
      /\ at' = [at EXCEPT ![u] = "exec"]
  BY DEF PLoad, Same, Goto, history
<1>3. "exec" \in Inside \ {"next"} /\ "exec" \notin {"wait", "wrdi", "leave"} \cup Laying
  BY DEF Inside, Laying
<1>4. chip'.cells = chip.cells
  <2>1. chip \in ChipType /\ chip.op = "idle" /\ bit \in {0, 1} /\ cache.data \in AnyPage
    BY <1>1, HolderHas DEF Types, CacheType, Held, Steady
  <2>2. QED
    BY <2>1, Loads DEF PLoad
<1>5. QED
  BY <1>1, <1>2, <1>3, <1>4, HolderGoes

LEMMA WaitFollows ==
  ASSUME IInv, SInv, NEW u \in party, Wait(u)
  PROVE  SInv' /\ StoreNext
<1>1. at[u] = "wait" /\ at[u] \in Inside \ {"next", "leave"} /\ at[u] \in Laying
  BY DEF Wait, Inside, Laying
<1>2. /\ party' = party /\ req' = req /\ lock' = lock /\ state' = state /\ todo' = todo
      /\ turn' = turn /\ answer' = answer /\ left' = left /\ piece' = piece /\ got' = got
      /\ at' = [at EXCEPT ![u] = "wrdi"] /\ chip' = chip
  BY DEF Wait, Same, Goto, history
<1>3. "wrdi" \in Inside \ {"next"} /\ "wrdi" # "leave"
  BY DEF Inside
<1>4. QED
  BY <1>1, <1>2, <1>3, HolderGoes

LEMMA EnterFollows ==
  ASSUME IInv, SInv, NEW u \in party, Enter(u)
  PROVE  SInv' /\ StoreNext
<1> DEFINE r == req[u]
           l == IF Unaligned(r) THEN "leave" ELSE IF ByPage(r.op) THEN "load" ELSE "next"
<1>1. at[u] = "enter" /\ lock = Nobody
  BY DEF Enter
<1>2. Types /\ u \in AllUsers /\ Control(u) /\ Progress(u) /\ Follows(u) /\ Turn
  BY PartyFacts DEF IInv, SInv
<1>3. /\ party' = party /\ req' = req /\ state' = state /\ todo' = todo
      /\ turn' = turn /\ answer' = answer /\ left' = left /\ piece' = piece /\ got' = got
      /\ chip' = chip /\ lock' = u /\ at' = [at EXCEPT ![u] = l]
  BY DEF Enter, Same, Goto, history
<1>4. r \in Calls /\ r # Idle
  BY <1>1, <1>2 DEF Types, Control, Before
<1>5. at'[u] = l /\ l \in {"leave", "load", "next"}
  BY <1>2, <1>3 DEF Types
<1>6. Placed(u)' = Placed(u)
  <2>1. at[u] \notin {"wait", "wrdi"} \cup Ended /\ l \notin {"wait", "wrdi"}
    BY <1>1, <1>5 DEF Ended
  <2>2. CASE Reads(r.op) \/ (Erases(r.op) /\ Unaligned(r))
    BY <1>3, <1>5, <2>2, PlacedIs DEF Placed
  <2>3. CASE ~Unaligned(r)
    <3>1. l \notin Ended
      BY <2>3 DEF Ended
    <3>2. PlacedOf(r, l, left[u], Len(piece.data)) = PlacedOf(r, at[u], left[u], Len(piece.data))
      BY <2>1, <3>1 DEF PlacedOf
    <3>3. QED
      BY <1>3, <1>5, <3>2 DEF Placed
  <2>4. QED
    BY <2>2, <2>3 DEF Unaligned
<1>7. Remains(u)'
  BY <1>2, <1>3, <1>6 DEF Follows, Remains
<1>8. Through(u)'
  BY <1>3, <1>5 DEF Through, Ended
<1>9. Whole(u)'
  BY <1>2, <1>3, <1>5 DEF Follows, Whole, Pos, Laying
<1>10. Gotten(u)'
  <2>1. got[u] = <<>>
    BY <1>1, <1>2, <1>4 DEF Follows, Gotten
  <2>2. r.op = "read" => r.len - left[u] = 0
    <3>1. r.op = "read" => left[u] = r.len
      BY <1>1, <1>2, <1>4, OpFacts DEF Progress
    <3>2. r.len \in Nat
      BY <1>4, CallFacts
    <3>3. QED
      BY <3>1, <3>2
  <2>3. r.op = "read" =>
          [k \in 1 .. r.len - left[u] |-> CellOf(CellAt(r.addr + k - 1))] = <<>>
    BY <2>2
  <2>4. QED
    BY <1>3, <1>5, <2>1, <2>3 DEF Gotten, CellOf
<1>11. Given(u)'
  <2>1. r.op = "write" => l \notin Inside \ {"next", "leave"}
    BY DEF Unaligned, Erases, ByPage, MtdOps
  <2>2. Given(u)
    BY <1>2 DEF Follows
  <2>3. QED
    BY <1>1, <1>3, <1>5, <2>1, <2>2 DEF Given
<1>12. u = Mtd => Buffered'
  <2>1. SUFFICES ASSUME u = Mtd PROVE Buffered'
    OBVIOUS
  <2>2. Buffered
    BY <2>1 DEF SInv
  <2>3. l = "leave" => ~Reads(r.op)
    BY DEF Unaligned, Erases, Reads
  <2>4. QED
    BY <1>1, <1>3, <1>5, <2>1, <2>2, <2>3 DEF Buffered, Row
<1>13. Turn'
  <2>1. turn = Nobody
    <3>1. turn \notin party \/ lock # turn
      BY <1>1, <1>2, PartyFacts
    <3>2. Mtd \in party => Mtd = u /\ at[Mtd] \notin Ended
      BY <1>1, <1>2, PartyFacts DEF Ended
    <3>3. QED
      BY <1>2, <3>1, <3>2 DEF Turn
  <2>2. QED
    BY <1>3, <2>1 DEF Turn
<1>14. Follows(u)'
  BY <1>7, <1>8, <1>9, <1>10, <1>11 DEF Follows
<1>15. \A v \in AllUsers : v # u => at'[v] = at[v]
  BY <1>2, <1>3 DEF Types
<1>16. GotType'
  BY <1>3 DEF SInv, GotType
<1>17. SInv'
  BY <1>3, <1>12, <1>13, <1>14, <1>15, <1>16, FollowStep
<1>18. QED
  BY <1>3, <1>17, Unseen DEF StoreNext

LEMMA NextPieceFollows ==
  ASSUME IInv, SInv, NEW u \in party, NextPiece(u)
  PROVE  SInv' /\ StoreNext
<1> DEFINE r == req[u]
           l == IF left[u] = 0 THEN "leave" ELSE IF Erases(r.op) THEN "wren" ELSE "load"
           pos == r.addr + r.len - left[u]
           n == WriteLen(pos % PageSize, left[u])
<1>1. at[u] = "next" /\ at[u] \in Inside
  BY DEF NextPiece, Inside
<1>2. /\ Types /\ u \in AllUsers /\ r \in Calls /\ r # Idle /\ Control(u) /\ left[u] \in Nat
      /\ Follows(u)
  BY <1>1, HolderHas DEF SInv
<1>3. /\ party' = party /\ req' = req /\ state' = state /\ todo' = todo /\ lock' = lock
      /\ turn' = turn /\ answer' = answer /\ left' = left /\ got' = got
      /\ chip' = chip /\ at' = [at EXCEPT ![u] = l]
  BY DEF NextPiece, Same, Goto, history
<1>4. at'[u] = l /\ l \in Inside /\ l \in {"leave", "wren", "load"}
  BY <1>2, <1>3 DEF Types, Inside
<1>5. left[u] # 0 =>
        /\ piece'.page = pos \div PageSize /\ piece'.off = pos % PageSize
        /\ r.op = "write" =>
             piece'.data = SubSeq(Text, r.len - left[u] + 1, r.len - left[u] + n)
  BY DEF NextPiece
<1>6. ~ByPage(r.op) /\ ~Unaligned(r)
  BY <1>1, <1>2 DEF Control
<1>7. Placed(u)' = Placed(u)
  <2>1. at[u] \notin {"wait", "wrdi"} /\ l \notin {"wait", "wrdi"}
    BY <1>1, <1>4
  <2>2. r.op \notin {"mtdwrite", "mtdwriteoob"}
    BY <1>6 DEF ByPage, MtdOps
  <2>3. \A d, e : PlacedOf(r, l, left[u], d) = PlacedOf(r, at[u], left[u], e)
    BY <2>1, <2>2 DEF PlacedOf
  <2>4. QED
    BY <1>3, <1>4, <2>3 DEF Placed
<1>8. Remains(u)'
  BY <1>2, <1>3, <1>7 DEF Follows, Remains
<1>9. Through(u)'
  BY <1>3, <1>4 DEF Through, Ended
<1>10. Whole(u)'
  <2>1. Pos(u)' = pos
    BY <1>3 DEF Pos
  <2>2. at'[u] \in Laying => left[u] # 0
    BY <1>4 DEF Laying
  <2>3. QED
    BY <1>2, <1>3, <1>5, <2>1, <2>2 DEF Follows, Whole
<1>11. Gotten(u)'
  BY <1>1, <1>2, <1>3, <1>4 DEF Follows, Gotten, CellOf
<1>12. Given(u)'
  <2>1. at'[u] # "leave" => left[u] # 0
    BY <1>4
  <2>2. req'[u].op \notin {"mtdwrite", "mtdwriteoob"}
    BY <1>3, <1>6 DEF ByPage, MtdOps
  <2>3. QED
    BY <1>3, <1>5, <2>1, <2>2 DEF Given
<1>13. Follows(u)'
  BY <1>8, <1>9, <1>10, <1>11, <1>12 DEF Follows
<1>14. u = Mtd => Buffered'
  <2>1. SUFFICES ASSUME u = Mtd PROVE Buffered'
    OBVIOUS
  <2>2. ~Reads(r.op)
    BY <1>2, <1>6, <2>1 DEF Control, Reads, ByPage, MtdOps
  <2>3. at'[Mtd] \notin {"pageprog", "fetchbuf"}
    BY <1>4, <2>1
  <2>4. QED
    BY <1>3, <2>1, <2>2, <2>3 DEF Buffered, Reads
<1>15. GotType'
  BY <1>3 DEF SInv, GotType
<1>16. QED
  BY <1>1, <1>3, <1>4, <1>13, <1>14, <1>15, HolderFollows

(* A read takes the next cells out of the cached page. *)
LEMMA CopiesOn ==
  ASSUME IInv, SInv, NEW u \in party, Copy(u)
  PROVE  LET n == ReadLen(piece.off, left[u])
             s == got[u] \o SubSeq(cache.data, piece.off + 1, piece.off + n)
         IN /\ n \in Nat /\ n <= left[u]
            /\ s \in Seq(Val \cup {Mixed})
            /\ s = [k \in 1 .. req[u].len - (left[u] - n) |->
                      CellOf(CellAt(req[u].addr + k - 1))]
<1> DEFINE r == req[u]
           x == left[u]
           n == ReadLen(piece.off, x)
           off == piece.off
           b == SubSeq(cache.data, off + 1, off + n)
           V == Val \cup {Mixed}
<1>1. at[u] = "copy" /\ at[u] \in Inside \ {"next", "leave"}
  BY DEF Copy, Inside
<1>2. /\ Types /\ u \in AllUsers /\ r \in Calls /\ r # Idle
      /\ Control(u) /\ Progress(u) /\ PieceIs(u) /\ Held(u) /\ x \in Nat /\ Follows(u)
      /\ piece.page \in PageNumbers
  BY <1>1, HolderHas DEF SInv
<1>3. r.op = "read" /\ ~ByPage(r.op) /\ ~Erases(r.op) /\ ~Unaligned(r)
  BY <1>1, <1>2, OpFacts DEF Control, Unaligned
<1>4. x > 0 /\ x <= r.len
  BY <1>1, <1>2, <1>3 DEF Progress
<1>5. r.len \in Nat /\ r.addr \in Nat
  BY <1>2, CallFacts
<1>6. PICK pos \in Nat : pos = r.addr + r.len - x
  BY <1>2, <1>4, <1>5
<1>7. piece.page = pos \div PageSize /\ off = pos % PageSize
  BY <1>1, <1>2, <1>3, <1>6 DEF PieceIs, Pos
<1>8. off \in 0 .. PageSize - 1
  BY <1>6, <1>7, DivMod, SizeFacts, Zenon
<1>9. n \in Nat /\ n > 0 /\ n <= x /\ off + n <= PageSize
  BY <1>2, <1>4, <1>8, ReadLenIs
<1>10. cache.data = chip.cells[piece.page] /\ cache.data \in [Columns -> V]
  <2>1. cache.page = piece.page /\ DataIs
    BY <1>1, <1>2 DEF Held, Cached, LaidOver
  <2>2. piece.page # NoPage
    BY <1>2, SizeFacts
  <2>3. QED
    BY <1>2, <2>1, <2>2 DEF DataIs, Types, CacheType, AnyPage
<1>11. cache.data \in Seq(V) /\ Len(cache.data) = PageSize + 1
  BY <1>10, PageIsSeq, SizeFacts
<1>12. got[u] \in Seq(V)
       /\ got[u] = [k \in 1 .. r.len - x |-> CellOf(CellAt(r.addr + k - 1))]
  BY <1>1, <1>2, <1>3 DEF SInv, GotType, Follows, Gotten
<1> HIDE DEF n, x, r, off, V
<1>13. b \in Seq(V) /\ Len(b) = n /\ \A k \in 1 .. n : b[k] = cache.data[off + k]
  BY <1>8, <1>9, <1>11, SizeFacts
<1>14. Len(got[u]) = r.len - x /\ r.len - x \in Nat
  BY <1>2, <1>4, <1>5, <1>12 DEF x
<1>15. \A k \in 1 .. n : b[k] = CellOf(CellAt(pos + (k - 1)))
  <2>1. TAKE k \in 1 .. n
  <2>2. k - 1 \in Nat /\ (pos % PageSize) + (k - 1) < PageSize
    BY <1>7, <1>8, <1>9, SizeFacts
  <2>3. CellAt(pos + (k - 1)) = <<pos \div PageSize, (pos % PageSize) + (k - 1) + 1>>
    BY <1>6, <2>2, CellIs
  <2>4. CellAt(pos + (k - 1)) = <<piece.page, off + k>>
    <3>1. (pos % PageSize) + (k - 1) + 1 = off + k
      BY <1>7, <1>8, <1>9
    <3>2. QED
      BY <1>7, <2>3, <3>1
  <2>5. QED
    BY <1>10, <1>13, <2>4 DEF CellOf
<1> HIDE DEF b
<1> DEFINE s == got[u] \o b
<1>16. PICK m \in Nat : m = r.len - x
  BY <1>14
<1>17. m + n = r.len - (x - n) /\ m + n \in Nat /\ pos = r.addr + m
  BY <1>2, <1>5, <1>6, <1>9, <1>16 DEF x
<1>18. /\ s \in Seq(V) /\ Len(s) = m + n
       /\ \A k \in 1 .. m : s[k] = got[u][k]
       /\ \A k \in m + 1 .. m + n : s[k] = b[k - m]
  BY <1>9, <1>12, <1>13, <1>14, <1>16
<1> HIDE DEF s
<1>19. \A k \in 1 .. m + n : s[k] = CellOf(CellAt(r.addr + k - 1))
  <2>1. TAKE k \in 1 .. m + n
  <2>2. CASE k \in 1 .. m
    BY <1>12, <1>16, <1>18, <2>2
  <2>3. CASE k \in m + 1 .. m + n
    <3>1. PICK j \in 1 .. n : j = k - m
      BY <1>9, <2>3
    <3>2. pos + (j - 1) = r.addr + k - 1
      BY <1>5, <1>9, <1>17, <2>3, <3>1
    <3>3. s[k] = b[j]
      BY <1>18, <2>3, <3>1
    <3>4. b[j] = CellOf(CellAt(pos + (j - 1)))
      BY <1>15
    <3>5. QED
      BY <3>2, <3>3, <3>4
  <2>4. QED
    BY <1>9, <2>2, <2>3
<1>20. s = [k \in 1 .. r.len - (x - n) |-> CellOf(CellAt(r.addr + k - 1))]
  <2>1. s = [k \in 1 .. m + n |-> s[k]]
    BY <1>18
  <2>2. QED
    BY <1>17, <1>19, <2>1
<1>21. QED
  BY <1>9, <1>18, <1>20 DEF s, n, b, x, r, off, V

LEMMA CopyFollows ==
  ASSUME IInv, SInv, NEW u \in party, Copy(u)
  PROVE  SInv' /\ StoreNext
<1> DEFINE n == ReadLen(piece.off, left[u])
           s == got[u] \o SubSeq(cache.data, piece.off + 1, piece.off + n)
<1>1. at[u] = "copy" /\ at[u] \in Inside /\ "next" \in Inside
  BY DEF Copy, Inside
<1>2. /\ Types /\ u \in AllUsers /\ req[u] \in Calls /\ req[u] # Idle /\ Control(u)
      /\ Follows(u) /\ left[u] \in Nat
  BY <1>1, HolderHas DEF SInv
<1>3. req[u].op = "read" /\ ~ByPage(req[u].op) /\ ~Erases(req[u].op)
  BY <1>1, <1>2, OpFacts DEF Control
<1>4. /\ n \in Nat /\ n <= left[u] /\ s \in Seq(Val \cup {Mixed})
      /\ s = [k \in 1 .. req[u].len - (left[u] - n) |-> CellOf(CellAt(req[u].addr + k - 1))]
  BY CopiesOn
<1>5. /\ party' = party /\ req' = req /\ state' = state /\ todo' = todo /\ lock' = lock
      /\ turn' = turn /\ answer' = answer /\ chip' = chip /\ piece' = piece
      /\ at' = [at EXCEPT ![u] = "next"]
  BY DEF Copy, Same, Goto, history
<1>6. left' = [left EXCEPT ![u] = left[u] - n] /\ got' = [got EXCEPT ![u] = s]
  BY DEF Copy
<1> HIDE DEF n, s
<1>7. /\ at'[u] = "next" /\ left'[u] = left[u] - n /\ got'[u] = s /\ GotType'
      /\ \A v \in AllUsers : v # u => left'[v] = left[v] /\ got'[v] = got[v]
  BY <1>2, <1>4, <1>5, <1>6 DEF Types, SInv, GotType
<1>8. Remains(u)'
  <2>1. Placed(u)' = Placed(u)
    BY <1>3, <1>5, PlacedIs DEF Placed, Reads
  <2>2. QED
    BY <1>2, <1>5, <2>1 DEF Follows, Remains
<1>9. Through(u)' /\ Whole(u)'
  <2>1. "next" \notin Ended
    BY DEF Ended
  <2>2. req'[u] = req[u] /\ at'[u] \notin Ended /\ ~Erases(req[u].op)
    BY <1>3, <1>5, <1>7, <2>1, Zenon
  <2>3. Through(u)'
    BY <2>2, Zenon DEF Through
  <2>4. Whole(u)'
    BY <2>2 DEF Whole
  <2>5. QED
    BY <2>3, <2>4
<1>10. Gotten(u)'
  BY <1>3, <1>4, <1>5, <1>7 DEF Gotten, CellOf
<1>11. Given(u)'
  BY <1>3, <1>5, <1>7 DEF Given
<1>12. Follows(u)'
  BY <1>8, <1>9, <1>10, <1>11 DEF Follows
<1>13. u # Mtd
  BY <1>2, <1>3 DEF Control, MtdOps
<1>14. QED
  BY <1>1, <1>5, <1>7, <1>12, <1>13, HolderFollows

(* The length of a piece. *)
LEMMA DataLen ==
  ASSUME IInv, NEW u \in party, at[u] \in Inside \ {"next", "leave"}, req[u].op = "write"
  PROVE  /\ left[u] \in Nat /\ left[u] > 0 /\ left[u] <= req[u].len
         /\ req[u].len \in Nat /\ req[u].addr \in Nat
         /\ Pos(u) \in Nat /\ Pos(u) = req[u].addr + req[u].len - left[u]
         /\ piece.page = Pos(u) \div PageSize /\ piece.off = Pos(u) % PageSize
         /\ piece.off \in 0 .. PageSize - 1
         /\ Len(piece.data) \in Nat /\ Len(piece.data) > 0 /\ Len(piece.data) <= left[u]
         /\ piece.off + Len(piece.data) <= PageSize
         /\ Len(piece.data) = WriteLen(piece.off, left[u]) /\ piece.oob = Blank
<1>1. /\ Types /\ u \in AllUsers /\ req[u] \in Calls /\ req[u] # Idle /\ left[u] \in Nat
      /\ Progress(u) /\ PieceIs(u)
  BY HolderHas
<1>2. ~ByPage(req[u].op)
  BY DEF ByPage, MtdOps
<1>3. left[u] > 0 /\ left[u] <= req[u].len
  BY <1>1, <1>2 DEF Progress
<1>4. req[u].len \in Nat /\ req[u].addr \in Nat
  BY <1>1, CallFacts
<1>5. Pos(u) \in Nat /\ Pos(u) = req[u].addr + req[u].len - left[u]
  BY <1>1, <1>3, <1>4 DEF Pos
<1>6. piece.page = Pos(u) \div PageSize /\ piece.off = Pos(u) % PageSize
      /\ piece.oob = Blank /\ Len(piece.data) = WriteLen(piece.off, left[u])
  BY <1>1 DEF PieceIs
<1>7. piece.off \in 0 .. PageSize - 1
  BY <1>5, <1>6, DivMod, SizeFacts, Zenon
<1>8. QED
  BY <1>1, <1>3, <1>4, <1>5, <1>6, <1>7, WriteLenIs

(* An erase that is at a block's border: how many blocks lie behind it.     *)
LEMMA BlocksBehind ==
  ASSUME NEW len \in Nat, NEW n \in Nat, n > 0, n <= len, (len - n) % BlockLen = 0
  PROVE  \E q \in Nat : /\ len - n = BlockLen * q
                        /\ (len - n + BlockLen - 1) \div BlockLen = q
                        /\ q < (len + BlockLen - 1) \div BlockLen
<1>1. PICK z \in Nat \ {0} : z = BlockLen
  BY SizeFacts
<1>2. PICK e \in Nat : e = len - n
  OBVIOUS
<1>3. PICK q \in Nat : q = e \div z
  BY <1>1, <1>2, DivMod
<1>4. e = z * q
  <2>1. e = z * (e \div z) + (e % z)
    BY <1>1, <1>2, DivMod
  <2>2. e % z = 0
    BY <1>1, <1>2
  <2>3. z * q \in Nat
    BY <1>1, <1>3
  <2>4. QED
    BY <1>3, <2>1, <2>2, <2>3
<1>5. (e + (z - 1)) \div z = q
  <2>1. PICK a \in Nat : a = e + (z - 1)
    BY <1>1, <1>2
  <2>2. PICK x \in 0 .. z - 1 : x = z - 1
    BY <1>1
  <2>3. a = z * q + x
    BY <1>4, <2>1, <2>2
  <2>4. a \div z = q
    BY <1>1, <1>3, <2>3, DivIs, Zenon
  <2>5. QED
    BY <2>1, <2>4
<1>6. PICK y \in Nat : y = (len + (z - 1)) \div z
  BY <1>1, DivMod
<1>7. len + (z - 1) < z * (y + 1)
  <2>1. len + (z - 1) \in Nat
    BY <1>1
  <2>2. PICK x \in 0 .. z - 1 : len + (z - 1) = z * y + x
    <3>1. len + (z - 1) = z * ((len + (z - 1)) \div z) + ((len + (z - 1)) % z)
          /\ (len + (z - 1)) % z \in 0 .. z - 1
      BY <1>1, <2>1, DivMod
    <3>2. QED
      BY <1>6, <3>1
  <2>3. PICK w \in Nat : w = z * y
    BY <1>1, <1>6
  <2>4. z * (y + 1) = w + z
    BY <1>1, <1>6, <2>3
  <2>5. QED
    BY <1>1, <2>2, <2>3, <2>4
<1>8. z * q + z <= len + (z - 1)
  <2>1. PICK w \in Nat : w = z * q
    BY <1>1, <1>3
  <2>2. QED
    BY <1>1, <1>2, <1>4, <2>1
<1>9. z * (q + 1) < z * (y + 1)
  <2>1. z * (q + 1) = z * q + z
    BY <1>1, <1>3
  <2>2. z * (y + 1) \in Nat /\ z * q \in Nat
    BY <1>1, <1>3, <1>6
  <2>3. QED
    BY <1>1, <1>7, <1>8, <2>1, <2>2
<1>10. q < y
  <2>1. SUFFICES ASSUME y <= q PROVE FALSE
    BY <1>3, <1>6
  <2>2. PICK g \in Nat : q + 1 = (y + 1) + g
    <3>1. q - y \in Nat /\ q + 1 = (y + 1) + (q - y)
      BY <1>3, <1>6, <2>1
    <3>2. QED
      BY <3>1
  <2>3. z * (q + 1) = z * (y + 1) + z * g /\ z * g \in Nat /\ z * (y + 1) \in Nat
    BY <1>1, <1>6, <2>2
  <2>4. QED
    BY <1>9, <2>3
<1>11. (len - n + BlockLen - 1) = e + (z - 1) /\ len + BlockLen - 1 = len + (z - 1)
  BY <1>1, <1>2
<1>12. QED
  BY <1>1, <1>2, <1>3, <1>4, <1>5, <1>6, <1>10, <1>11

LEMMA EraseMoves ==
  ASSUME NEW len \in Nat, NEW n \in Nat, n > 0, n <= len, (len - n) % BlockLen = 0,
         NEW m, m = IF BlockLen > n THEN 0 ELSE n - BlockLen
  PROVE  /\ m \in Nat /\ m <= len
         /\ m > 0 => (len - m) % BlockLen = 0
         /\ (len - m + BlockLen - 1) \div BlockLen = (len - n + BlockLen - 1) \div BlockLen + 1
<1>1. PICK z \in Nat \ {0} : z = BlockLen
  BY SizeFacts
<1>2. PICK q \in Nat : len - n = z * q /\ (len - n + BlockLen - 1) \div BlockLen = q
  BY <1>1, BlocksBehind
<1>3. m \in Nat /\ m <= len
  BY <1>1
<1>4. PICK w \in Nat : w = z * q /\ z * (q + 1) = w + z
  <2>1. z * q \in Nat /\ z * (q + 1) = z * q + z
    BY <1>1, <1>2
  <2>2. QED
    BY <2>1
<1>5. CASE z > n
  <2>1. m = 0
    BY <1>1, <1>5
  <2>2. n - 1 \in 0 .. z - 1 /\ len - m + z - 1 = z * (q + 1) + (n - 1) /\ len - m + z - 1 \in Nat
    BY <1>1, <1>2, <1>4, <1>5, <2>1
  <2>3. (len - m + z - 1) \div z = q + 1
    BY <1>1, <1>2, <2>2, DivIs
  <2>4. QED
    BY <1>1, <1>2, <1>3, <2>1, <2>3
<1>6. CASE ~(z > n)
  <2>1. m = n - z
    BY <1>1, <1>6
  <2>2. /\ len - m = z * (q + 1) + 0 /\ len - m \in Nat /\ 0 \in 0 .. z - 1
        /\ len - m + z - 1 = z * (q + 1) + (z - 1) /\ len - m + z - 1 \in Nat
        /\ z - 1 \in 0 .. z - 1
    BY <1>1, <1>2, <1>3, <1>4, <1>6, <2>1
  <2>3. PICK h \in Nat : h = q + 1
    BY <1>2
  <2>4. (len - m + z - 1) \div z = h
    <3>1. PICK a \in Nat : a = len - m + z - 1
      BY <2>2
    <3>2. PICK x \in 0 .. z - 1 : x = z - 1
      BY <1>1
    <3>3. a = z * h + x
      BY <2>2, <2>3, <3>1, <3>2
    <3>4. a \div z = h
      BY <1>1, <2>3, <3>3, DivIs, Zenon
    <3>5. QED
      BY <3>1, <3>4
  <2>5. (len - m) % z = 0
    <3>1. PICK a \in Nat : a = len - m
      BY <2>2
    <3>2. PICK x \in 0 .. z - 1 : x = 0
      BY <2>2
    <3>3. a = z * h + x
      BY <2>2, <2>3, <3>1, <3>2
    <3>4. a \div z = h /\ a % z = x
      BY <3>3, DivIs
    <3>5. QED
      BY <3>1, <3>2, <3>4
  <2>6. QED
    BY <1>1, <1>2, <1>3, <2>3, <2>4, <2>5
<1>7. QED
  BY <1>5, <1>6

LEMMA WrDiFollows ==
  ASSUME IInv, SInv, NEW u \in party, WrDi(u)
  PROVE  SInv' /\ StoreNext
<1> DEFINE r == req[u]
           l == IF ByPage(r.op) THEN "leave" ELSE "next"
           n == IF Erases(r.op) THEN BlockLen ELSE Len(piece.data)
           m == IF n > left[u] THEN 0 ELSE left[u] - n
<1>1. at[u] = "wrdi" /\ at[u] \in Inside \ {"next", "leave"}
  BY DEF WrDi, Inside
<1>2. /\ Types /\ u \in AllUsers /\ r \in Calls /\ r # Idle
      /\ Control(u) /\ Progress(u) /\ Held(u) /\ left[u] \in Nat /\ Follows(u)
      /\ Len(piece.data) \in Nat /\ chip \in ChipType
  BY <1>1, HolderHas DEF SInv, Types
<1>3. /\ party' = party /\ req' = req /\ state' = state /\ todo' = todo /\ lock' = lock
      /\ turn' = turn /\ answer' = answer /\ piece' = piece /\ got' = got
      /\ at' = [at EXCEPT ![u] = l] /\ left' = [left EXCEPT ![u] = m]
  BY DEF WrDi, Same, Goto, history
<1>4. /\ at'[u] = l /\ left'[u] = m /\ l \in Inside /\ l \in {"leave", "next"}
      /\ \A v \in AllUsers : v # u => left'[v] = left[v] /\ got'[v] = got[v]
  <2> HIDE DEF m
  <2>1. QED
    BY <1>2, <1>3 DEF Types, Inside
<1>5. chip'.cells = chip.cells
  <2>1. chip.op = "idle"
    BY <1>1, <1>2 DEF Held, Steady
  <2>2. QED
    BY <1>2, <2>1, Latch DEF WrDi
<1>6. ~Reads(r.op) /\ ~Unaligned(r)
  BY <1>1, <1>2 DEF Control
<1>7. ASSUME Erases(r.op)
      PROVE  /\ m > 0 => (r.len - m) % BlockLen = 0
             /\ (r.len - m + BlockLen - 1) \div BlockLen
                  = (r.len - left[u] + BlockLen - 1) \div BlockLen + 1
  <2>1. ~ByPage(r.op)
    BY <1>2, <1>7, OpFacts
  <2>2. r.len \in Nat /\ left[u] > 0 /\ left[u] <= r.len
    BY <1>1, <1>2, <2>1, CallFacts DEF Progress
  <2>3. (r.len - left[u]) % BlockLen = 0
    BY <1>2, <1>6, <1>7, <2>2 DEF Follows, Whole
  <2>4. m = IF BlockLen > left[u] THEN 0 ELSE left[u] - BlockLen
    BY <1>7
  <2> HIDE DEF m
  <2>5. QED
    BY <1>2, <2>2, <2>3, <2>4, EraseMoves
<1>8. Placed(u)' = Placed(u)
  <2>1. Placed(u)' = PlacedOf(r, l, m, Len(piece.data))
    BY <1>3, <1>4 DEF Placed
  <2>2. Placed(u) = PlacedOf(r, "wrdi", left[u], Len(piece.data))
    BY <1>1 DEF Placed
  <2>3. CASE r.op = "write"
    <3>1. Len(piece.data) <= left[u] /\ r.len \in Nat
      BY <1>1, <2>3, DataLen
    <3>2. m = left[u] - Len(piece.data)
      BY <1>2, <1>6, <2>3, <3>1 DEF Erases
    <3>3. l = "next"
      BY <2>3 DEF ByPage, MtdOps
    <3> HIDE DEF m, l
    <3>4. /\ PlacedOf(r, l, m, Len(piece.data)) = r.len - m + 0
          /\ PlacedOf(r, "wrdi", left[u], Len(piece.data)) = r.len - left[u] + Len(piece.data)
      BY <2>3, <3>3, PlacedIs
    <3>5. QED
      BY <1>2, <2>1, <2>2, <3>1, <3>2, <3>4
  <2>4. CASE r.op \in {"mtdwrite", "mtdwriteoob"}
    <3>1. l = "leave"
      BY <2>4 DEF ByPage, MtdOps
    <3> HIDE DEF m, l
    <3>2. QED
      BY <2>1, <2>2, <2>4, <3>1, PlacedIs DEF Ended
  <2>5. CASE Erases(r.op)
    <3>1. l = "next"
      BY <1>2, <2>5, OpFacts
    <3> HIDE DEF m, l
    <3>2. /\ PlacedOf(r, l, m, Len(piece.data))
               = ((r.len - m + BlockLen - 1) \div BlockLen + 0) * BlockCells
          /\ PlacedOf(r, "wrdi", left[u], Len(piece.data))
               = ((r.len - left[u] + BlockLen - 1) \div BlockLen + 1) * BlockCells
      BY <1>6, <2>5, <3>1, PlacedIs
    <3>3. (r.len - m + BlockLen - 1) \div BlockLen + 0
            = (r.len - left[u] + BlockLen - 1) \div BlockLen + 1
      <4>1. left[u] > 0 /\ left[u] <= r.len /\ r.len \in Nat
        BY <1>1, <1>2, <2>5, OpFacts, CallFacts DEF Progress
      <4>2. PICK e \in Nat : e = r.len - left[u] + BlockLen - 1
        BY <1>2, <4>1, SizeFacts
      <4>3. e \div BlockLen \in Nat
        BY DivMod, SizeFacts
      <4>4. QED
        BY <1>7, <2>5, <4>2, <4>3
    <3>4. QED
      BY <2>1, <2>2, <3>2, <3>3, Zenon
  <2>6. QED
    BY <1>2, <1>6, <2>3, <2>4, <2>5, OpFacts DEF Programs
<1> HIDE DEF m, n
<1>9. Remains(u)'
  BY <1>2, <1>3, <1>8 DEF Follows, Remains
<1>10. Through(u)'
  <2>1. at'[u] \in Ended => ByPage(r.op)
    BY <1>4 DEF Ended
  <2>2. QED
    BY <1>3, <2>1 DEF Through
<1>11. Whole(u)'
  BY <1>3, <1>4, <1>6, <1>7 DEF Whole, Laying
<1>12. Gotten(u)'
  BY <1>2, <1>3, <1>4, <1>6 DEF Follows, Gotten, Reads
<1>13. Given(u)'
  <2>1. at'[u] \notin Inside \ {"next", "leave"}
    BY <1>4
  <2>2. QED
    BY <1>1, <1>2, <1>3, <2>1 DEF Follows, Given
<1>14. Follows(u)'
  BY <1>9, <1>10, <1>11, <1>12, <1>13 DEF Follows
<1>15. u = Mtd => Buffered'
  <2>1. SUFFICES ASSUME u = Mtd PROVE Buffered'
    OBVIOUS
  <2>2. at'[Mtd] # "pageprog"
    BY <1>4, <2>1
  <2>3. QED
    BY <1>3, <1>6, <2>1, <2>2 DEF Buffered, Reads
<1>16. GotType'
  BY <1>3 DEF SInv, GotType
<1> HIDE DEF l
<1>17. QED
  BY <1>1, <1>3, <1>4, <1>5, <1>14, <1>15, <1>16, HolderFollows

-----------------------------------------------------------------------------
(* Steps that are the store's Put.                                         *)

LEMMA CutAgain ==
  ASSUME NEW S, NEW q \in Seq(S), NEW P \in Nat, NEW n \in Nat, P + n <= Len(q)
  PROVE  LET p == SubSeq(q, P + 1, Len(q))
         IN /\ Len(p) = Len(q) - P
            /\ SubSeq(p, n + 1, Len(p)) = SubSeq(q, P + n + 1, Len(q))
            /\ SubSeq(p, 1, n) \in Seq(S) /\ Len(SubSeq(p, 1, n)) = n
            /\ \A k \in 1 .. n : SubSeq(p, 1, n)[k] = q[P + k]
<1> DEFINE p == SubSeq(q, P + 1, Len(q))
           a == SubSeq(p, n + 1, Len(p))
           b == SubSeq(q, P + n + 1, Len(q))
           s == SubSeq(p, 1, n)
<1>1. PICK m \in Nat : m = Len(q) - P
  OBVIOUS
<1>2. p \in Seq(S) /\ Len(p) = m /\ \A k \in 1 .. m : p[k] = q[P + k]
  BY <1>1
<1> HIDE DEF p
<1>3. /\ a \in Seq(S) /\ Len(a) = m - n /\ \A k \in 1 .. m - n : a[k] = p[n + k]
  BY <1>1, <1>2
<1>4. /\ b \in Seq(S) /\ Len(b) = m - n /\ \A k \in 1 .. m - n : b[k] = q[P + n + k]
  BY <1>1
<1>5. /\ s \in Seq(S) /\ Len(s) = n /\ \A k \in 1 .. n : s[k] = p[k]
  BY <1>1, <1>2
<1> HIDE DEF a, b, s
<1>6. \A k \in 1 .. m - n : a[k] = b[k]
  <2>1. TAKE k \in 1 .. m - n
  <2>2. n + k \in 1 .. m /\ P + (n + k) = P + n + k
    BY <1>1
  <2>3. QED
    BY <1>2, <1>3, <1>4, <2>2
<1>7. a = b
  <2>1. a = [k \in 1 .. m - n |-> a[k]]
    BY <1>3
  <2>2. b = [k \in 1 .. m - n |-> b[k]]
    BY <1>4
  <2>3. [k \in 1 .. m - n |-> a[k]] = [k \in 1 .. m - n |-> b[k]]
    BY <1>6
  <2>4. QED
    BY <2>1, <2>2, <2>3
<1>8. \A k \in 1 .. n : s[k] = q[P + k]
  <2>1. TAKE k \in 1 .. n
  <2>2. k \in 1 .. m
    BY <1>1
  <2>3. QED
    BY <1>2, <1>5, <2>2
<1>9. QED
  BY <1>1, <1>2, <1>5, <1>7, <1>8 DEF a, b, s, p

Pairs == (Nat \X Nat) \X (Range(Text) \cup {Blank})

LEMMA RemainsIs ==
  ASSUME NEW u, req[u] # Idle, Remains(u)
  PROVE  /\ todo[u].put = SubSeq(PutOf(req[u]), Placed(u) + 1, Len(PutOf(req[u])))
         /\ todo[u].get = GetOf(req[u])
BY DEF Remains

LEMMA OtherPut ==
  ASSUME NEW t \in Request, NEW x
  PROVE  [t EXCEPT !.put = x] = [put |-> x, get |-> t.get]
BY DEF Request

LEMMA PutStep ==
  ASSUME NEW u \in AllUsers, NEW q \in Seq(Pairs), NEW P \in Nat, NEW n \in Nat, n > 0,
         P + n <= Len(q), todo \in [AllUsers -> Request \cup {Idle}],
         todo[u] # Idle, todo[u].put = SubSeq(q, P + 1, Len(q)),
         turn \in {Nobody, u}, Place(u, n), answer' = answer,
         \A c \in Cells : \A j \in P + 1 .. P + n : q[j][1] = c => CellOf(c)' = q[j][2],
         \A c \in Cells : (\A j \in P + 1 .. P + n : q[j][1] # c) => CellOf(c)' = CellOf(c)
  PROVE  /\ StoreNext
         /\ todo'[u] = [put |-> SubSeq(q, P + n + 1, Len(q)), get |-> todo[u].get]
         /\ \A v \in AllUsers : v # u => todo'[v] = todo[v]
<1> DEFINE p == todo[u].put
           s == SubSeq(p, 1, n)
           rest == SubSeq(q, P + n + 1, Len(q))
<1>1. /\ Len(p) = Len(q) - P /\ SubSeq(p, n + 1, Len(p)) = rest
      /\ s \in Seq(Pairs) /\ Len(s) = n /\ \A k \in 1 .. n : s[k] = q[P + k]
  <2>1. LET x == SubSeq(q, P + 1, Len(q))
        IN /\ Len(x) = Len(q) - P
           /\ SubSeq(x, n + 1, Len(x)) = SubSeq(q, P + n + 1, Len(q))
           /\ SubSeq(x, 1, n) \in Seq(Pairs) /\ Len(SubSeq(x, 1, n)) = n
           /\ \A k \in 1 .. n : SubSeq(x, 1, n)[k] = q[P + k]
    BY CutAgain, Zenon
  <2>2. QED
    BY <2>1, Zenon
<1>2. n \in 1 .. Len(p)
  BY <1>1
<1> HIDE DEF s
<1>3. [c \in Cells |-> CellOf(c)]' = Store!Laid(s)
  <2>1. ASSUME NEW c \in Cells
        PROVE  LET hits == {k \in DOMAIN s : s[k][1] = c}
               IN CellOf(c)' = IF hits = {} THEN CellOf(c) ELSE s[CHOOSE k \in hits : TRUE][2]
    <3> DEFINE hits == {k \in DOMAIN s : s[k][1] = c}
    <3>1. DOMAIN s = 1 .. n
      BY <1>1
    <3>2. CASE hits = {}
      <4>1. \A j \in P + 1 .. P + n : q[j][1] # c
        <5>1. TAKE j \in P + 1 .. P + n
        <5>2. PICK k \in 1 .. n : j = P + k
          <6>1. j - P \in 1 .. n /\ j = P + (j - P)
            OBVIOUS
          <6>2. QED
            BY <6>1
        <5>3. s[k][1] # c
          BY <3>1, <3>2
        <5>4. QED
          BY <1>1, <5>2, <5>3
      <4>2. QED
        BY <3>2, <4>1
    <3>3. CASE hits # {}
      <4>1. PICK k \in hits : k = CHOOSE x \in hits : TRUE
        BY <3>3
      <4>2. k \in 1 .. n /\ s[k][1] = c /\ s[k] = q[P + k]
        BY <1>1, <3>1, <4>1
      <4>3. P + k \in P + 1 .. P + n
        BY <4>2
      <4>4. CellOf(c)' = s[k][2]
        BY <4>2, <4>3
      <4>5. QED
        BY <3>3, <4>1, <4>4
    <3>4. QED
      BY <3>2, <3>3
  <2>2. QED
    BY <2>1 DEF Store!Laid, CellOf
<1>4. Store!Put(u)
  BY <1>2, <1>3 DEF Store!Put, Place, CellOf, s
<1>5. todo' = [todo EXCEPT ![u] = [todo[u] EXCEPT !.put = rest]]
  BY <1>1 DEF Place
<1>6. todo[u] \in Request
  OBVIOUS
<1> HIDE DEF rest
<1>7. /\ todo'[u] = [todo[u] EXCEPT !.put = rest]
      /\ \A v \in AllUsers : v # u => todo'[v] = todo[v]
  BY <1>5
<1>8. [todo[u] EXCEPT !.put = rest] = [put |-> rest, get |-> todo[u].get]
  BY <1>6, OtherPut, Zenon
<1>9. StoreNext
  BY <1>4 DEF StoreNext, Store!Next
<1>10. QED
  BY <1>7, <1>8, <1>9 DEF rest

LEMMA PutIsSeq ==
  ASSUME NEW r \in Calls
  PROVE  PutOf(r) \in Seq(Pairs)
BY AskedIsRequest DEF Asked, Request, Pairs

LEMMA PutFollows ==
  ASSUME IInv, SInv, NEW u \in party, at[u] \in {"exec", "erase"},
         at' = [at EXCEPT ![u] = "wait"],
         party' = party, req' = req, left' = left, piece' = piece, got' = got,
         state' = state, cache' = cache, lock' = lock, answer' = answer,
         NEW n \in Nat, n > 0, Place(u, n),
         NEW P \in Nat, P = Placed(u), P + n <= Len(PutOf(req[u])), Placed(u)' = P + n,
         \A c \in Cells : \A j \in P + 1 .. P + n :
           PutOf(req[u])[j][1] = c => CellOf(c)' = PutOf(req[u])[j][2],
         \A c \in Cells : (\A j \in P + 1 .. P + n : PutOf(req[u])[j][1] # c)
           => CellOf(c)' = CellOf(c)
  PROVE  SInv' /\ StoreNext
<1> DEFINE r == req[u]
           q == PutOf(r)
<1>1. at[u] \in Inside \ {"next", "leave"}
  BY DEF Inside
<1>2. /\ Types /\ u \in AllUsers /\ r \in Calls /\ r # Idle /\ Control(u)
      /\ todo[u] # Idle /\ Follows(u) /\ lock = u
  BY <1>1, HolderHas DEF SInv
<1>3. Remains(u)
  BY <1>2 DEF Follows
<1>4. turn \in {Nobody, u}
  BY <1>1, TurnIs
<1>5. q \in Seq(Pairs)
  BY <1>2, PutIsSeq
<1>6. todo[u].put = SubSeq(q, P + 1, Len(q)) /\ todo[u].get = GetOf(r)
  BY <1>2, <1>3, RemainsIs
<1>7. todo \in [AllUsers -> Request \cup {Idle}]
  BY <1>2 DEF Types
<1>8. /\ StoreNext
      /\ todo'[u] = [put |-> SubSeq(q, P + n + 1, Len(q)), get |-> GetOf(r)]
      /\ \A v \in AllUsers : v # u => todo'[v] = todo[v]
  <2>1. q \in Seq(Pairs)
    BY <1>5
  <2> HIDE DEF q
  <2>2. /\ P + n <= Len(q)
        /\ \A c \in Cells : \A j \in P + 1 .. P + n : q[j][1] = c => CellOf(c)' = q[j][2]
        /\ \A c \in Cells : (\A j \in P + 1 .. P + n : q[j][1] # c) => CellOf(c)' = CellOf(c)
    BY DEF q
  <2>3. /\ StoreNext
        /\ todo'[u] = [put |-> SubSeq(q, P + n + 1, Len(q)), get |-> todo[u].get]
        /\ \A v \in AllUsers : v # u => todo'[v] = todo[v]
    <3>1. n \in Nat /\ n > 0 /\ todo[u].put = SubSeq(q, P + 1, Len(q))
      BY <1>6
    <3>2. QED
      BY <1>2, <1>4, <1>7, <2>1, <2>2, <3>1, PutStep, ZenonT(60)
  <2>4. QED
    BY <1>6, <2>3
<1>9. at'[u] = "wait" /\ \A v \in AllUsers : v # u => at'[v] = at[v]
  BY <1>2 DEF Types
<1>10. ~Reads(r.op) /\ (at[u] = "exec" => ~Erases(r.op))
  BY <1>2, OpFacts DEF Control
<1>11. Remains(u)'
  BY <1>8 DEF Remains
<1>12. Through(u)'
  BY <1>9 DEF Through, Ended
<1>13. Whole(u)'
  BY <1>2, <1>10 DEF Follows, Whole, Laying, Pos
<1>14. Gotten(u)'
  BY <1>2, <1>9, <1>10 DEF Follows, Gotten, Reads
<1>15. Given(u)'
  BY <1>1, <1>2, <1>9 DEF Follows, Given
<1>16. Follows(u)'
  BY <1>11, <1>12, <1>13, <1>14, <1>15 DEF Follows
<1>17. u = Mtd => Buffered'
  BY <1>9, <1>10 DEF Buffered, Reads
<1>18. turn' = u
  BY DEF Place
<1>19. Turn'
  BY <1>2, <1>18 DEF Turn
<1>20. GotType'
  BY DEF SInv, GotType
<1>21. SInv'
  BY <1>1, <1>8, <1>9, <1>16, <1>17, <1>19, <1>20, FollowStep
<1>22. QED
  BY <1>8, <1>21

(* What a program changes. *)
LEMMA ExecCells ==
  ASSUME IInv, NEW u \in party, Exec(u)
  PROVE  LET s == chip.cells[piece.page]
         IN /\ s \in PageType /\ piece.page \in PageNumbers
            /\ \A c \in Cells : CellOf(c)' = IF c[1] = piece.page THEN Overlaid(s)[c[2]]
                                             ELSE CellOf(c)
<1> DEFINE p == piece.page
           s == chip.cells[p]
           o == Overlaid(s)
<1>1. at[u] = "exec" /\ at[u] \in Inside
  BY DEF Exec, Inside
<1>2. /\ Types /\ u \in AllUsers /\ req[u] \in Calls /\ req[u] # Idle
      /\ Control(u) /\ Progress(u) /\ PieceIs(u) /\ OwedBlank(u) /\ Held(u)
      /\ p \in PageNumbers /\ s \in PageType /\ ~chip.locked /\ chip \in ChipType
  BY <1>1, HolderHas DEF Types
<1>3. Takes(chip) /\ chip.reg[PlaneOf(chip, p)] = o
  BY <1>1, <1>2 DEF Held, Steady, Registers, Cached, LaidOver, Takes, OIP, Control
<1>4. o \in PageType /\ \A k \in Columns : And(s[k], o[k]) = o[k]
  BY <1>1, <1>2, WriteChanges
<1>5. chip' = ProgramExecute(chip, p)
  BY DEF Exec
<1> HIDE DEF o
<1>6. chip'.cells = [chip.cells EXCEPT ![p] = o]
  BY <1>2, <1>3, <1>4, <1>5, Programmed
<1>7. \A c \in Cells : CellOf(c)' = IF c[1] = p THEN o[c[2]] ELSE CellOf(c)
  <2>1. TAKE c \in Cells
  <2>2. c[1] \in PageNumbers
    BY DEF Cells
  <2>3. chip.cells \in [PageNumbers -> PageType]
    BY <1>2 DEF ChipType
  <2>4. QED
    BY <1>6, <2>2, <2>3 DEF CellOf
<1>8. QED
  BY <1>2, <1>7 DEF o

(* The cells of the piece become the part of the text. *)
LEMMA WriteFollows ==
  ASSUME IInv, SInv, NEW u \in party, Exec(u), req[u].op = "write"
  PROVE  SInv' /\ StoreNext
<1> DEFINE r == req[u]
           p == piece.page
           off == piece.off
           d == Len(piece.data)
           s == chip.cells[p]
           o == Overlaid(s)
           q == PutOf(r)
<1>1. at[u] = "exec" /\ at[u] \in Inside \ {"next", "leave"}
  BY DEF Exec, Inside
<1>2. Types /\ u \in AllUsers /\ r \in Calls /\ r # Idle /\ Follows(u)
  BY <1>1, HolderHas DEF SInv
<1>3. /\ left[u] \in Nat /\ left[u] > 0 /\ left[u] <= r.len /\ r.len \in Nat /\ r.addr \in Nat
      /\ Pos(u) \in Nat /\ Pos(u) = r.addr + r.len - left[u]
      /\ p = Pos(u) \div PageSize /\ off = Pos(u) % PageSize /\ off \in 0 .. PageSize - 1
      /\ d \in Nat /\ d > 0 /\ d <= left[u] /\ off + d <= PageSize
      /\ d = WriteLen(off, left[u]) /\ piece.oob = Blank
  BY <1>1, DataLen
<1>4. PICK P \in Nat : P = r.len - left[u]
  BY <1>3
<1>5. PICK pos \in Nat : pos = Pos(u) /\ pos = r.addr + P
  BY <1>3, <1>4
<1>6. /\ s \in PageType /\ p \in PageNumbers
      /\ \A c \in Cells : CellOf(c)' = IF c[1] = p THEN o[c[2]] ELSE CellOf(c)
  BY ExecCells
<1>7. q = [k \in 1 .. r.len |-> <<CellAt(r.addr + k - 1), Text[k]>>]
  BY <1>2, PutIs
<1>8. Len(Text) \in Nat /\ r.len <= Len(Text) /\ Text \in Seq(Range(Text))
  BY <1>2, CallFacts, TextFacts
<1>9. piece.data = SubSeq(Text, P + 1, P + d)
  BY <1>1, <1>2, <1>3, <1>4 DEF Follows, Given
<1> HIDE DEF d, q, o, s
<1>sizes. off \in Nat /\ d \in Nat /\ d > 0 /\ off + d <= PageSize
         /\ P + d <= r.len /\ r.len \in Nat /\ r.addr \in Nat
  BY <1>3, <1>4
<1>10. \A k \in 1 .. d : piece.data[k] = Text[P + k]
  <2>1. TAKE k \in 1 .. d
  <2>2. P + d <= Len(Text)
    BY <1>8, <1>sizes
  <2>3. SubSeq(Text, P + 1, P + d)[k] = Text[P + k]
    BY <1>8, <1>sizes, <2>2
  <2>4. QED
    BY <1>9, <2>3
<1>11. Len(q) = r.len /\ P + d <= Len(q)
  BY <1>7, <1>sizes
<1> HIDE DEF off
<1>12. \A k \in 1 .. d : CellAt(r.addr + (P + k) - 1) = <<p, off + k>>
  <2>1. TAKE k \in 1 .. d
  <2>2. k - 1 \in Nat /\ (pos % PageSize) + (k - 1) < PageSize
    <3>1. PageSize \in Nat /\ off = pos % PageSize
      BY <1>3, <1>5, SizeFacts
    <3>2. k - 1 \in Nat /\ off + (k - 1) < PageSize
      BY <1>sizes, <3>1
    <3>3. QED
      BY <3>1, <3>2
  <2>3. CellAt(pos + (k - 1)) = <<pos \div PageSize, (pos % PageSize) + (k - 1) + 1>>
    BY <1>5, <2>2, CellIs
  <2>4. (pos % PageSize) + (k - 1) + 1 = off + k /\ pos + (k - 1) = r.addr + (P + k) - 1
    BY <1>3, <1>5
  <2>5. QED
    BY <1>3, <1>5, <2>3, <2>4
<1>13. \A k \in Columns :
         /\ k = Spare => o[k] = s[k]
         /\ k # Spare /\ k - off \in 1 .. d => o[k] = piece.data[k - off]
         /\ k # Spare /\ k - off \notin 1 .. d => o[k] = s[k]
  BY <1>2, <1>3, <1>6, OverlaidIs, AndFacts DEF o, d, off
<1>14. \A j \in P + 1 .. P + d : \E k \in 1 .. d : j = P + k
  <2>1. TAKE j \in P + 1 .. P + d
  <2>2. j - P \in 1 .. d /\ j = P + (j - P)
    BY <1>3
  <2>3. QED
    BY <2>2
<1>15. ASSUME NEW c \in Cells, NEW j \in P + 1 .. P + d, q[j][1] = c
       PROVE  CellOf(c)' = q[j][2]
  <2>1. PICK k \in 1 .. d : j = P + k
    BY <1>14
  <2>2. q[j] = <<CellAt(r.addr + j - 1), Text[j]>>
    <3>1. j \in 1 .. r.len
      BY <1>sizes
    <3>2. QED
      BY <1>7, <3>1
  <2>3. c = <<p, off + k>>
    BY <1>12, <1>15, <2>1, <2>2
  <2>4. PICK m \in Columns : m = off + k /\ m # Spare /\ m - off = k
    <3>1. off + k \in Columns /\ off + k # Spare /\ (off + k) - off = k
      BY <1>sizes, SizeFacts
    <3>2. QED
      BY <3>1
  <2>5. o[m] = Text[P + k]
    BY <1>10, <1>13, <2>4
  <2>6. CellOf(c)' = o[m]
    BY <1>6, <2>3, <2>4
  <2>7. QED
    BY <2>1, <2>2, <2>5, <2>6
<1>16. ASSUME NEW c \in Cells, \A j \in P + 1 .. P + d : q[j][1] # c
       PROVE  CellOf(c)' = CellOf(c)
  <2>1. c[2] \in Columns /\ c = <<c[1], c[2]>>
    BY DEF Cells
  <2>2. CASE c[1] = p /\ c[2] - off \in 1 .. d
    <3>1. PICK k \in 1 .. d : k = c[2] - off
      BY <2>2
    <3>2. c = <<p, off + k>>
      <4>1. c[2] \in Int /\ off \in Int
        BY <1>sizes, <2>1, SizeFacts
      <4>2. c[2] = off + k
        BY <3>1, <4>1
      <4>3. QED
        BY <2>1, <2>2, <4>2
    <3>3. P + k \in P + 1 .. P + d /\ P + k \in 1 .. r.len
      BY <1>sizes
    <3>4. q[P + k][1] = CellAt(r.addr + (P + k) - 1)
      BY <1>7, <3>3
    <3>5. QED
      BY <1>12, <1>16, <3>2, <3>3, <3>4
  <2>3. CASE c[1] = p /\ c[2] - off \notin 1 .. d
    <3>1. o[c[2]] = s[c[2]]
      BY <1>13, <2>1, <2>3
    <3>2. QED
      BY <1>6, <2>3, <3>1 DEF CellOf, s
  <2>4. CASE c[1] # p
    BY <1>6, <2>4
  <2>5. QED
    BY <2>2, <2>3, <2>4
<1>17. /\ at' = [at EXCEPT ![u] = "wait"] /\ Place(u, d)
       /\ party' = party /\ req' = req /\ left' = left /\ piece' = piece /\ got' = got
       /\ state' = state /\ cache' = cache /\ lock' = lock /\ answer' = answer
  BY DEF Exec, Same, Goto, d
<1>18. P = Placed(u) /\ Placed(u)' = P + d
  <2>1. Placed(u) = r.len - left[u] + 0
    BY <1>1, PlacedIs DEF Placed
  <2>2. at'[u] = "wait"
    BY <1>2, <1>17 DEF Types
  <2>3. Placed(u)' = r.len - left[u] + d
    BY <1>17, <2>2, PlacedIs DEF Placed, d
  <2>4. QED
    BY <1>3, <1>4, <2>1, <2>3
<1>19. /\ \A c \in Cells : \A j \in P + 1 .. P + d :
            PutOf(req[u])[j][1] = c => CellOf(c)' = PutOf(req[u])[j][2]
       /\ \A c \in Cells : (\A j \in P + 1 .. P + d : PutOf(req[u])[j][1] # c)
            => CellOf(c)' = CellOf(c)
  <2>1. PutOf(req[u]) = q
    BY DEF q
  <2>2. QED
    BY <1>15, <1>16, <2>1
<1>20. P + d <= Len(PutOf(req[u]))
  BY <1>11 DEF q
<1>21. QED
  BY <1>1, <1>3, <1>17, <1>18, <1>19, <1>20, PutFollows, ZenonT(60)

(* The cells of the page, or its spare cell, become the text. *)
LEMMA PageFollows ==
  ASSUME IInv, SInv, NEW u \in party, Exec(u), req[u].op \in {"mtdwrite", "mtdwriteoob"}
  PROVE  SInv' /\ StoreNext
<1> DEFINE r == req[u]
           p == piece.page
           s == chip.cells[p]
           o == Overlaid(s)
           q == PutOf(r)
           n == IF r.op = "mtdwrite" THEN PageSize + 1 ELSE 1
<1>1. at[u] = "exec" /\ at[u] \in Inside \ {"next", "leave"} /\ at[u] \in {"enter"} \cup Inside
  BY DEF Exec, Inside
<1>2. Types /\ u \in AllUsers /\ r \in Calls /\ r # Idle /\ Follows(u) /\ PieceIs(u) /\ OwedBlank(u)
  BY <1>1, HolderHas DEF SInv
<1>3. /\ s \in PageType /\ p \in PageNumbers
      /\ \A c \in Cells : CellOf(c)' = IF c[1] = p THEN o[c[2]] ELSE CellOf(c)
  BY ExecCells
<1>4. p = r.addr \div PageSize
  BY <1>1, <1>2 DEF PieceIs, Row
<1>5. /\ r.op = "mtdwrite" =>
           piece.off = 0 /\ piece.data = SubSeq(Text, 1, PageSize) /\ piece.oob = Text[Spare]
      /\ r.op = "mtdwriteoob" => piece.data = <<>> /\ piece.oob = Text[1]
  BY <1>1, <1>2 DEF Follows, Given
<1>6. s[Spare] = Blank
  <2>1. <<p, Spare>> \in Owed(u)
    <3>1. Owed(u) = OwedOf(r, "exec", left[u], Len(piece.data))
      BY <1>1 DEF Owed
    <3>2. CASE r.op = "mtdwrite"
      BY <1>4, <3>1, <3>2, OwedIs, SizeFacts
    <3>3. CASE r.op = "mtdwriteoob"
      BY <1>4, <3>1, <3>3, OwedIs
    <3>4. QED
      BY <3>2, <3>3
  <2>2. QED
    BY <1>2, <2>1 DEF OwedBlank
<1>7. /\ r.op = "mtdwrite" => q = [k \in Columns |-> <<<<p, k>>, Text[k]>>]
      /\ r.op = "mtdwriteoob" => q = <<<<<<p, Spare>>, Text[1]>>>>
  BY <1>2, <1>4, PutIs
<1>8. Len(Text) \in Nat /\ PageSize < Len(Text) /\ Text \in Seq(Range(Text)) /\ PageSize \in Nat \ {0}
  BY TextFacts, SizeFacts
<1> HIDE DEF o, s, q
<1>9. \A k \in Columns :
        o[k] = IF r.op = "mtdwrite" THEN Text[k] ELSE IF k = Spare THEN Text[1] ELSE s[k]
  <2>1. TAKE k \in Columns
  <2>2. CASE k = Spare
    <3>1. o[k] = And(Blank, piece.oob)
      BY <1>2, <1>3, <1>6, <2>2, OverlaidIs DEF o
    <3>2. o[k] = piece.oob
      BY <3>1, AndFacts
    <3>3. QED
      BY <1>5, <2>2, <3>2
  <2>3. CASE k # Spare /\ r.op = "mtdwrite"
    <3>1. k \in 1 .. PageSize
      BY <2>3, SizeFacts
    <3>2. Len(piece.data) = PageSize /\ piece.data[k] = Text[k]
      BY <1>5, <1>8, <2>3, <3>1
    <3>3. k - piece.off \in 1 .. Len(piece.data) /\ k - piece.off = k
      BY <1>5, <2>3, <3>1, <3>2
    <3>4. o[k] = piece.data[k - piece.off]
      BY <1>2, <1>3, <2>3, <3>3, OverlaidIs DEF o
    <3>5. QED
      BY <2>3, <3>2, <3>3, <3>4
  <2>4. CASE k # Spare /\ r.op # "mtdwrite"
    <3>1. k - piece.off \notin 1 .. Len(piece.data)
      BY <1>5, <2>4
    <3>2. o[k] = s[k]
      BY <1>2, <1>3, <2>4, <3>1, OverlaidIs DEF o
    <3>3. QED
      BY <2>4, <3>2
  <2>5. QED
    BY <2>2, <2>3, <2>4
<1>10. n \in Nat /\ n > 0 /\ Len(q) = n
  <2>1. CASE r.op = "mtdwrite"
    BY <1>7, <1>8, <2>1, SizeFacts
  <2>2. CASE r.op # "mtdwrite"
    BY <1>7, <2>2
  <2>3. QED
    BY <2>1, <2>2
<1> HIDE DEF n
<1>11. \A j \in 1 .. n : \E k \in Columns : q[j] = <<<<p, k>>, o[k]>>
  <2>1. TAKE j \in 1 .. n
  <2>2. CASE r.op = "mtdwrite"
    <3>1. j \in Columns
      BY <2>2, SizeFacts DEF n
    <3>2. QED
      BY <1>7, <1>9, <2>2, <3>1
  <2>3. CASE r.op = "mtdwriteoob"
    <3>1. j = 1
      BY <2>3 DEF n
    <3>2. q[1] = <<<<p, Spare>>, Text[1]>>
      BY <1>7, <2>3
    <3>3. QED
      BY <1>9, <2>3, <3>1, <3>2, SizeFacts
  <2>4. QED
    BY <2>2, <2>3
<1>12. \A k \in Columns : (\E j \in 1 .. n : q[j][1] = <<p, k>>) \/ o[k] = s[k]
  <2>1. TAKE k \in Columns
  <2>2. CASE r.op = "mtdwrite"
    <3>1. k \in 1 .. n /\ q[k][1] = <<p, k>>
      BY <1>7, <2>2, SizeFacts DEF n
    <3>2. QED
      BY <3>1
  <2>3. CASE r.op = "mtdwriteoob" /\ k = Spare
    <3>1. 1 \in 1 .. n /\ q[1][1] = <<p, k>>
      BY <1>7, <1>10, <2>3
    <3>2. QED
      BY <3>1
  <2>4. CASE r.op = "mtdwriteoob" /\ k # Spare
    BY <1>9, <2>4
  <2>5. QED
    BY <2>2, <2>3, <2>4
<1>13. ASSUME NEW c \in Cells, NEW j \in 1 .. n, q[j][1] = c
       PROVE  CellOf(c)' = q[j][2]
  <2>1. PICK k \in Columns : q[j] = <<<<p, k>>, o[k]>>
    BY <1>11
  <2>2. c = <<p, k>> /\ q[j][2] = o[k]
    BY <1>13, <2>1
  <2>3. QED
    BY <1>3, <2>2
<1>14. ASSUME NEW c \in Cells, \A j \in 1 .. n : q[j][1] # c
       PROVE  CellOf(c)' = CellOf(c)
  <2>1. c[2] \in Columns /\ c = <<c[1], c[2]>>
    BY DEF Cells
  <2>2. CASE c[1] = p
    <3>1. o[c[2]] = s[c[2]]
      BY <1>12, <1>14, <2>1, <2>2
    <3>2. QED
      BY <1>3, <2>2, <3>1 DEF CellOf, s
  <2>3. CASE c[1] # p
    BY <1>3, <2>3
  <2>4. QED
    BY <2>2, <2>3
<1>15. /\ at' = [at EXCEPT ![u] = "wait"]
       /\ party' = party /\ req' = req /\ left' = left /\ piece' = piece /\ got' = got
       /\ state' = state /\ cache' = cache /\ lock' = lock /\ answer' = answer
  BY DEF Exec, Same, Goto
<1>16. Place(u, n)
  BY DEF Exec, n
<1>17. PICK P \in Nat : P = 0
  OBVIOUS
<1>18. P = Placed(u) /\ Placed(u)' = P + n
  <2>1. Placed(u) = 0
    BY <1>1, PlacedIs DEF Placed, Ended
  <2>2. at'[u] = "wait"
    BY <1>2, <1>15 DEF Types
  <2>3. Placed(u)' = n
    BY <1>15, <2>2, PlacedIs DEF Placed, n
  <2>4. QED
    BY <1>10, <1>17, <2>1, <2>3
<1>19. P + 1 = 1 /\ P + n = n
  BY <1>10, <1>17
<1>20. /\ \A c \in Cells : \A j \in P + 1 .. P + n :
            PutOf(req[u])[j][1] = c => CellOf(c)' = PutOf(req[u])[j][2]
       /\ \A c \in Cells : (\A j \in P + 1 .. P + n : PutOf(req[u])[j][1] # c)
            => CellOf(c)' = CellOf(c)
  BY <1>13, <1>14, <1>19 DEF q
<1>21. P + n <= Len(PutOf(req[u]))
  BY <1>10, <1>17 DEF q
<1>22. QED
  BY <1>1, <1>10, <1>15, <1>16, <1>18, <1>20, <1>21, PutFollows, Zenon

LEMMA ExecFollows ==
  ASSUME IInv, SInv, NEW u \in party, Exec(u)
  PROVE  SInv' /\ StoreNext
<1>1. at[u] = "exec" /\ at[u] \in Inside
  BY DEF Exec, Inside
<1>2. Programs(req[u].op)
  BY <1>1, HolderHas DEF Control
<1>3. QED
  BY <1>2, WriteFollows, PageFollows DEF Programs

(* The cells of a block, page by page. *)
Rowwise(m, w, h, n, P) ==
  /\ \A i \in 0 .. n - 1 : \E y \in 0 .. m - 1, x \in 0 .. w - 1 :
       (P + i) \div w = h + y /\ (P + i) % w = x
  /\ \A y \in 0 .. m - 1, x \in 0 .. w - 1 : \E i \in 0 .. n - 1 :
       (P + i) \div w = h + y /\ (P + i) % w = x

LEMMA RowsOfBlock ==
  ASSUME NEW m \in Nat \ {0}, NEW w \in Nat \ {0}, NEW h \in Nat,
         NEW n \in Nat, n = m * w, NEW P \in Nat, P = w * h
  PROVE  Rowwise(m, w, h, n, P)
<1>1. n \in Nat /\ P = w * h /\ n = m * w
  OBVIOUS
<1>2. ASSUME NEW y \in Nat, NEW x \in 0 .. w - 1, NEW i \in Nat, i = w * y + x
      PROVE  (P + i) \div w = h + y /\ (P + i) % w = x
  <2>1. PICK a \in Nat : a = P + i
    BY <1>1
  <2>2. PICK g \in Nat : g = h + y
    OBVIOUS
  <2>3. w * g = w * h + w * y /\ w * y \in Nat
    BY <2>2
  <2>4. a = w * g + x
    BY <1>1, <1>2, <2>1, <2>3
  <2>5. a \div w = g /\ a % w = x
    BY <2>4, DivIs
  <2>6. QED
    BY <2>1, <2>2, <2>5
<1>3. \A i \in 0 .. n - 1 : \E y \in 0 .. m - 1, x \in 0 .. w - 1 :
        (P + i) \div w = h + y /\ (P + i) % w = x
  <2>1. TAKE i \in 0 .. n - 1
  <2>2. i \in Nat /\ i < n
    BY <1>1
  <2>3. PICK y \in Nat : y = i \div w
    BY <2>2, DivMod, Zenon
  <2>4. PICK x \in 0 .. w - 1 : x = i % w
    BY <2>2, DivMod, Zenon
  <2>5. i = w * y + x
    BY <2>2, <2>3, <2>4, DivMod, Zenon
  <2>6. y < m
    <3>1. SUFFICES ASSUME y >= m PROVE FALSE
      OBVIOUS
    <3>2. PICK g \in Nat : y = m + g
      <4>1. y - m \in Nat /\ y = m + (y - m)
        BY <3>1
      <4>2. QED
        BY <4>1
    <3>3. w * y = m * w + w * g /\ w * g \in Nat
      BY <3>2
    <3>4. QED
      BY <1>1, <2>2, <2>4, <2>5, <3>3
  <2>7. (P + i) \div w = h + y /\ (P + i) % w = x
    BY <1>2, <2>2, <2>5
  <2>8. y \in 0 .. m - 1
    BY <2>6
  <2>9. QED
    BY <2>7, <2>8
<1>4. \A y \in 0 .. m - 1, x \in 0 .. w - 1 : \E i \in 0 .. n - 1 :
        (P + i) \div w = h + y /\ (P + i) % w = x
  <2>1. TAKE y \in 0 .. m - 1, x \in 0 .. w - 1
  <2>2. y \in Nat
    OBVIOUS
  <2>3. PICK i \in Nat : i = w * y + x
    BY <2>2
  <2>4. i < n
    <3>1. PICK g \in Nat : m = y + 1 + g
      <4>1. m - y - 1 \in Nat /\ m = y + 1 + (m - y - 1)
        OBVIOUS
      <4>2. QED
        BY <4>1
    <3>2. m * w = w * y + w + w * g /\ w * g \in Nat /\ w * y \in Nat
      BY <2>2, <3>1
    <3>3. QED
      BY <1>1, <2>3, <3>2
  <2>5. (P + i) \div w = h + y /\ (P + i) % w = x
    BY <1>2, <2>2, <2>3
  <2>6. i \in 0 .. n - 1
    BY <1>1, <2>4
  <2>7. QED
    BY <2>5, <2>6
<1>5. QED
  BY <1>3, <1>4 DEF Rowwise

(* The block whose turn it is. *)
LEMMA EraseWhere ==
  ASSUME IInv, SInv, NEW u \in party, at[u] = "erase"
  PROVE  /\ Erases(req[u].op) /\ ~Unaligned(req[u])
         /\ \E a \in Nat, i \in Nat :
              /\ req[u].addr \div PageSize = PagesPerBlock * a
              /\ BlockOf(piece.page) = a + i
              /\ i < Blocks(req[u])
              /\ Placed(u) = i * BlockCells
              /\ \A d : PlacedOf(req[u], "wait", left[u], d) = (i + 1) * BlockCells
<1> DEFINE r == req[u]
           n == left[u]
<1>1. at[u] \in Inside \ {"next", "leave"} /\ at[u] \in Laying
      /\ at[u] \notin {"wait", "wrdi"} \cup Ended
  BY DEF Inside, Laying, Ended
<1>2. /\ Types /\ u \in AllUsers /\ r \in Calls /\ r # Idle
      /\ Control(u) /\ Progress(u) /\ n \in Nat /\ Follows(u)
  BY <1>1, HolderHas DEF SInv
<1>3. Erases(r.op) /\ ~Unaligned(r)
  BY <1>1, <1>2 DEF Control
<1>4. ~ByPage(r.op)
  BY <1>2, <1>3, OpFacts
<1>5. r.addr \in Nat /\ r.len \in Nat /\ n > 0 /\ n <= r.len
  BY <1>1, <1>2, <1>4, CallFacts DEF Progress
<1>6. (r.len - n) % BlockLen = 0 /\ piece.page = Pos(u) \div PageSize
  BY <1>1, <1>2, <1>3, <1>5 DEF Follows, Whole
<1>7. PICK len \in Nat : len = r.len
  BY <1>5
<1>8. PICK k \in Nat : k = n
  BY <1>2
<1>9. PICK i \in Nat : /\ len - k = BlockLen * i
                       /\ (len - k + BlockLen - 1) \div BlockLen = i
                       /\ i < (len + BlockLen - 1) \div BlockLen
  <2>1. k > 0 /\ k <= len /\ (len - k) % BlockLen = 0
    BY <1>5, <1>6, <1>7, <1>8
  <2>2. QED
    BY <2>1, BlocksBehind
<1>10. i < Blocks(r)
  BY <1>7, <1>9 DEF Blocks
<1>11. PICK z \in Nat \ {0} : z = BlockLen
  BY SizeFacts
<1>12. PICK ps \in Nat \ {0} : ps = PageSize
  BY SizeFacts
<1>13. PICK m \in Nat \ {0} : m = PagesPerBlock
  BY SizeFacts
<1>14. z = m * ps
  BY <1>11, <1>12, <1>13 DEF BlockLen
<1>15. PICK addr \in Nat : addr = r.addr
  BY <1>5
<1>16. PICK a \in Nat : addr = z * a
  <2>1. addr % z = 0
    BY <1>3, <1>11, <1>15 DEF Unaligned
  <2>2. PICK g \in Nat : g = addr \div z
    BY DivMod, Zenon
  <2>3. addr = z * g + (addr % z)
    BY <2>2, DivMod, Zenon
  <2>4. addr = z * g + 0
    BY <2>1, <2>3, Zenon
  <2>5. z * g + 0 = z * g
    OBVIOUS
  <2>6. QED
    BY <2>4, <2>5, Zenon
<1>17. \A e \in Nat : (z * e) \div ps = m * e /\ z * e \in Nat
  <2>1. TAKE e \in Nat
  <2>2. PICK g \in Nat : g = m * e
    OBVIOUS
  <2>3. PICK b \in Nat : b = z * e
    OBVIOUS
  <2>4. b = ps * g
    BY <1>14, <2>2, <2>3
  <2>5. PICK x \in 0 .. ps - 1 : x = 0
    OBVIOUS
  <2>6. b = ps * g + x
    BY <2>4, <2>5
  <2>7. b \div ps = g
    BY <2>6, DivIs
  <2>8. QED
    BY <2>2, <2>3, <2>7
<1>18. r.addr \div PageSize = PagesPerBlock * a
  BY <1>12, <1>13, <1>15, <1>16, <1>17
<1>19. Pos(u) = z * (a + i)
  <2>1. Pos(u) = addr + (len - k)
    BY <1>5, <1>7, <1>8, <1>15 DEF Pos
  <2>2. z * (a + i) = z * a + z * i
    OBVIOUS
  <2>3. QED
    BY <1>9, <1>11, <1>16, <2>1, <2>2
<1>20. PICK g \in Nat : g = a + i
  OBVIOUS
<1>21. piece.page = m * g
  BY <1>6, <1>12, <1>17, <1>19, <1>20
<1>22. BlockOf(piece.page) = g
  <2>1. PICK b \in Nat : b = m * g
    OBVIOUS
  <2>2. PICK x \in 0 .. m - 1 : x = 0
    OBVIOUS
  <2>3. b = m * g + x
    BY <2>1, <2>2
  <2>4. b \div m = g
    BY <2>3, DivIs
  <2>5. QED
    BY <1>13, <1>21, <2>1, <2>4 DEF BlockOf
<1>23. Placed(u) = i * BlockCells
  <2>1. Placed(u) = ((len - k + BlockLen - 1) \div BlockLen + 0) * BlockCells
    BY <1>1, <1>3, <1>7, <1>8, PlacedIs DEF Placed
  <2>2. i + 0 = i
    OBVIOUS
  <2>3. QED
    BY <1>9, <2>1, <2>2, Zenon
<1>24. \A d : PlacedOf(r, "wait", n, d) = (i + 1) * BlockCells
  <2>1. TAKE d
  <2>2. PlacedOf(r, "wait", n, d) = ((len - k + BlockLen - 1) \div BlockLen + 1) * BlockCells
    BY <1>3, <1>7, <1>8, PlacedIs
  <2>3. QED
    BY <1>9, <2>2, Zenon
<1>25. QED
  BY <1>3, <1>10, <1>18, <1>20, <1>22, <1>23, <1>24

LEMMA EraseBlockFollows ==
  ASSUME IInv, SInv, NEW u \in party, EraseBlock(u)
  PROVE  SInv' /\ StoreNext
<1> DEFINE r == req[u]
           q == PutOf(r)
<1>1. at[u] = "erase" /\ at[u] \in Inside
  BY DEF EraseBlock, Inside
<1>2. /\ Types /\ u \in AllUsers /\ r \in Calls /\ r # Idle /\ Held(u) /\ ~chip.locked
      /\ chip \in ChipType
  BY <1>1, HolderHas DEF Types
<1>3. Erases(r.op) /\ ~Unaligned(r)
  BY <1>1, EraseWhere
<1>4. PICK a \in Nat, i \in Nat :
        /\ r.addr \div PageSize = PagesPerBlock * a
        /\ BlockOf(piece.page) = a + i
        /\ i < Blocks(r)
        /\ Placed(u) = i * BlockCells
        /\ \A d : PlacedOf(r, "wait", left[u], d) = (i + 1) * BlockCells
  BY <1>1, EraseWhere
<1>5. PICK m \in Nat \ {0} : m = PagesPerBlock
  BY SizeFacts
<1>6. PICK w \in Nat \ {0} : w = PageSize + 1
  BY SizeFacts
<1>7. PICK h \in Nat : h = m * i
  OBVIOUS
<1>8. PICK n \in Nat \ {0} : n = m * w /\ n = BlockCells
  <2>1. m * w \in Nat \ {0} /\ m * w = BlockCells
    BY <1>5, <1>6 DEF BlockCells
  <2>2. QED
    BY <2>1
<1>9. PICK P \in Nat : P = i * n /\ P = w * h
  <2>1. i * n \in Nat /\ i * n = w * h
    BY <1>7, <1>8
  <2>2. QED
    BY <2>1
<1>10. PICK N \in Nat : N = Blocks(r) * PagesPerBlock * (PageSize + 1) /\ P + n <= N
  <2>1. PICK B \in Nat : B = Blocks(r) /\ i < B
    <3>1. r.len \in Nat
      BY <1>2, CallFacts
    <3>2. PICK e \in Nat : e = r.len + BlockLen - 1
      BY <3>1, SizeFacts
    <3>3. e \div BlockLen \in Nat
      BY SizeFacts, DivMod
    <3>4. QED
      BY <1>4, <3>2, <3>3 DEF Blocks
  <2>2. PICK g \in Nat : B = i + 1 + g
    <3>1. B - i - 1 \in Nat /\ B = i + 1 + (B - i - 1)
      BY <2>1
    <3>2. QED
      BY <3>1
  <2>3. B * n = i * n + n + g * n /\ g * n \in Nat /\ B * n \in Nat
    BY <2>2
  <2>4. P + n <= B * n
    <3>1. PICK x \in Nat : x = g * n
      BY <2>3
    <3>2. B * n = P + n + x
      BY <1>9, <2>3, <3>1
    <3>3. QED
      BY <3>2
  <2>5. B * n = Blocks(r) * PagesPerBlock * (PageSize + 1)
    BY <1>5, <1>6, <1>8, <2>1
  <2>6. QED
    BY <2>3, <2>4, <2>5
<1>11. q = [k \in 1 .. N |->
         <<<<PagesPerBlock * a + ((k - 1) \div (PageSize + 1)),
             ((k - 1) % (PageSize + 1)) + 1>>, Blank>>]
  BY <1>2, <1>3, <1>4, <1>10, PutIs, ZenonT(60)
<1>12. q = [k \in 1 .. N |-> <<<<m * a + ((k - 1) \div w), ((k - 1) % w) + 1>>, Blank>>]
  BY <1>5, <1>6, <1>11
<1> HIDE DEF q
<1>13. Len(q) = N
  BY <1>12
<1>14. \A pg \in Nat : BlockOf(pg) = a + i <=> \E y \in 0 .. m - 1 : pg = m * a + (h + y)
  <2>1. TAKE pg \in Nat
  <2>2. PICK b \in Nat : b = a + i
    OBVIOUS
  <2>3. m * b = m * a + h /\ m * a \in Nat
    BY <1>7, <2>2
  <2>4. ASSUME BlockOf(pg) = b PROVE \E y \in 0 .. m - 1 : pg = m * a + (h + y)
    <3>1. PICK y \in 0 .. m - 1 : y = pg % m
      BY DivMod, Zenon
    <3>2. pg = m * (pg \div m) + (pg % m) /\ pg \div m = b
      BY <1>5, <2>4, DivMod, Zenon DEF BlockOf
    <3>3. pg = m * b + y
      BY <3>1, <3>2, Zenon
    <3>4. PICK x \in Nat : x = m * a
      BY <2>3
    <3>5. pg = x + (h + y)
      BY <2>3, <3>3, <3>4
    <3>6. QED
      BY <3>4, <3>5
  <2>5. ASSUME NEW y \in 0 .. m - 1, pg = m * a + (h + y) PROVE BlockOf(pg) = b
    <3>1. PICK x \in Nat : x = m * a
      BY <2>3
    <3>2. pg = m * b + y
      BY <2>3, <2>5, <3>1
    <3>3. pg \div m = b
      BY <3>2, DivIs
    <3>4. QED
      BY <1>5, <3>3 DEF BlockOf
  <2>6. QED
    BY <2>2, <2>4, <2>5
<1>15. /\ \A x \in 0 .. n - 1 : \E y \in 0 .. m - 1, k \in 0 .. w - 1 :
            (P + x) \div w = h + y /\ (P + x) % w = k
       /\ \A y \in 0 .. m - 1, k \in 0 .. w - 1 : \E x \in 0 .. n - 1 :
            (P + x) \div w = h + y /\ (P + x) % w = k
  <2>1. n \in Nat /\ n = m * w /\ P = w * h
    BY <1>8, <1>9
  <2>2. QED
    <3>1. Rowwise(m, w, h, n, P)
      BY <2>1, RowsOfBlock, Zenon
    <3>2. QED
      BY <3>1 DEF Rowwise
<1>16. \A j \in P + 1 .. P + n : \E x \in 0 .. n - 1 : j - 1 = P + x /\ j \in 1 .. N
  <2>1. TAKE j \in P + 1 .. P + n
  <2>2. j - 1 - P \in 0 .. n - 1 /\ j - 1 = P + (j - 1 - P) /\ j \in 1 .. N
    BY <1>10
  <2>3. QED
    BY <2>2
<1>17. \A c \in Cells : CellOf(c)' = IF BlockOf(c[1]) = a + i THEN Blank ELSE CellOf(c)
  <2>1. Takes(chip)
    BY <1>1, <1>2 DEF Held, Steady, Takes, OIP
  <2>2. chip'.cells = [pg \in PageNumbers |->
                         IF BlockOf(pg) = a + i THEN BlankPage ELSE chip.cells[pg]]
    BY <1>2, <1>4, <2>1, Erased DEF EraseBlock
  <2>3. TAKE c \in Cells
  <2>4. c[1] \in PageNumbers /\ c[2] \in Columns
    BY DEF Cells
  <2>5. QED
    BY <2>2, <2>4 DEF CellOf, BlankPage
<1>18. ASSUME NEW c \in Cells, NEW j \in P + 1 .. P + n, q[j][1] = c
       PROVE  CellOf(c)' = q[j][2]
  <2>1. PICK x \in 0 .. n - 1 : j - 1 = P + x /\ j \in 1 .. N
    BY <1>16
  <2>2. q[j] = <<<<m * a + ((j - 1) \div w), ((j - 1) % w) + 1>>, Blank>>
    BY <1>12, <2>1
  <2>3. PICK y \in 0 .. m - 1 : (j - 1) \div w = h + y
    BY <1>15, <2>1
  <2>4. c[1] = m * a + (h + y) /\ q[j][2] = Blank
    BY <1>18, <2>2, <2>3
  <2>5. c[1] \in Nat
    BY DEF Cells, PageNumbers
  <2>6. BlockOf(c[1]) = a + i
    BY <1>14, <2>4, <2>5, Zenon
  <2>7. QED
    BY <1>17, <2>4, <2>6
<1>19. ASSUME NEW c \in Cells, \A j \in P + 1 .. P + n : q[j][1] # c
       PROVE  CellOf(c)' = CellOf(c)
  <2>1. SUFFICES ASSUME BlockOf(c[1]) = a + i PROVE FALSE
    BY <1>17
  <2>2. c[1] \in Nat /\ c[2] \in 1 .. w /\ c = <<c[1], c[2]>>
    BY <1>6, SizeFacts DEF Cells, PageNumbers
  <2>3. PICK y \in 0 .. m - 1 : c[1] = m * a + (h + y)
    BY <1>14, <2>1, <2>2, Zenon
  <2>4. PICK k \in 0 .. w - 1 : c[2] = k + 1
    <3>1. c[2] - 1 \in 0 .. w - 1 /\ c[2] = (c[2] - 1) + 1
      BY <2>2
    <3>2. QED
      BY <3>1
  <2>5. PICK x \in 0 .. n - 1 : (P + x) \div w = h + y /\ (P + x) % w = k
    BY <1>15
  <2>6. PICK j \in P + 1 .. P + n : j = P + x + 1 /\ j - 1 = P + x /\ j \in 1 .. N
    <3>1. P + x + 1 \in P + 1 .. P + n /\ (P + x + 1) - 1 = P + x /\ P + x + 1 \in 1 .. N
      BY <1>10
    <3>2. QED
      BY <3>1
  <2>7. q[j] = <<<<m * a + ((j - 1) \div w), ((j - 1) % w) + 1>>, Blank>>
    BY <1>12, <2>6
  <2>8. (j - 1) \div w = h + y /\ (j - 1) % w = k
    BY <2>5, <2>6
  <2>9. q[j][1] = <<c[1], c[2]>>
    BY <2>3, <2>4, <2>7, <2>8
  <2>10. QED
    BY <1>19, <2>2, <2>9
<1>20. /\ at' = [at EXCEPT ![u] = "wait"]
       /\ party' = party /\ req' = req /\ left' = left /\ piece' = piece /\ got' = got
       /\ state' = state /\ cache' = cache /\ lock' = lock /\ answer' = answer
  BY DEF EraseBlock, Same, Goto
<1>21. Place(u, n)
  BY <1>8 DEF EraseBlock, BlockCells
<1>22. P = Placed(u) /\ Placed(u)' = P + n
  <2>1. at'[u] = "wait"
    BY <1>2, <1>20 DEF Types
  <2>2. Placed(u)' = (i + 1) * n
    BY <1>4, <1>8, <1>20, <2>1 DEF Placed
  <2>3. (i + 1) * n = i * n + n
    OBVIOUS
  <2>4. QED
    BY <1>4, <1>8, <1>9, <2>2, <2>3
<1>23. /\ \A c \in Cells : \A j \in P + 1 .. P + n :
            PutOf(req[u])[j][1] = c => CellOf(c)' = PutOf(req[u])[j][2]
       /\ \A c \in Cells : (\A j \in P + 1 .. P + n : PutOf(req[u])[j][1] # c)
            => CellOf(c)' = CellOf(c)
  BY <1>18, <1>19 DEF q
<1>24. P + n <= Len(PutOf(req[u]))
  BY <1>10, <1>13 DEF q
<1>25. n \in Nat /\ n > 0 /\ at[u] \in {"exec", "erase"}
  BY <1>1
<1>26. QED
  BY <1>20, <1>21, <1>22, <1>23, <1>24, <1>25, PutFollows, ZenonT(60)

-----------------------------------------------------------------------------
(* Steps that are the store's Answer.                                      *)

LEMMA GetInCells ==
  ASSUME NEW r \in Calls
  PROVE  /\ GetOf(r) \in Seq(Nat \X Nat)
         /\ \A k \in DOMAIN GetOf(r) : GetOf(r)[k] \in Cells
<1>1. GetOf(r) \in Seq(Nat \X Nat)
  BY AskedIsRequest DEF Asked, Request
<1>2. CASE r.op = "read"
  <2>1. GetOf(r) = [k \in 1 .. r.len |-> CellAt(r.addr + k - 1)]
    BY <1>2, GetIs
  <2>2. r.addr \in Nat /\ r.len \in Nat /\ r.addr + r.len - 1 \in Flash
    BY <1>2, CallFacts DEF ByPage, MtdOps, Unaligned, Erases
  <2>3. PICK T \in Nat : T = NBlocks * BlockLen
    BY FlashFacts
  <2>4. ASSUME NEW k \in 1 .. r.len PROVE CellAt(r.addr + k - 1) \in Cells
    <3>0. r.addr + r.len - 1 \in 0 .. T - 1
      BY <2>2, <2>3, FlashFacts
    <3>1. PICK a \in 0 .. T - 1 : a = r.addr + k - 1
      BY <2>2, <3>0, InBounds
    <3>2. a \div PageSize \in PageNumbers /\ a % PageSize \in 0 .. PageSize - 1
      BY <2>3, <3>1, PageOf
    <3>3. (a % PageSize) + 1 \in Columns
      BY <3>2, SizeFacts
    <3>4. QED
      BY <3>1, <3>2, <3>3 DEF CellAt, Cells
  <2>5. QED
    BY <1>1, <2>1, <2>4
<1>3. CASE r.op = "mtdread"
  <2>1. GetOf(r) = [k \in Columns |-> <<r.addr \div PageSize, k>>]
    BY <1>3, GetIs DEF PageCells
  <2>2. QED
    BY <1>1, <2>1, RowFacts DEF Cells
<1>4. CASE r.op = "mtdreadoob"
  <2>1. GetOf(r) = <<<<r.addr \div PageSize, Spare>>>>
    BY <1>4, GetIs
  <2>2. <<r.addr \div PageSize, Spare>> \in Cells
    BY RowFacts, SizeFacts DEF Cells
  <2>3. QED
    BY <1>1, <2>1, <2>2
<1>5. CASE ~Reads(r.op)
  BY <1>1, <1>5, GetIs
<1>6. QED
  BY <1>2, <1>3, <1>4, <1>5 DEF Reads

(* At its end a call has put all it had to. *)
LEMMA AllPut ==
  ASSUME NEW u, req[u] \in Calls, req[u] # Idle, at[u] \in Ended, Follows(u)
  PROVE  todo[u].put = <<>> /\ todo[u].get = GetOf(req[u])
<1> DEFINE r == req[u]
           q == PutOf(r)
<1>1. todo[u].put = SubSeq(q, Placed(u) + 1, Len(q)) /\ todo[u].get = GetOf(r)
  BY RemainsIs DEF Follows
<1>2. q \in Seq(Pairs)
  BY PutIsSeq
<1>3. at[u] \notin {"wait", "wrdi"}
  BY DEF Ended
<1>4. ~ByPage(r.op) /\ ~Unaligned(r) => left[u] = 0
  BY DEF Follows, Through
<1>5. r.len \in Nat
  BY CallFacts
<1>6. Placed(u) = Len(q)
  <2>1. CASE r.op = "write"
    <3>1. left[u] = 0
      BY <1>4, <2>1 DEF ByPage, MtdOps, Unaligned, Erases
    <3>2. Placed(u) = r.len - 0 + 0
      BY <1>3, <2>1, <3>1, PlacedIs DEF Placed
    <3>3. q = [k \in 1 .. r.len |-> <<CellAt(r.addr + k - 1), Text[k]>>]
      BY <2>1, PutIs
    <3> HIDE DEF q
    <3>4. Len(q) = r.len
      BY <1>5, <3>3
    <3>5. QED
      BY <1>5, <3>2, <3>4
  <2>2. CASE r.op = "mtdwrite"
    <3>1. Placed(u) = PageSize + 1
      BY <2>2, PlacedIs DEF Placed
    <3>2. q = [k \in Columns |-> <<<<r.addr \div PageSize, k>>, Text[k]>>]
      BY <2>2, PutIs
    <3> HIDE DEF q
    <3>3. QED
      BY <3>1, <3>2, SizeFacts
  <2>3. CASE r.op = "mtdwriteoob"
    <3>1. Placed(u) = 1
      BY <2>3, PlacedIs DEF Placed
    <3>2. q = <<<<<<r.addr \div PageSize, Spare>>, Text[1]>>>>
      BY <2>3, PutIs
    <3> HIDE DEF q
    <3>3. QED
      BY <3>1, <3>2
  <2>4. CASE Erases(r.op) /\ ~Unaligned(r)
    <3>1. left[u] = 0
      BY <1>4, <2>4, OpFacts
    <3>2. PICK N \in Nat : N = Blocks(r) * PagesPerBlock * (PageSize + 1)
      <4>1. PICK e \in Nat : e = r.len + BlockLen - 1
        BY <1>5, SizeFacts
      <4>2. PICK b \in Nat : b = Blocks(r)
        BY <4>1, SizeFacts, DivMod DEF Blocks
      <4>3. b * PagesPerBlock * (PageSize + 1) \in Nat
        <5>1. b * PagesPerBlock \in Nat /\ PageSize + 1 \in Nat
          BY SizeFacts
        <5>2. QED
          BY <5>1
      <4>4. QED
        BY <4>2, <4>3
    <3>3. Placed(u) = N
      <4>1. Placed(u) = ((r.len - 0 + BlockLen - 1) \div BlockLen + 0) * BlockCells
        BY <1>3, <2>4, <3>1, PlacedIs DEF Placed
      <4>2. PICK e \in Nat : e = r.len + BlockLen - 1 /\ e = r.len - 0 + BlockLen - 1
        BY <1>5, SizeFacts
      <4>3. PICK b \in Nat : b = Blocks(r) /\ b = e \div BlockLen
        BY <4>2, SizeFacts, DivMod DEF Blocks
      <4>4. b + 0 = b
        OBVIOUS
      <4>5. Placed(u) = b * BlockCells
        BY <4>1, <4>2, <4>3, <4>4
      <4>6. b * BlockCells = b * PagesPerBlock * (PageSize + 1)
        BY SizeFacts DEF BlockCells
      <4>7. QED
        BY <3>2, <4>3, <4>5, <4>6
    <3>4. q = [k \in 1 .. N |->
                <<<<r.addr \div PageSize + ((k - 1) \div (PageSize + 1)),
                    ((k - 1) % (PageSize + 1)) + 1>>, Blank>>]
      BY <2>4, <3>2, PutIs, Zenon
    <3> HIDE DEF q
    <3>5. Len(q) = N
      BY <3>4
    <3>6. QED
      BY <3>3, <3>5
  <2>5. CASE Reads(r.op) \/ (Erases(r.op) /\ Unaligned(r))
    BY <2>5, PutIs, PlacedIs DEF Placed
  <2>6. QED
    BY <2>1, <2>2, <2>3, <2>4, <2>5, OpFacts DEF Programs
<1> HIDE DEF q
<1>7. SubSeq(q, Placed(u) + 1, Len(q)) = <<>>
  BY <1>2, <1>6
<1>8. QED
  BY <1>1, <1>7

LEMMA ReturnFollows ==
  ASSUME IInv, SInv, NEW u \in party, NEW s, Return(u, s),
         at[u] \in {"leave", "fetchbuf", "waitfunc", "return"},
         piece' = piece, chip' = chip, DOMAIN state' = DOMAIN state,
         s = [k \in DOMAIN GetOf(req[u]) |-> CellOf(GetOf(req[u])[k])]
  PROVE  SInv' /\ StoreNext
<1> DEFINE r == req[u]
<1>1. Types /\ u \in AllUsers /\ Control(u) /\ Follows(u)
  BY PartyFacts DEF IInv, SInv
<1>2. r \in Calls /\ r # Idle /\ todo[u] # Idle
  BY <1>1 DEF Types, Control, Before
<1>3. todo[u].put = <<>> /\ todo[u].get = GetOf(r)
  BY <1>1, <1>2, AllPut DEF Ended
<1>4. turn \in {Nobody, u}
  <2>1. CASE at[u] = "leave"
    BY <2>1, TurnIs DEF Inside
  <2>2. CASE at[u] # "leave"
    BY <1>1, <2>2, TurnIs DEF Control, MtdOnly
  <2>3. QED
    BY <2>1, <2>2
<1>5. \A k \in DOMAIN GetOf(r) : GetOf(r)[k] \in Cells
  BY <1>2, GetInCells
<1>6. /\ at' = [at EXCEPT ![u] = "idle"] /\ req' = [req EXCEPT ![u] = Idle]
      /\ answer' = [answer EXCEPT ![u] = s] /\ todo' = [todo EXCEPT ![u] = Idle]
      /\ turn' = Nobody /\ got' = [got EXCEPT ![u] = <<>>] /\ left' = [left EXCEPT ![u] = 0]
      /\ party' = party
  BY DEF Return, Goto
<1>7. Store!Answer(u)
  <2> DEFINE now == [c \in Cells |-> chip.cells[c[1]][c[2]]]
             g == GetOf(r)
  <2>1. s = [k \in DOMAIN g |-> now[g[k]]]
    BY <1>5 DEF CellOf
  <2> HIDE DEF now, g
  <2>2. answer' = [answer EXCEPT ![u] = [k \in DOMAIN todo[u].get |-> now[todo[u].get[k]]]]
    BY <1>3, <1>6, <2>1 DEF g
  <2>3. now' = now
    BY DEF now
  <2>4. QED
    BY <1>2, <1>3, <1>4, <1>6, <2>2, <2>3 DEF Store!Answer, now
<1>8. StoreNext
  BY <1>1, <1>7 DEF StoreNext, Store!Next
<1>9. /\ at'[u] = "idle" /\ req'[u] = Idle /\ got'[u] = <<>>
      /\ \A v \in AllUsers : v # u => at'[v] = at[v] /\ req'[v] = req[v]
      /\ \A v \in AllUsers : v # u => left'[v] = left[v] /\ todo'[v] = todo[v]
  BY <1>1, <1>6 DEF Types, SInv, GotType
<1>10. got \in [AllUsers -> Seq(Val \cup {Mixed})]
  BY DEF SInv, GotType
<1>11. /\ got' \in [AllUsers -> Seq(Val \cup {Mixed})]
       /\ \A v \in AllUsers : v # u => got'[v] = got[v]
  <2>1. <<>> \in Seq(Val \cup {Mixed})
    OBVIOUS
  <2> DEFINE T == Seq(Val \cup {Mixed})
  <2>2. <<>> \in T /\ got \in [AllUsers -> T]
    BY <1>10, <2>1
  <2> HIDE DEF T
  <2>3. got' \in [AllUsers -> T] /\ \A v \in AllUsers : v # u => got'[v] = got[v]
    BY <1>6, <2>2
  <2>4. QED
    BY <2>3 DEF T
<1>12. Follows(u)'
  BY <1>9 DEF Follows, Remains, Through, Whole, Gotten, Given, Ended, Inside
<1>13. u = Mtd => Buffered'
  BY <1>9 DEF Buffered, Inside
<1>14. Turn'
  BY <1>6 DEF Turn
<1>15. SInv'
  <2>1. GotType'
    BY <1>6, <1>11 DEF GotType
  <2>2. QED
    BY <1>6, <1>9, <1>11, <1>12, <1>13, <1>14, <2>1, FollowStep
<1>16. QED
  BY <1>8, <1>15

LEMMA LeaveFollows ==
  ASSUME IInv, SInv, NEW u \in party, Leave(u)
  PROVE  SInv' /\ StoreNext
<1> DEFINE r == req[u]
<1>1. at[u] = "leave" /\ at[u] \in Inside /\ at[u] \in Ended
  BY DEF Leave, Inside, Ended
<1>2. Types /\ u \in AllUsers /\ r \in Calls /\ r # Idle /\ Control(u) /\ Follows(u)
  BY <1>1, HolderHas DEF SInv
<1>3. piece' = piece /\ chip' = chip /\ state' = state
  BY DEF Leave
<1>4. CASE u # Mtd
  <2>1. Return(u, got[u])
    BY <1>4 DEF Leave
  <2>2. r.op \notin MtdOps
    BY <1>2, <1>4 DEF Control
  <2>3. got[u] = [k \in DOMAIN GetOf(r) |-> CellOf(GetOf(r)[k])]
    <3>1. CASE r.op = "read"
      <4>1. left[u] = 0
        BY <1>1, <1>2, <3>1 DEF Follows, Through, ByPage, MtdOps, Unaligned, Erases
      <4>2. r.len \in Nat
        BY <1>2, CallFacts
      <4>3. got[u] = [k \in 1 .. r.len |-> CellOf(CellAt(r.addr + k - 1))]
        <5>1. got[u] = [k \in 1 .. r.len - left[u] |-> CellOf(CellAt(r.addr + k - 1))]
          BY <1>1, <1>2, <3>1 DEF Follows, Gotten
        <5>2. r.len - left[u] = r.len
          BY <4>1, <4>2
        <5>3. QED
          BY <5>1, <5>2, Zenon
      <4>4. GetOf(r) = [k \in 1 .. r.len |-> CellAt(r.addr + k - 1)]
        BY <1>2, <3>1, GetIs
      <4>5. QED
        BY <4>3, <4>4
    <3>2. CASE r.op # "read"
      <4>1. ~Reads(r.op)
        BY <2>2, <3>2 DEF Reads, MtdOps
      <4>2. GetOf(r) = <<>> /\ got[u] = <<>>
        BY <1>2, <3>2, <4>1, GetIs DEF Follows, Gotten
      <4>3. QED
        BY <4>2
    <3>3. QED
      BY <3>1, <3>2
  <2>4. QED
    BY <1>1, <1>3, <2>1, <2>3, ReturnFollows
<1>5. CASE u = Mtd
  <2> DEFINE l == CASE Reads(r.op) -> "fetchbuf"
                    [] r.op = "mtdwriteoob" -> "return"
                    [] OTHER -> "waitfunc"
  <2>1. /\ at' = [at EXCEPT ![u] = l] /\ party' = party /\ req' = req /\ answer' = answer
        /\ got' = got /\ left' = left /\ todo' = todo /\ turn' = turn /\ state' = state
    BY <1>5 DEF Leave, Same, Goto, history
  <2>2. l \in {"fetchbuf", "return", "waitfunc"} /\ (l = "fetchbuf" <=> Reads(r.op))
    BY DEF Reads
  <2>3. at'[u] = l /\ \A v \in AllUsers : v # u => at'[v] = at[v]
    BY <1>2, <2>1 DEF Types
  <2> HIDE DEF l
  <2>4. at'[u] \in Ended /\ at'[u] \in MtdOnly /\ at'[u] \notin {"enter"} \cup Inside \cup Laying
    BY <2>2, <2>3 DEF Ended, MtdOnly, Inside, Laying
  <2>5. Placed(u)' = Placed(u)
    <3>1. at[u] \notin {"wait", "wrdi"} /\ at'[u] \notin {"wait", "wrdi"}
      BY <1>1, <2>4 DEF Ended
    <3>2. PlacedOf(r, at'[u], left[u], Len(piece.data)) = PlacedOf(r, at[u], left[u], Len(piece.data))
      BY <1>1, <2>4, <3>1 DEF PlacedOf
    <3>3. QED
      BY <1>3, <2>1, <3>2 DEF Placed
  <2>6. Remains(u)'
    BY <1>2, <2>1, <2>5 DEF Follows, Remains
  <2>7. Through(u)'
    BY <1>1, <1>2, <2>1 DEF Follows, Through
  <2>8. Whole(u)'
    BY <1>2, <2>1, <2>4 DEF Follows, Whole
  <2>9. Gotten(u)'
    BY <1>2, <2>1, <2>4 DEF Follows, Gotten
  <2>10. Given(u)'
    BY <2>4 DEF Given
  <2>11. Follows(u)'
    BY <2>6, <2>7, <2>8, <2>9, <2>10 DEF Follows
  <2>12. Buffered'
    <3>1. Buffered
      BY <1>5 DEF SInv
    <3>2. Reads(r.op) => cache' = cache
      BY DEF Leave, Reads
    <3>3. at[Mtd] = "leave" /\ at'[Mtd] \in {"fetchbuf", "return", "waitfunc"}
          /\ at'[Mtd] \notin {"enter"} \cup Inside /\ (at'[Mtd] = "fetchbuf" <=> Reads(r.op))
      BY <1>1, <1>5, <2>2, <2>3, <2>4
    <3>4. at'[Mtd] # "leave" /\ at[Mtd] \in Inside
      BY <1>1, <1>5, <3>3
    <3>5. QED
      BY <1>5, <2>1, <3>1, <3>2, <3>3, <3>4 DEF Buffered, Row, Reads
  <2>13. Turn'
    <3>1. turn \in {Nobody, u}
      BY <1>5, TurnIs
    <3>2. QED
      BY <1>2, <1>5, <2>1, <2>4, <3>1 DEF Turn
  <2>14. GotType'
    BY <2>1 DEF SInv, GotType
  <2>15. SInv'
    BY <1>1, <2>1, <2>3, <2>11, <2>12, <2>13, <2>14, FollowStep
  <2>16. QED
    BY <1>3, <2>1, <2>15, Unseen DEF StoreNext
<1>6. QED
  BY <1>4, <1>5

(* MTD comes back: nobody has the lock. *)
LEMMA MtdRests ==
  ASSUME IInv, Mtd \in party, at[Mtd] \notin Inside, at[Mtd] \notin Before
  PROVE  /\ lock = Nobody /\ AtRest /\ req[Mtd] \in Calls /\ req[Mtd] # Idle /\ Types
         /\ Mtd \in AllUsers
<1>1. Types /\ Mtd \in AllUsers /\ party = {Mtd}
  BY PartyFacts DEF IInv
<1>2. Control(Mtd)
  BY <1>1 DEF IInv
<1>3. lock = Nobody
  BY <1>1, <1>2 DEF Control, Types
<1>4. QED
  BY <1>1, <1>2, <1>3 DEF IInv, Control, Types

LEMMA ReadPageHweccFollows ==
  ASSUME IInv, SInv, Mtd \in party, ReadPageHwecc
  PROVE  SInv' /\ StoreNext
<1> DEFINE r == req[Mtd]
           row == Row(Mtd)
           s == Append(SubSeq(cache.data, 1, PageSize), cache.map)
<1>1. at[Mtd] = "fetchbuf" /\ r.op = "mtdread" /\ Return(Mtd, s) /\ piece' = piece /\ chip' = chip
      /\ state' = state
  BY DEF ReadPageHwecc
<1>2. AtRest /\ r \in Calls /\ r # Idle /\ Types
  BY <1>1, MtdRests DEF Inside, Before
<1>3. cache.page = row
  BY <1>1 DEF SInv, Buffered, Reads
<1>4. row \in PageNumbers /\ row # NoPage
  BY <1>2, RowFacts, SizeFacts DEF Row
<1>5. cache.data = chip.cells[row] /\ cache.map = chip.cells[row][Spare]
  BY <1>2, <1>3, <1>4 DEF AtRest, DataIs, MapIs
<1>6. chip.cells[row] \in PageType
  BY <1>2, <1>4 DEF Types, ChipType
<1>7. chip.cells[row] \in Seq(Val) /\ Len(chip.cells[row]) = PageSize + 1
  BY <1>6, PageIsSeq, SizeFacts DEF PageType
<1>8. s = [k \in Columns |-> chip.cells[row][k]]
  <2> DEFINE d == chip.cells[row]
             b == SubSeq(d, 1, PageSize)
  <2>1. d \in Seq(Val) /\ Len(d) = PageSize + 1 /\ PageSize \in Nat \ {0}
    BY <1>7, SizeFacts
  <2> HIDE DEF d
  <2>2. b \in Seq(Val) /\ Len(b) = PageSize /\ \A k \in 1 .. PageSize : b[k] = d[k]
    BY <2>1
  <2>3. s = Append(b, d[Spare])
    BY <1>5 DEF d
  <2> HIDE DEF b, s
  <2>4. Spare = PageSize + 1 /\ Columns = 1 .. PageSize + 1
    BY SizeFacts
  <2>5. DOMAIN s = Columns /\ \A k \in Columns : s[k] = d[k]
    <3>1. DOMAIN s = Columns
      BY <2>1, <2>2, <2>3, <2>4
    <3>2. ASSUME NEW k \in 1 .. PageSize PROVE s[k] = d[k]
      BY <2>1, <2>2, <2>3
    <3>3. s[PageSize + 1] = d[Spare]
      BY <2>1, <2>2, <2>3
    <3>4. \A k \in Columns : k \in 1 .. PageSize \/ k = PageSize + 1
      BY <2>1, <2>4
    <3>5. QED
      BY <2>4, <3>1, <3>2, <3>3, <3>4
  <2>6. s = [k \in DOMAIN s |-> s[k]]
    BY <2>1, <2>2, <2>3
  <2>7. QED
    BY <2>5, <2>6 DEF d
<1>9. GetOf(r) = [k \in Columns |-> <<row, k>>]
  BY <1>1, <1>2, GetIs DEF PageCells, Row
<1> HIDE DEF s
<1>10. s = [k \in DOMAIN GetOf(r) |-> CellOf(GetOf(r)[k])]
  BY <1>8, <1>9 DEF CellOf
<1>11. QED
  BY <1>1, <1>10, ReturnFollows

LEMMA ReadBufFollows ==
  ASSUME IInv, SInv, Mtd \in party, ReadBuf
  PROVE  SInv' /\ StoreNext
<1> DEFINE r == req[Mtd]
           row == Row(Mtd)
<1>1. /\ at[Mtd] = "fetchbuf" /\ r.op = "mtdreadoob" /\ piece' = piece /\ chip' = chip
      /\ DOMAIN state' = DOMAIN state
      /\ Return(Mtd, IF state.idx < PageSize THEN <<cache.data[state.idx + 1]>> ELSE <<cache.map>>)
  BY DEF ReadBuf
<1>2. AtRest /\ r \in Calls /\ r # Idle /\ Types
  BY <1>1, MtdRests DEF Inside, Before
<1>3. cache.page = row /\ state.idx = PageSize
  BY <1>1 DEF SInv, Buffered, Reads
<1>4. row \in PageNumbers /\ row # NoPage
  BY <1>2, RowFacts, SizeFacts DEF Row
<1>5. cache.map = chip.cells[row][Spare]
  BY <1>2, <1>3, <1>4 DEF AtRest, MapIs
<1>6. Return(Mtd, <<cache.map>>)
  BY <1>1, <1>3, SizeFacts
<1>7. GetOf(r) = <<<<row, Spare>>>>
  BY <1>1, <1>2, GetIs DEF Row
<1>8. <<cache.map>> = [k \in DOMAIN GetOf(r) |-> CellOf(GetOf(r)[k])]
  BY <1>5, <1>7 DEF CellOf
<1>9. QED
  BY <1>1, <1>6, <1>8, ReturnFollows

LEMMA WaitFuncFollows ==
  ASSUME IInv, SInv, Mtd \in party, WaitFunc
  PROVE  SInv' /\ StoreNext
<1>1. at[Mtd] \in {"waitfunc", "return"} /\ Return(Mtd, <<>>) /\ piece' = piece /\ chip' = chip
      /\ state' = state
  BY DEF WaitFunc
<1>2. req[Mtd] \in Calls
  BY <1>1, MtdRests DEF Inside, Before
<1>3. ~Reads(req[Mtd].op)
  BY <1>1 DEF SInv, Buffered
<1>4. GetOf(req[Mtd]) = <<>>
  BY <1>2, <1>3, GetIs
<1>5. <<>> = [k \in DOMAIN GetOf(req[Mtd]) |-> CellOf(GetOf(req[Mtd])[k])]
  BY <1>4
<1>6. QED
  BY <1>1, <1>5, ReturnFollows

-----------------------------------------------------------------------------
(* What MTD does before it takes the lock.                                 *)

LEMMA MtdFollows ==
  ASSUME IInv, SInv, Mtd \in party, NEW l \in {"enter", "idle"} \cup (MtdOnly \ Ended),
         at[Mtd] \in {"scan"} \cup (MtdOnly \ Ended),
         at' = [at EXCEPT ![Mtd] = l],
         party' = party, req' = req, lock' = lock, todo' = todo, turn' = turn,
         answer' = answer, chip'.cells = chip.cells, left' = left, got' = got,
         l = "idle" => piece' = piece /\ req[Mtd] = Idle,
         DOMAIN state' = DOMAIN state,
         Given(Mtd)', Buffered'
  PROVE  SInv' /\ StoreNext
<1>1. Types /\ Mtd \in AllUsers /\ Control(Mtd) /\ Follows(Mtd) /\ Turn
  BY PartyFacts DEF IInv, SInv
<1>2. at'[Mtd] = l /\ \A v \in AllUsers : v # Mtd => at'[v] = at[v]
  BY <1>1 DEF Types
<1>3. l \notin Ended \cup Inside \cup Laying /\ at[Mtd] \notin Ended \cup Inside \cup Laying
  BY DEF Ended, Inside, Laying, MtdOnly
<1>4. req[Mtd] # Idle => Placed(Mtd)' = Placed(Mtd)
  <2>1. l \notin {"wait", "wrdi"} \cup Ended /\ at[Mtd] \notin {"wait", "wrdi"} \cup Ended
    BY <1>3 DEF Inside
  <2>2. \A d, e : PlacedOf(req[Mtd], l, left[Mtd], d) = PlacedOf(req[Mtd], at[Mtd], left[Mtd], e)
    BY <2>1 DEF PlacedOf
  <2>3. QED
    BY <1>2, <2>2 DEF Placed
<1>5. Remains(Mtd)'
  BY <1>1, <1>4 DEF Follows, Remains
<1>6. Through(Mtd)'
  BY <1>2, <1>3 DEF Through
<1>7. Whole(Mtd)'
  BY <1>1, <1>2, <1>3 DEF Follows, Whole
<1>8. Gotten(Mtd)'
  <2>1. req[Mtd] # Idle => req[Mtd].op # "read"
    BY <1>1 DEF Control, MtdOps
  <2>2. QED
    BY <1>1, <1>2, <1>3, <2>1 DEF Follows, Gotten
<1>9. Follows(Mtd)'
  BY <1>5, <1>6, <1>7, <1>8 DEF Follows
<1>10. Turn'
  <2>1. turn = Nobody
    <3>1. turn \in {Nobody, Mtd}
      BY TurnIs
    <3>2. lock # Mtd
      BY <1>1, <1>3 DEF Control
    <3>3. QED
      BY <1>1, <1>3, <3>1, <3>2 DEF Turn
  <2>2. QED
    BY <2>1 DEF Turn
<1>11. GotType'
  BY DEF SInv, GotType
<1>12. SInv'
  BY <1>2, <1>9, <1>10, <1>11, FollowStep
<1>13. QED
  BY <1>12, Unseen DEF StoreNext

LEMMA MtdCalls ==
  ASSUME IInv, SInv, Mtd \in party, at[Mtd] \in MtdOnly
  PROVE  /\ req[Mtd] \in Calls /\ req[Mtd] # Idle /\ req[Mtd].op \in MtdOps
         /\ Control(Mtd) /\ Given(Mtd) /\ Buffered /\ Types /\ Mtd \in AllUsers
<1>1. at[Mtd] \notin Inside \cup Before
  BY DEF MtdOnly, Inside, Before
<1>2. req[Mtd] \in Calls /\ req[Mtd] # Idle /\ Types /\ Mtd \in AllUsers
  BY <1>1, MtdRests
<1>3. Control(Mtd) /\ Given(Mtd) /\ Buffered
  BY <1>2 DEF IInv, SInv, Follows
<1>4. QED
  BY <1>2, <1>3 DEF Control

LEMMA StatusFollows ==
  ASSUME IInv, SInv, Mtd \in party, Status
  PROVE  SInv' /\ StoreNext
<1> DEFINE r == req[Mtd]
           l == CASE r.op = "mtdwrite" -> "seqin"
                  [] r.op = "mtdwriteoob" -> "writeoob"
                  [] OTHER -> "enter"
<1>1. at[Mtd] = "status" /\ at[Mtd] \in MtdOnly \ Ended
  BY DEF Status, MtdOnly, Ended
<1>2. /\ at' = [at EXCEPT ![Mtd] = l] /\ chip' = chip
      /\ party' = party /\ req' = req /\ lock' = lock /\ todo' = todo /\ turn' = turn
      /\ answer' = answer /\ left' = left /\ got' = got /\ piece' = piece
      /\ DOMAIN state' = DOMAIN state
  BY DEF Status, Same, Goto, history
<1>3. /\ r \in Calls /\ r # Idle /\ r.op \in MtdOps /\ Types /\ Mtd \in AllUsers
      /\ ~Reads(r.op)
  BY <1>1, MtdCalls DEF Control
<1>4. l \in {"seqin", "writeoob", "enter"}
      /\ (l = "enter" => r.op \notin {"write", "mtdwrite", "mtdwriteoob"})
  BY <1>3 DEF MtdOps
<1>5. at'[Mtd] = l
  BY <1>2, <1>3 DEF Types
<1>6. Given(Mtd)'
  BY <1>2, <1>4, <1>5 DEF Given, Inside
<1>7. Buffered'
  BY <1>2, <1>3, <1>4, <1>5 DEF Buffered, Inside, Reads
<1>8. l \in {"enter", "idle"} \cup (MtdOnly \ Ended) /\ l # "idle"
  BY <1>4 DEF MtdOnly, Ended
<1> HIDE DEF l
<1>9. QED
  BY <1>1, <1>2, <1>6, <1>7, <1>8, MtdFollows

LEMMA ReadCommandFollows ==
  ASSUME IInv, SInv, Mtd \in party, ReadCommand
  PROVE  SInv' /\ StoreNext
<1>1. at[Mtd] = "read0" /\ at[Mtd] \in MtdOnly \ Ended
  BY DEF ReadCommand, MtdOnly, Ended
<1>2. /\ at' = [at EXCEPT ![Mtd] = "enter"] /\ chip' = chip
      /\ party' = party /\ req' = req /\ lock' = lock /\ todo' = todo /\ turn' = turn
      /\ answer' = answer /\ left' = left /\ got' = got
      /\ piece' = [NoPiece EXCEPT !.page = Row(Mtd)] /\ DOMAIN state' = DOMAIN state
  BY DEF ReadCommand, Same, Goto, history
<1>3. req[Mtd].op = "mtdreadoob" => state'.idx = PageSize
  <2>1. "idx" \in DOMAIN state
    BY DEF SInv, StateType, Quiet
  <2>2. req[Mtd].op = "mtdreadoob" => state' = [state EXCEPT !.command = "read", !.idx = PageSize]
    BY DEF ReadCommand
  <2>3. QED
    BY <2>1, <2>2
<1>4. req[Mtd] \in Calls /\ req[Mtd] # Idle /\ Types /\ Mtd \in AllUsers /\ Reads(req[Mtd].op)
  BY <1>1, MtdCalls DEF Control
<1>5. at'[Mtd] = "enter"
  BY <1>2, <1>4 DEF Types
<1>6. Given(Mtd)'
  BY <1>2, <1>4, <1>5 DEF Given, Inside, Reads
<1>7. Buffered'
  <2>1. piece'.page = Row(Mtd)
    BY <1>2 DEF NoPiece
  <2>2. QED
    BY <1>2, <1>3, <1>5, <2>1 DEF Buffered, Row
<1>8. QED
  BY <1>1, <1>2, <1>6, <1>7, MtdFollows

LEMMA SeqInFollows ==
  ASSUME IInv, SInv, Mtd \in party, SeqIn
  PROVE  SInv' /\ StoreNext
<1>1. at[Mtd] = "seqin" /\ at[Mtd] \in MtdOnly \ Ended
  BY DEF SeqIn, MtdOnly, Ended
<1>2. /\ at' = [at EXCEPT ![Mtd] = "data"] /\ chip' = chip
      /\ party' = party /\ req' = req /\ lock' = lock /\ todo' = todo /\ turn' = turn
      /\ answer' = answer /\ left' = left /\ got' = got /\ piece' = piece
      /\ state' = [Quiet EXCEPT !.command = "seqin", !.row = Row(Mtd)]
  BY DEF SeqIn, Same, Goto, history
<1>3. DOMAIN state' = DOMAIN state
  BY <1>2 DEF SInv, StateType, Quiet
<1>4. at'[Mtd] = "data"
  BY <1>1, <1>2, MtdCalls DEF Types
<1>5. Given(Mtd)' /\ Buffered'
  BY <1>4 DEF Given, Buffered, Inside
<1>6. "data" \in MtdOnly \ Ended
  BY DEF MtdOnly, Ended
<1>7. QED
  BY <1>1, <1>2, <1>3, <1>5, <1>6, MtdFollows

(* The page and its spare area, as MTD gave them. *)
LEMMA PageGiven ==
  ASSUME IInv, SInv, Mtd \in party, WritePageHwecc
  PROVE  /\ DOMAIN state' = DOMAIN state /\ state'.oob = Text[Spare]
         /\ \A k \in 1 .. PageSize : state'.buf[k] = Text[k]
<1> DEFINE s == SubSeq(Text, 1, PageSize)
           new == [k \in Columns |-> IF k - 0 \in DOMAIN s THEN s[k - 0] ELSE BlankPage[k]]
           one == [command |-> "seqin", idx |-> 0, len |-> PageSize, col |-> PageSize,
                   row |-> Row(Mtd), buf |-> new, oob |-> Blank]
<1>1. at[Mtd] = "data" /\ at[Mtd] \in MtdOnly
  BY DEF WritePageHwecc, MtdOnly
<1>2. state = [Quiet EXCEPT !.command = "seqin", !.row = Row(Mtd)]
  BY <1>1, MtdHas DEF Collected
<1>3. Len(s) = PageSize /\ DOMAIN s = 1 .. PageSize /\ \A k \in 1 .. PageSize : s[k] = Text[k]
  <2>1. 1 \in 1 .. Len(Text) /\ PageSize \in 1 .. Len(Text) /\ PageSize \in Nat
    BY TextFacts, SizeFacts
  <2>2. QED
    BY <2>1, TextFacts
<1>4. state = [command |-> "seqin", idx |-> 0, len |-> 0, col |-> 0, row |-> Row(Mtd),
               buf |-> BlankPage, oob |-> Blank]
  BY <1>2 DEF Quiet
<1> HIDE DEF s
<1>5. WriteBuf(state, s) = one
  <2>1. PageSize > 0 /\ PageSize \in Nat
    BY SizeFacts
  <2>2. WriteBuf(state, s) =
          [state EXCEPT !.buf = [k \in Columns |-> IF k - state.idx \in DOMAIN s
                                   THEN s[k - state.idx] ELSE state.buf[k]],
                        !.col = state.col + Len(s), !.len = state.len + Len(s)]
    BY <1>4, <2>1 DEF WriteBuf
  <2>3. [k \in Columns |-> IF k - state.idx \in DOMAIN s
                            THEN s[k - state.idx] ELSE state.buf[k]] = new
    BY <1>4
  <2>4. state.col + Len(s) = PageSize /\ state.len + Len(s) = PageSize
    BY <1>3, <1>4, <2>1
  <2> HIDE DEF new
  <2>5. QED
    BY <1>4, <2>2, <2>3, <2>4
<1>6. \A k \in 1 .. PageSize : new[k] = Text[k]
  <2>1. \A k \in 1 .. PageSize : k \in Columns /\ k - 0 = k
    BY SizeFacts
  <2>2. QED
    BY <1>3, <2>1
<1> HIDE DEF new
<1>7. state' = [one EXCEPT !.oob = Text[Spare], !.col = PageSize + 1]
  <2>1. state' = WriteBuf(one, <<Text[Spare]>>)
    BY <1>5 DEF WritePageHwecc, s
  <2>2. PageSize >= PageSize
    BY SizeFacts
  <2>3. QED
    BY <2>1, <2>2 DEF WriteBuf
<1>8. QED
  BY <1>4, <1>6, <1>7

LEMMA WritePageHweccFollows ==
  ASSUME IInv, SInv, Mtd \in party, WritePageHwecc
  PROVE  SInv' /\ StoreNext
<1>1. at[Mtd] = "data" /\ at[Mtd] \in MtdOnly \ Ended
  BY DEF WritePageHwecc, MtdOnly, Ended
<1>2. /\ at' = [at EXCEPT ![Mtd] = "pageprog"] /\ chip' = chip
      /\ party' = party /\ req' = req /\ lock' = lock /\ todo' = todo /\ turn' = turn
      /\ answer' = answer /\ left' = left /\ got' = got /\ piece' = piece
  BY DEF WritePageHwecc, Same, Goto, history
<1>3. at'[Mtd] = "pageprog"
  BY <1>1, <1>2, MtdCalls DEF Types
<1>4. Given(Mtd)'
  BY <1>3 DEF Given, Inside
<1>5. Buffered'
  BY <1>3, PageGiven DEF Buffered, Inside
<1>6. "pageprog" \in MtdOnly \ Ended
  BY DEF MtdOnly, Ended
<1>7. QED
  BY <1>1, <1>2, <1>4, <1>5, <1>6, PageGiven, MtdFollows

(* The offset nobody sets is 0: the page is written from its first cell. *)
LEMMA PageProgFollows ==
  ASSUME IInv, SInv, Mtd \in party, PageProg, OffsetIsZero'
  PROVE  SInv' /\ StoreNext
<1>1. at[Mtd] = "pageprog" /\ at[Mtd] \in MtdOnly \ Ended
  BY DEF PageProg, MtdOnly, Ended
<1>2. /\ at' = [at EXCEPT ![Mtd] = "enter"] /\ chip' = chip
      /\ party' = party /\ req' = req /\ lock' = lock /\ todo' = todo /\ turn' = turn
      /\ answer' = answer /\ left' = left /\ got' = got
      /\ DOMAIN state' = DOMAIN state
  BY DEF PageProg, Same, Goto, history
<1>3. at'[Mtd] = "enter" /\ req[Mtd].op = "mtdwrite" /\ Buffered
  BY <1>1, <1>2, MtdCalls DEF Types, Control
<1>4. /\ state.idx = 0 /\ state.len = PageSize /\ state.buf \in PageType
  BY <1>1, MtdHas DEF Collected
<1>5. PICK off \in StackOffsets :
        piece' = [page |-> state.row, off |-> off, oob |-> state.oob,
                  data |-> SubSeq(state.buf, 0 + 1, 0 + PageSize)]
  BY <1>4 DEF PageProg
<1>6. SubSeq(state.buf, 0 + 1, 0 + PageSize) = SubSeq(Text, 1, PageSize)
  <2> DEFINE b == state.buf
             x == SubSeq(b, 0 + 1, 0 + PageSize)
             y == SubSeq(Text, 1, PageSize)
  <2>1. b \in Seq(Val)
    BY <1>4, PageIsSeq DEF PageType
  <2>2. Len(b) = PageSize + 1 /\ PageSize \in Nat \ {0}
    BY <1>4, <2>1, SizeFacts DEF PageType
  <2>3. \A k \in 1 .. PageSize : b[k] = Text[k]
    BY <1>1, <1>3 DEF Buffered
  <2> HIDE DEF b
  <2>4. x \in Seq(Val) /\ Len(x) = PageSize /\ \A k \in 1 .. PageSize : x[k] = b[k]
    BY <2>1, <2>2
  <2>5. y \in Seq(Range(Text)) /\ Len(y) = PageSize /\ \A k \in 1 .. PageSize : y[k] = Text[k]
    <3>1. Len(Text) \in Nat /\ Len(Text) > PageSize /\ Text \in Seq(Range(Text))
      BY TextFacts
    <3>2. QED
      BY <2>2, <3>1
  <2> HIDE DEF x, y
  <2>6. x = y
    BY <2>2, <2>3, <2>4, <2>5
  <2>7. QED
    BY <2>6 DEF x, y, b
<1>7. Given(Mtd)'
  <2>1. piece'.off = 0
    BY <1>2, <1>3 DEF OffsetIsZero
  <2>2. piece'.data = SubSeq(Text, 1, PageSize) /\ piece'.oob = Text[Spare]
    BY <1>1, <1>3, <1>5, <1>6 DEF Buffered
  <2>3. QED
    BY <1>2, <1>3, <2>1, <2>2 DEF Given, Inside
<1>8. Buffered'
  BY <1>2, <1>3 DEF Buffered, Inside, Reads
<1>9. QED
  BY <1>1, <1>2, <1>7, <1>8, MtdFollows

LEMMA WriteOobFollows ==
  ASSUME IInv, SInv, Mtd \in party, WriteOob
  PROVE  SInv' /\ StoreNext
<1>1. at[Mtd] = "writeoob" /\ at[Mtd] \in MtdOnly \ Ended
  BY DEF WriteOob, MtdOnly, Ended
<1>2. /\ at' = [at EXCEPT ![Mtd] = "enter"] /\ chip' = chip
      /\ party' = party /\ req' = req /\ lock' = lock /\ todo' = todo /\ turn' = turn
      /\ answer' = answer /\ left' = left /\ got' = got
      /\ DOMAIN state' = DOMAIN state
      /\ piece'.oob = Text[1] /\ piece'.data = <<>>
  BY DEF WriteOob, Same, Goto, history
<1>3. at'[Mtd] = "enter" /\ req[Mtd].op = "mtdwriteoob"
  BY <1>1, <1>2, MtdCalls DEF Types, Control
<1>4. Given(Mtd)'
  BY <1>2, <1>3 DEF Given, Inside
<1>5. Buffered'
  BY <1>2, <1>3 DEF Buffered, Inside, Reads
<1>6. QED
  BY <1>1, <1>2, <1>4, <1>5, MtdFollows

LEMMA ScanFollows ==
  ASSUME IInv, SInv, Scan
  PROVE  SInv' /\ StoreNext
<1>1. Mtd \in party /\ at[Mtd] = "scan"
  BY DEF Scan
<1>2. /\ at' = [at EXCEPT ![Mtd] = "idle"] /\ chip' = chip
      /\ party' = party /\ req' = req /\ lock' = lock /\ todo' = todo /\ turn' = turn
      /\ answer' = answer /\ left' = left /\ got' = got /\ piece' = piece
      /\ DOMAIN state' = DOMAIN state
  BY DEF Scan, Same, Goto, history, Reset
<1>3. Types /\ Mtd \in AllUsers /\ Control(Mtd)
  BY <1>1, PartyFacts DEF IInv
<1>4. at'[Mtd] = "idle" /\ req[Mtd] = Idle
  BY <1>1, <1>2, <1>3 DEF Types, Control, Before
<1>5. Given(Mtd)' /\ Buffered'
  BY <1>4 DEF Given, Buffered, Inside
<1>6. QED
  BY <1>1, <1>2, <1>4, <1>5, MtdFollows

-----------------------------------------------------------------------------
(* A call begins; setting up; the chip.                                    *)

(* Nothing of a call is done when it begins. *)
LEMMA NothingPlaced ==
  ASSUME NEW r \in Calls, NEW l \in {"enter", "read0", "status"}, NEW d
  PROVE  PlacedOf(r, l, r.len, d) = 0 /\ (r.len - r.len) % BlockLen = 0
<1>1. r.len \in Nat /\ r.len - r.len = 0
  BY CallFacts
<1>2. (BlockLen - 1) \div BlockLen = 0 /\ 0 % BlockLen = 0
  <2>1. PICK B \in Nat \ {0} : B = BlockLen
    BY SizeFacts
  <2>2. (B - 1) \div B = 0
    <3>1. B - 1 \in Nat /\ B - 1 \in 0 .. B - 1 /\ B - 1 = B * 0 + (B - 1) /\ 0 \in Nat
      BY <2>1
    <3>2. QED
      BY <2>1, <3>1, DivIs
  <2>3. 0 % B = 0
    <3>1. 0 \in 0 .. B - 1 /\ 0 = B * 0 + 0 /\ 0 \in Nat
      BY <2>1
    <3>2. QED
      BY <2>1, <3>1, DivIs
  <2>4. QED
    BY <2>1, <2>2, <2>3
<1>3. (r.len - r.len) % BlockLen = 0
  BY <1>1, <1>2
<1>4. l \notin {"wait", "wrdi"} \cup Ended
  BY DEF Ended
<1>5. (r.len - r.len + BlockLen - 1) \div BlockLen = 0
  <2>1. r.len - r.len + BlockLen - 1 = BlockLen - 1
    BY <1>1, SizeFacts
  <2>2. QED
    BY <1>2, <2>1
<1>6. BlockCells \in Nat
  BY SizeFacts DEF BlockCells
<1>7. PlacedOf(r, l, r.len, d) = 0
  <2>1. CASE r.op \in {"write", "mtdwrite", "mtdwriteoob"}
    BY <1>1, <1>4, <2>1, PlacedIs
  <2>2. CASE Reads(r.op) \/ (Erases(r.op) /\ Unaligned(r))
    BY <2>2, PlacedIs
  <2>3. CASE Erases(r.op) /\ ~Unaligned(r)
    <3>1. PlacedOf(r, l, r.len, d) = (0 + 0) * BlockCells
      BY <1>4, <1>5, <2>3, PlacedIs
    <3>2. QED
      BY <1>6, <3>1
  <2>4. r.op \in DirectOps \cup MtdOps
    BY CallFacts
  <2>5. QED
    BY <2>1, <2>2, <2>3, <2>4 DEF DirectOps, MtdOps, Reads, Erases
<1>8. QED
  BY <1>3, <1>7

LEMMA BeginFollows ==
  ASSUME IInv, SInv, NEW u \in party, NEW r \in Calls, Begin(u, r)
  PROVE  SInv' /\ StoreNext
<1> DEFINE l == IF r.op \in DirectOps THEN "enter" ELSE IF Reads(r.op) THEN "read0" ELSE "status"
<1>1. at[u] = "idle" /\ (u = Mtd <=> r.op \in MtdOps)
  BY DEF Begin
<1>2. Types /\ u \in AllUsers /\ Control(u) /\ Turn
  BY PartyFacts DEF IInv, SInv
<1>3. req[u] = Idle /\ todo[u] = Idle
  BY <1>1, <1>2 DEF Control, Before
<1>4. /\ at' = [at EXCEPT ![u] = l] /\ req' = [req EXCEPT ![u] = r]
      /\ left' = [left EXCEPT ![u] = r.len] /\ todo' = [todo EXCEPT ![u] = Asked(r)]
      /\ got' = [got EXCEPT ![u] = <<>>] /\ turn' = turn /\ answer' = answer
      /\ party' = party /\ chip' = chip /\ cache' = cache /\ lock' = lock
      /\ piece' = piece /\ state' = state
  BY DEF Begin, Goto
<1>5. /\ l \in {"enter", "read0", "status"}
      /\ l = "enter" <=> r.op \in DirectOps
  BY DEF Reads, DirectOps
<1> HIDE DEF l
<1>6. /\ at'[u] = l /\ req'[u] = r /\ left'[u] = r.len /\ todo'[u] = Asked(r)
      /\ \A v \in AllUsers : v # u =>
           at'[v] = at[v] /\ req'[v] = req[v] /\ left'[v] = left[v] /\ todo'[v] = todo[v]
  BY <1>2, <1>4 DEF Types
<1>7. GotType' /\ got'[u] = <<>> /\ \A v \in AllUsers : v # u => got'[v] = got[v]
  <2> DEFINE T == Seq(Val \cup {Mixed})
  <2>1. <<>> \in T
    OBVIOUS
  <2>2. got \in [AllUsers -> T]
    BY DEF SInv, GotType
  <2> HIDE DEF T
  <2>3. got' \in [AllUsers -> T] /\ got'[u] = <<>> /\ \A v \in AllUsers : v # u => got'[v] = got[v]
    BY <1>2, <1>4, <2>1, <2>2
  <2>4. QED
    BY <2>3 DEF GotType, T
<1>8. at'[u] \notin Ended \cup Inside \cup Laying
  BY <1>5, <1>6 DEF Ended, Inside, Laying
<1>9. Remains(u)'
  <2>1. Placed(u)' = 0
    BY <1>4, <1>5, <1>6, NothingPlaced DEF Placed
  <2>2. PutOf(r) = SubSeq(PutOf(r), 0 + 1, Len(PutOf(r)))
    <3>1. PICK q \in Seq(Pairs) : q = PutOf(r)
      BY PutIsSeq
    <3>2. q = SubSeq(q, 0 + 1, Len(q))
      OBVIOUS
    <3>3. QED
      BY <3>1, <3>2
  <2>3. QED
    BY <1>6, <2>1, <2>2 DEF Remains, Asked
<1>10. Through(u)'
  BY <1>8 DEF Through
<1>11. Whole(u)'
  BY <1>5, <1>6, <1>8, NothingPlaced DEF Whole
<1>12. Gotten(u)'
  BY <1>7, <1>8 DEF Gotten
<1>13. Given(u)'
  <2>1. at'[u] = "enter" => r.op \notin {"mtdwrite", "mtdwriteoob"}
    BY <1>5, <1>6 DEF DirectOps
  <2>2. QED
    BY <1>6, <1>8, <2>1 DEF Given
<1>14. u = Mtd => Buffered'
  <2>1. SUFFICES ASSUME u = Mtd PROVE Buffered'
    OBVIOUS
  <2>2. l # "enter"
    BY <1>1, <1>5, <2>1 DEF MtdOps, DirectOps
  <2>3. at'[Mtd] \in {"read0", "status"}
    BY <1>5, <1>6, <2>1, <2>2
  <2>4. QED
    BY <2>3 DEF Buffered, Inside
<1>15. Turn'
  <2>1. turn # u
    BY <1>2, <1>3, PartyFacts DEF Turn
  <2>2. turn # Nobody => turn \in AllUsers
    BY <1>2, PartyFacts DEF Turn
  <2>3. QED
    BY <1>2, <1>4, <1>6, <2>1, <2>2 DEF Turn
<1>16. Follows(u)'
  BY <1>9, <1>10, <1>11, <1>12, <1>13 DEF Follows
<1>17. SInv'
  BY <1>4, <1>6, <1>7, <1>14, <1>15, <1>16, FollowStep
<1>18. Store!Ask(u)
  <2>1. Asked(r) \in {Asked(x) : x \in Calls}
    OBVIOUS
  <2>2. QED
    BY <1>3, <1>4, <2>1 DEF Store!Ask
<1>19. QED
  BY <1>2, <1>17, <1>18 DEF StoreNext, Store!Next

LEMMA SetUpFollows ==
  ASSUME IInv, SInv, \A u \in party : at[u] \in Before /\ at'[u] \in Before,
         party' = party, req' = req, todo' = todo, turn' = turn, answer' = answer,
         got' = got, state' = state, chip'.cells = chip.cells
  PROVE  SInv' /\ StoreNext
<1>1. Types /\ Turn
  BY DEF IInv, SInv
<1>2. \A u \in party : req[u] = Idle
  BY <1>1, PartyFacts DEF IInv, Control
<1>3. \A u \in party : at'[u] \notin Ended \cup Inside \cup Laying \cup {"enter", "pageprog"}
  BY DEF Before, Ended, Inside, Laying
<1>4. \A u \in party' : Follows(u)'
  BY <1>2, <1>3 DEF Follows, Remains, Through, Whole, Gotten, Given
<1>5. Mtd \in party' => Buffered'
  BY <1>3 DEF Buffered, Ended
<1>6. turn = Nobody
  BY <1>1, <1>2 DEF Turn
<1>7. Turn'
  BY <1>6 DEF Turn
<1>8. GotType' /\ StateType'
  BY DEF SInv, GotType, StateType
<1>9. SInv'
  BY <1>4, <1>5, <1>7, <1>8 DEF SInv
<1>10. QED
  BY <1>9, Unseen DEF StoreNext

LEMMA Still ==
  ASSUME IInv, SInv, chip'.cells = chip.cells,
         party' = party, cache' = cache, lock' = lock, at' = at, req' = req,
         left' = left, piece' = piece, got' = got, state' = state, answer' = answer,
         todo' = todo, turn' = turn
  PROVE  SInv' /\ StoreNext
<1>1. \A u \in party' : Follows(u)'
  BY OthersFollow
<1>2. Mtd \in party' => Buffered'
  BY DEF SInv, Buffered, Row
<1>3. Turn'
  BY DEF SInv, Turn
<1>4. GotType' /\ StateType'
  BY DEF SInv, GotType, StateType
<1>5. SInv'
  BY <1>1, <1>2, <1>3, <1>4 DEF SInv
<1>6. QED
  BY <1>5, Unseen DEF StoreNext

LEMMA SettingUpFollows ==
  ASSUME IInv, SInv, Probe \/ ManufactureInit \/ ChipReady
  PROVE  SInv' /\ StoreNext
<1>1. Types /\ party \subseteq AllUsers
  BY PartyFacts DEF IInv
<1>2. chip \in ChipType
  BY <1>1 DEF Types
<1>3. CASE Probe
  <2>1. \A u \in party : at[u] \in Before /\ at'[u] \in Before
    BY <1>1, <1>3 DEF Probe, Before
  <2>2. QED
    BY <1>3, <2>1, SetUpFollows DEF Probe, history
<1>4. CASE ManufactureInit
  <2>1. \A u \in party : at[u] \in Before /\ at'[u] \in Before
    BY <1>1, <1>4 DEF ManufactureInit, Before
  <2>2. chip.op = "idle"
    BY <2>1, NoHolder DEF AtRest
  <2>3. chip'.cells = chip.cells
    BY <1>2, <1>4, <2>2, UnlockOnly DEF ManufactureInit
  <2>4. QED
    BY <1>4, <2>1, <2>3, SetUpFollows DEF ManufactureInit, history
<1>5. CASE ChipReady
  <2>1. chip'.cells = chip.cells
    BY <1>2, <1>5, Rested DEF ChipReady
  <2>2. QED
    BY <1>5, <2>1, Still DEF ChipReady, history
<1>6. QED
  BY <1>3, <1>4, <1>5

-----------------------------------------------------------------------------
(* The refinement.                                                         *)

LEMMA StartsFollowing ==
  ASSUME Init
  PROVE  SInv /\ Store!Init
<1>1. IInv
  BY Starting
<1>2. Types /\ party \subseteq AllUsers
  BY <1>1, PartyFacts DEF IInv
<1>3. \A u \in party : req[u] = Idle /\ at[u] = "probe"
  BY <1>2 DEF Init
<1>4. \A u \in party : Follows(u)
  BY <1>3 DEF Follows, Remains, Through, Whole, Gotten, Given, Ended, Inside
<1>5. Mtd \in party => Buffered
  BY <1>3 DEF Buffered, Inside
<1>6. Turn /\ StateType
  BY DEF Init, Turn, StateType
<1>7. GotType
  <2> DEFINE T == Seq(Val \cup {Mixed})
  <2>1. <<>> \in T
    OBVIOUS
  <2> HIDE DEF T
  <2>2. got \in [AllUsers -> T]
    BY <2>1 DEF Init
  <2>3. QED
    BY <2>2 DEF GotType, T
<1>8. SInv
  BY <1>4, <1>5, <1>6, <1>7 DEF SInv
<1>9. \A c \in Cells : chip.cells[c[1]][c[2]] = Blank
  <2>1. \A c \in Cells : c[1] \in PageNumbers /\ c[2] \in Columns
    BY DEF Cells
  <2>2. QED
    BY <2>1 DEF Init, NewChip, BlankPage
<1>10. Store!Init
  BY <1>9 DEF Store!Init, Init
<1>11. QED
  BY <1>8, <1>10

LEMMA StepFollows ==
  ASSUME IInv, SInv, [Next]_vars, OffsetIsZero'
  PROVE  SInv' /\ StoreNext
<1>1. CASE Probe \/ ManufactureInit \/ ChipReady
  BY <1>1, SettingUpFollows
<1>2. CASE Scan
  BY <1>2, ScanFollows
<1>3. CASE Rest \/ UNCHANGED vars
  BY <1>3, Still DEF Rest, vars, history
<1>4. ASSUME NEW u \in party, NEW r \in Calls, Begin(u, r) PROVE SInv' /\ StoreNext
  BY <1>4, BeginFollows
<1>5. ASSUME NEW u \in party, UnderLock(u) PROVE SInv' /\ StoreNext
  <2>1. CASE Enter(u) \/ NextPiece(u) \/ Load(u) \/ Loading(u) \/ Fetch(u) \/ Copy(u) \/ Lay(u)
    BY <2>1, EnterFollows, NextPieceFollows, LoadFollows, LoadingFollows, FetchFollows,
       CopyFollows, LayFollows
  <2>2. CASE WrEn(u) \/ PLoad(u) \/ Exec(u) \/ EraseBlock(u) \/ Wait(u) \/ WrDi(u) \/ Leave(u)
    BY <2>2, WrEnFollows, PLoadFollows, ExecFollows, EraseBlockFollows, WaitFollows,
       WrDiFollows, LeaveFollows
  <2>3. QED
    BY <1>5, <2>1, <2>2 DEF UnderLock
<1>6. CASE Mtd \in party /\ ByMtd
  BY <1>6, StatusFollows, ReadCommandFollows, SeqInFollows, WritePageHweccFollows,
     PageProgFollows, WriteOobFollows, ReadPageHweccFollows, ReadBufFollows, WaitFuncFollows
     DEF ByMtd
<1>7. QED
  BY <1>1, <1>2, <1>3, <1>4, <1>5, <1>6 DEF Next

(* As long as MTD's page writes find 0 in the offset that nobody sets       *)
(* (spi_nand_flash.c:2258), what the users see of the driver is a plain     *)
(* store: every program and erase lays down the next cells of one call, no  *)
(* other call is served meanwhile, and a read returns what the cells hold   *)
(* at its end, from the cache or from the chip.                             *)
THEOREM StoreRefined == Spec /\ []OffsetIsZero => StoreIsFaithful
<1>1. Init => IInv /\ SInv /\ Store!Init
  BY Starting, StartsFollowing
<1>2. IInv /\ SInv /\ [Next]_vars /\ OffsetIsZero'
        => IInv' /\ SInv' /\ [Store!Next]_(Store!vars)
  BY NextKeeps, StepFollows DEF StoreNext
<1>3. QED
  BY <1>1, <1>2, PTL DEF Spec, StoreIsFaithful, Store!Spec

(* The exported functions compute every offset they use, so without MTD     *)
(* the driver is that store whatever lies on the stack.                     *)
THEOREM DirectStoreRefined ==
  ASSUME \A p \in Parties : Mtd \notin p
  PROVE  Spec => StoreIsFaithful
<1>1. IInv => OffsetIsZero
  BY DEF IInv, Types, OffsetIsZero
<1>2. Spec => []IInv
  BY Invariant
<1>3. QED
  BY <1>1, <1>2, StoreRefined, PTL
=============================================================================
