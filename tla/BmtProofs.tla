----------------------------- MODULE BmtProofs -----------------------------
(***************************************************************************)
(* Theorems about Bmt for every chip, every layout of factory-bad blocks   *)
(* and any number of failures of flash operations.                         *)
(***************************************************************************)
EXTENDS Bmt, SequenceTheorems, FiniteSetTheorems, WellFoundedInduction, TLAPS

(***************************************************************************)
(* The invariants.                                                         *)
(***************************************************************************)

(* Where the code goes on once a mark under way is written. *)
At == IF pc = "mark" THEN mark.then ELSE pc

SettingUp == {"pool", "loadBmt", "checkRaw", "reconstruct", "loadBbt", "scanRaw"}
Serving   == {"ready", "program", "erase", "done"}

(* The loop counter is a block number, or a position of the BMT. *)
Counters ==
  /\ pc = "pool" => i \in 1 .. NBlocks - 1
  /\ pc = "loadBmt" => i <= NBlocks - 1
  /\ At = "checkRaw" => i >= 1
  /\ At \in {"reconstruct", "loadBbt", "scanRaw", "erasePool", "copy"} => i >= 0

(* The tables the numbering is made from change only before it is made. *)
SetUpFirst == At \in SettingUp => req.op = "boot"
Numbered   == At \in Serving \/ req.op # "boot" => pBbt \in [Logical -> 0 .. sys - 1]

TypeInv == TypeOK /\ Counters /\ SetUpFirst /\ Numbered

(* What find_available_block returned is a pool block nobody uses. *)
FoundFree ==
  pc \in FindReturns /\ found # 0 =>
    found \in Pool /\ ~Mapped(found) /\ ~Holds(found)

(* Until power is lost for the first time the chip is blank at set-up. *)
BlankChip ==
  At \in SettingUp =>
    /\ pc # "mark" /\ pc # "checkRaw"
    /\ bmt = <<>> /\ bmtAt = 0 /\ bbtAt = 0
    /\ \A b \in Blocks, p \in Pages :
         flash[b][p].data = Erased /\ flash[b][p].oob.idx = IdxBits
    /\ cache.page # NoPage => cache.data = Erased /\ cache.map.idx = IdxBits

(* The block a mark is for, other than the one the request failed on, does *)
(* not stand for another.                                                  *)
MarkApart ==
  pc = "mark" => mark.blk \notin Pool \/ ~Mapped(mark.blk) \/ mark.blk = req.phys

Placed   == pc = "programBmt" => bmtAt # 0
Homes    == pc # "pool" /\ pc # "dead" => sys > 0
Targets  == /\ req.op = "write" => req.blk = req.phys
            /\ req.op = "erase" => req.blk < sys

Undisturbed == /\ InUseApart /\ FoundFree /\ BlankChip /\ MarkApart
               /\ Placed /\ Homes /\ Targets
FirstPower  == crashes = 0 => Undisturbed

IInv == TypeInv /\ FirstPower

-----------------------------------------------------------------------------
(***************************************************************************)
(* The flash operations are well typed.                                    *)
(***************************************************************************)
LEMMA ChipFacts ==
  /\ NBlocks \in Nat /\ NBlocks > 1 /\ NPages \in Nat
  /\ 0 \in Blocks /\ 0 \in Pages /\ NBlocks - 1 \in Blocks
  /\ Blocks \subseteq Nat /\ Pages \subseteq Nat
  BY NandAssumption, BmtAssumption DEF Blocks, Pages

LEMMA OobFacts ==
  /\ CleanOob \in Oob /\ ZeroOob \in Oob
  /\ \A a, b \in Oob : AndOob(a, b) \in Oob
  /\ \A b : \A o \in Oob : SetIdx(o, b) \in Oob
  /\ \A kind \in MarkKinds : MarkOob(kind) \in Oob
  BY DEF CleanOob, ZeroOob, AndOob, SetIdx, MarkOob, MarkKinds, Oob, Code

LEMMA ReadType ==
  ASSUME NEW f \in Flash, NEW c \in Cache, NEW b \in Blocks, NEW p \in Pages
  PROVE  Read(f, c, b, p) \in Cache
  BY DEF Flash, Page, Cache, Read

LEMMA OverlayType ==
  ASSUME NEW c \in Cache, NEW d \in Data, NEW o \in Oob
  PROVE  Overlay(c, d, o) \in Cache
  BY OobFacts DEF Overlay, Cache

LEMMA ProgramType ==
  ASSUME NEW pg \in Page, NEW d \in Data, NEW o \in Oob,
         NEW r \in {"ok"} \cup FailModes
  PROVE  AfterProgram(pg, d, o, r) \in Page
<1>1. AndOob(pg.oob, o) \in Oob
  BY OobFacts DEF Page
<1> QED
  BY <1>1 DEF AfterProgram, Programmed, Page, Data, FailModes

LEMMA EraseType ==
  ASSUME NEW blk \in [Pages -> Page], NEW r \in {"ok"} \cup FailModes
  PROVE  AfterErase(blk, r) \in [Pages -> Page]
<1>1. Blank \in Page
  BY OobFacts DEF Blank, Page, Data
<1>2. \A p \in Pages : [blk[p] EXCEPT !.data = Garbage] \in Page
  BY DEF Page, Data
<1> QED
  BY <1>1, <1>2 DEF AfterErase, FailModes

LEMMA ResultsType ==
  ASSUME NEW kind, NEW b, NEW r \in Results(kind, b)
  PROVE  r \in {"ok"} \cup FailModes
  BY BmtAssumption DEF Results, FailModes

LEMMA CountType ==
  ASSUME fails \in Nat, NEW b, NEW r, CountFail(b, r)
  PROVE  fails' \in Nat
  BY DEF CountFail

(***************************************************************************)
(* The parts of steps are well typed.                                      *)
(***************************************************************************)
LEMMA LoadType ==
  ASSUME TypeOK, NEW b \in Blocks, NEW p \in Pages, Load(b, p)
  PROVE  cache' \in Cache
  BY ReadType DEF TypeOK, Load

LEMMA WriteType ==
  ASSUME TypeOK, NEW b \in Blocks, NEW p \in Pages, NEW d \in Data, NEW o \in Oob,
         NEW r \in Results("program", b), Write(b, p, d, o, r)
  PROVE  flash' \in Flash /\ cache' \in Cache /\ fails' \in Nat
<1> DEFINE c == Overlay(Read(flash, cache, b, p), d, o)
<1>1. c \in Cache
  BY ReadType, OverlayType DEF TypeOK
<1>2. AfterProgram(flash[b][p], c.data, c.oob, r) \in Page
  <2>1. c.data \in Data /\ c.oob \in Oob
    BY <1>1 DEF Cache
  <2>2. flash[b][p] \in Page
    BY DEF TypeOK, Flash
  <2>3. r \in {"ok"} \cup FailModes
    BY ResultsType
  <2> HIDE DEF c
  <2> QED
    BY <2>1, <2>2, <2>3, ProgramType
<1>3. flash' = [flash EXCEPT ![b][p] = AfterProgram(flash[b][p], c.data, c.oob, r)]
  BY DEF Write
<1>4. flash' \in Flash
  BY <1>2, <1>3 DEF TypeOK, Flash
<1> QED
  BY <1>1, <1>4, CountType DEF Write, TypeOK

LEMMA EraseStepType ==
  ASSUME TypeOK, NEW b \in Blocks, NEW r \in Results("erase", b), Erase(b, r)
  PROVE  flash' \in Flash /\ fails' \in Nat
<1>1. AfterErase(flash[b], r) \in [Pages -> Page]
  BY EraseType, ResultsType DEF TypeOK, Flash
<1> QED
  BY <1>1, CountType DEF Erase, TypeOK, Flash

LEMMA FillBufType ==
  ASSUME TypeOK, NEW b, cache' \in Cache, FillBuf(b)
  PROVE  buf' \in [data: Data, oob: Oob]
  BY DEF FillBuf, TypeOK, Cache

LEMMA MarkThenType ==
  ASSUME NEW b \in Blocks, NEW p \in Pages, NEW kind \in MarkKinds,
         NEW then \in MarkReturns, MarkThen(b, p, kind, then)
  PROVE  /\ mark' \in [blk: Blocks, page: Pages, kind: MarkKinds, then: MarkReturns]
         /\ pc' = "mark" /\ mark'.then = then /\ mark'.blk = b
  BY DEF MarkThen

LEMMA FindThenType ==
  ASSUME TypeOK, NEW fromEnd \in BOOLEAN, NEW then \in FindReturns, FindThen(fromEnd, then)
  PROVE  /\ find' \in [fromEnd: BOOLEAN, then: FindReturns]
         /\ pc' \in {"scan", "erasePool"} /\ i' \in Nat
  BY ChipFacts DEF FindThen, Start, TypeOK

LEMMA BmtPages ==
  ASSUME NEW d \in BmtPage
  PROVE  d.bmt \in Seq(Entry)
  BY DEF BmtPage

LEMMA BbtPages ==
  ASSUME NEW d \in BbtPage
  PROVE  d.bbt \in Seq(Blocks)
  BY DEF BbtPage

LEMMA TablePages ==
  /\ \A s \in Seq(Entry) : [bmt |-> s] \in Data
  /\ \A s \in Seq(Blocks) : [bbt |-> s] \in Data
  BY DEF BmtPage, BbtPage, Data

(* The first entry for a block exists when there is one. *)
LEMMA FirstIs ==
  ASSUME NEW S \in SUBSET Nat, S # {}
  PROVE  First(S) \in S
<1> DEFINE Less == OpToRel(<, Nat)
<1>1. IsWellFoundedOn(Less, Nat)
  BY NatLessThanWellFounded
<1>2. \A x, y \in Nat : <<y, x>> \in Less <=> y < x
  BY DEF OpToRel
<1> HIDE DEF Less
<1>3. PICK x \in S : \A y \in S : ~(<<y, x>> \in Less)
  BY <1>1, WFMin
<1>4. \A y \in S : x <= y
  <2> SUFFICES ASSUME NEW y \in S PROVE x <= y
    OBVIOUS
  <2>1. x \in Nat /\ y \in Nat
    BY <1>3
  <2>2. ~(y < x)
    BY <1>2, <1>3, <2>1, Zenon
  <2> QED
    BY <2>1, <2>2
<1> QED
  BY <1>4 DEF First

LEMMA ByBmtType ==
  ASSUME bmt \in Seq(Entry), NEW b \in Blocks
  PROVE  ByBmt(b) \in Blocks
<1> DEFINE hits == {m \in DOMAIN bmt : bmt[m].bad = b}
<1>1. DOMAIN bmt = 1 .. Len(bmt) /\ Len(bmt) \in Nat
  OBVIOUS
<1>2. CASE hits = {}
  BY <1>2 DEF ByBmt
<1>3. CASE hits # {}
  <2>1. First(hits) \in hits
    <3>1. hits \in SUBSET Nat
      BY <1>1
    <3> HIDE DEF hits
    <3> QED
      BY <1>3, <3>1, FirstIs
  <2>2. bmt[First(hits)] \in Entry
    BY <1>1, <2>1
  <2> QED
    BY <1>3, <2>2 DEF ByBmt, Entry
<1> QED
  BY <1>2, <1>3

(* create_badblock_table_by_bbt never numbers a block of the pool. *)
LEMMA TableBuiltType ==
  ASSUME NEW size \in Nat, NEW s \in Seq(Blocks)
  PROVE  TableBuilt(size, s) \in [0 .. size - Len(s) - 1 -> 0 .. size - 1]
<1>1. DOMAIN s = 1 .. Len(s) /\ Len(s) \in Nat
  OBVIOUS
<1> SUFFICES ASSUME NEW x \in 0 .. size - Len(s) - 1
             PROVE  (IF s # <<>> /\ s[1] >= size - Len(s) THEN x + 1
                     ELSE x + Cardinality({m \in DOMAIN s : s[m] - m + 1 <= x}))
                    \in 0 .. size - 1
  BY <1>1 DEF TableBuilt
<1> DEFINE Passed == {m \in DOMAIN s : s[m] - m + 1 <= x}
<1>2. CASE s # <<>> /\ s[1] >= size - Len(s)
  <2>1. Len(s) > 0
    BY <1>1, <1>2
  <2> QED
    BY <1>1, <1>2, <2>1
<1>3. CASE ~(s # <<>> /\ s[1] >= size - Len(s))
  <2>1. IsFiniteSet(1 .. Len(s)) /\ Cardinality(1 .. Len(s)) = Len(s)
    <3>1. /\ IsFiniteSet(1 .. Len(s))
          /\ Cardinality(1 .. Len(s)) = IF 1 > Len(s) THEN 0 ELSE Len(s) - 1 + 1
      <4>1. \A a, b \in Int : /\ IsFiniteSet(a .. b)
                              /\ Cardinality(a .. b) = IF a > b THEN 0 ELSE b - a + 1
        BY ONLY FS_Interval
      <4>2. 1 \in Int /\ Len(s) \in Int
        BY <1>1
      <4> QED
        BY <4>1, <4>2, Zenon
    <3> QED
      BY <1>1, <3>1
  <2>2. Passed \in SUBSET (1 .. Len(s))
    BY <1>1
  <2>3. IsFiniteSet(Passed) /\ Cardinality(Passed) <= Len(s)
    BY <2>1, <2>2, FS_Subset
  <2>4. Cardinality(Passed) \in Nat
    BY <2>3, FS_CardinalityType
  <2> HIDE DEF Passed
  <2>5. x + Cardinality(Passed) \in 0 .. size - 1
    BY <1>1, <2>3, <2>4
  <2> QED
    BY <1>3, <2>5 DEF Passed
<1> QED
  BY <1>2, <1>3

-----------------------------------------------------------------------------
(***************************************************************************)
(* Type correctness.                                                       *)
(***************************************************************************)
LEMMA TypeInit == Init => TypeInv
<1> SUFFICES ASSUME Init PROVE TypeInv
  OBVIOUS
<1>1. Blank \in Page /\ [Blank EXCEPT !.oob.raw = TRUE] \in Page
  BY OobFacts DEF Blank, Page, Data, Oob, CleanOob
<1>2. flash \in Flash
  BY <1>1 DEF Init, Flash
<1>3. cache \in Cache /\ buf \in [data: Data, oob: Oob]
  BY OobFacts DEF Init, PowerOn, ColdCache, Cache, NoPage, ZeroBuf, Data
<1>4. req \in Requests /\ mark \in [blk: Blocks, page: Pages, kind: MarkKinds, then: MarkReturns]
  BY OobFacts, ChipFacts DEF Init, PowerOn, None, Requests, NoMark, MarkKinds, MarkReturns
<1>5. find \in [fromEnd: BOOLEAN, then: FindReturns]
  BY DEF Init, PowerOn, NoFind, FindReturns
<1>6. ack \in [Blocks -> [Pages -> Values \cup {Erased, Unknown}]]
  BY DEF Init
<1>7. bmt \in Seq(Entry) /\ bbt \in Seq(Blocks)
  BY DEF Init, PowerOn
<1>8. TypeOK
  <2>1. /\ sys \in Blocks /\ bmtAt \in Blocks /\ bbtAt \in Blocks /\ found \in Blocks
        /\ i \in Int /\ n \in Nat /\ fails \in Nat /\ crashes \in Nat /\ ops \in Nat
    BY ChipFacts DEF Init, PowerOn
  <2>2. /\ poolErased \in BOOLEAN /\ needBmt \in BOOLEAN /\ needBbt \in BOOLEAN
        /\ pc \in Labels
    BY DEF Init, PowerOn, Labels
  <2> QED
    BY <1>2, <1>3, <1>4, <1>5, <1>6, <1>7, <2>1, <2>2 DEF TypeOK
<1>9. i \in 1 .. NBlocks - 1 /\ pc = "pool" /\ req.op = "boot"
  BY ChipFacts DEF Init, PowerOn, None
<1> QED
  BY <1>8, <1>9 DEF TypeInv, Counters, SetUpFirst, Numbered, At, Serving

(* Steps of set-up up to the numbering. *)
LEMMA SetUpType ==
  TypeInv /\ (CalcPool \/ LoadBmt \/ LoadBmtFails \/ CheckRaw \/ Reconstruct
              \/ ReconstructDone \/ LoadBbt \/ LoadBbtFails \/ ScanRaw \/ ScanRawDone)
  => TypeInv'
<1> SUFFICES ASSUME TypeInv,
                    CalcPool \/ LoadBmt \/ LoadBmtFails \/ CheckRaw \/ Reconstruct
                    \/ ReconstructDone \/ LoadBbt \/ LoadBbtFails \/ ScanRaw \/ ScanRawDone
             PROVE  TypeInv'
  OBVIOUS
<1> USE DEF TypeInv, Counters, SetUpFirst, Numbered, At, SettingUp, Serving,
            device, tables, layout, control, history
<1>1. TypeOK /\ 0 \in Pages
  BY ChipFacts
<1>2. CASE CalcPool
  <2>1. i \in Blocks
    BY <1>2, ChipFacts DEF CalcPool, Blocks
  <2>2. cache' \in Cache
    BY <1>1, <1>2, <2>1, LoadType DEF CalcPool
  <2>3. sys' \in Blocks /\ pc' \in {"pool", "dead", "loadBmt"} /\ n' \in Nat
        /\ (pc' = "pool" => i' \in 1 .. NBlocks - 1)
        /\ (pc' = "loadBmt" => i' <= NBlocks - 1) /\ i' \in Int
    BY <1>2, <2>1, ChipFacts DEF CalcPool, TypeOK, Blocks
  <2> QED
    BY <1>2, <2>2, <2>3 DEF CalcPool, TypeOK, Labels
<1>3. CASE LoadBmt
  <2>1. i \in Blocks
    BY <1>3, ChipFacts DEF LoadBmt, TypeOK, Blocks
  <2>2. cache' \in Cache
    BY <1>1, <1>3, <2>1, LoadType DEF LoadBmt
  <2>3. buf' \in [data: Data, oob: Oob]
    BY <1>1, <1>3, <2>2, FillBufType DEF LoadBmt, TypeOK
  <2>4. /\ bmt' \in Seq(Entry) /\ bmtAt' \in Blocks /\ i' \in Int
        /\ \/ pc' = "checkRaw" /\ i' >= 1
           \/ pc' = "loadBmt" /\ i' <= NBlocks - 1
    BY <1>3, <2>1, BmtPages, ChipFacts DEF LoadBmt, TypeOK, ValidBmt, Blocks
  <2> QED
    BY <1>3, <2>2, <2>3, <2>4 DEF LoadBmt, TypeOK, Labels
<1>4. CASE LoadBmtFails
  BY <1>4 DEF LoadBmtFails, TypeOK, Labels, Blocks
<1>5. CASE CheckRaw
  <2>1. CASE i <= Len(bmt)
    <3>1. bmt[i].bad \in Blocks
      <4>1. bmt \in Seq(Entry) /\ i \in Int /\ i >= 1
        BY <1>5 DEF CheckRaw, TypeOK
      <4>2. i \in 1 .. Len(bmt)
        BY <2>1, <4>1
      <4>3. bmt[i] \in Entry
        BY <4>1, <4>2
      <4> QED
        BY <4>3 DEF Entry
    <3>2. cache' \in Cache
      BY <1>1, <1>5, <2>1, <3>1, LoadType DEF CheckRaw
    <3>3. \/ UNCHANGED <<pc, mark>>
          \/ /\ mark' \in [blk: Blocks, page: Pages, kind: MarkKinds, then: MarkReturns]
             /\ pc' = "mark" /\ mark'.then = "checkRaw"
      BY <1>1, <1>5, <2>1, <3>1, MarkThenType DEF CheckRaw, MarkKinds, MarkReturns
    <3> QED
      BY <1>5, <2>1, <3>2, <3>3 DEF CheckRaw, TypeOK, Labels
  <2>2. CASE ~(i <= Len(bmt))
    BY <1>5, <2>2 DEF CheckRaw, TypeOK, Labels, Blocks
  <2> QED
    BY <2>1, <2>2
<1>6. CASE Reconstruct
  <2> DEFINE c     == Read(flash, cache, i, 0)
             b2    == IF ReadOk(flash, cache, i, 0)
                      THEN [data |-> c.data, oob |-> c.map] ELSE buf
             named == Named(b2.oob.idx, 0 .. sys - 1)
  <2>1. i \in Blocks
    BY <1>6, ChipFacts DEF Reconstruct, TypeOK, Blocks
  <2>2. c \in Cache
    BY <1>1, <2>1, ReadType DEF TypeOK
  <2>3. b2 \in [data: Data, oob: Oob]
    BY <2>2 DEF TypeOK, Cache
  <2>4. named \subseteq Blocks
    <3>1. 0 .. sys - 1 \subseteq Blocks
      BY ChipFacts DEF TypeOK, Blocks
    <3> QED
      BY <3>1 DEF Named
  <2> HIDE DEF c, b2, named
  <2>5. \/ cache' = c /\ UNCHANGED <<bmt, buf, pc, mark>>
        \/ cache' = c /\ buf' = b2 /\ UNCHANGED <<bmt, pc, mark>>
        \/ \E b \in named :
             /\ buf' = b2
             /\ cache' = Read(flash, c, b, 0)
             /\ bmt' = Append(bmt, [bad |-> b, mapped |-> i])
             /\ \/ UNCHANGED <<pc, mark>>
                \/ MarkThen(b, 0, "raw", "reconstruct")
    BY <1>6 DEF Reconstruct, c, b2, named
  <2>6. /\ cache' \in Cache /\ buf' \in [data: Data, oob: Oob] /\ bmt' \in Seq(Entry)
        /\ \/ UNCHANGED <<pc, mark>>
           \/ /\ mark' \in [blk: Blocks, page: Pages, kind: MarkKinds, then: MarkReturns]
              /\ pc' = "mark" /\ mark'.then = "reconstruct"
    <3>1. CASE \/ cache' = c /\ UNCHANGED <<bmt, buf, pc, mark>>
               \/ cache' = c /\ buf' = b2 /\ UNCHANGED <<bmt, pc, mark>>
      BY <2>2, <2>3, <3>1 DEF TypeOK
    <3>2. ASSUME NEW b \in named,
                 buf' = b2, cache' = Read(flash, c, b, 0),
                 bmt' = Append(bmt, [bad |-> b, mapped |-> i]),
                 \/ UNCHANGED <<pc, mark>>
                 \/ MarkThen(b, 0, "raw", "reconstruct")
          PROVE  /\ cache' \in Cache /\ buf' \in [data: Data, oob: Oob] /\ bmt' \in Seq(Entry)
                 /\ \/ UNCHANGED <<pc, mark>>
                    \/ /\ mark' \in [blk: Blocks, page: Pages, kind: MarkKinds, then: MarkReturns]
                       /\ pc' = "mark" /\ mark'.then = "reconstruct"
      <4>1. b \in Blocks /\ [bad |-> b, mapped |-> i] \in Entry
        BY <2>1, <2>4 DEF Entry
      <4>2. cache' \in Cache
        BY <1>1, <2>2, <3>2, <4>1, ReadType DEF TypeOK
      <4>3. bmt' \in Seq(Entry)
        BY <3>2, <4>1, AppendProperties DEF TypeOK
      <4> QED
        BY <1>1, <2>3, <3>2, <4>1, <4>2, <4>3, MarkThenType DEF MarkKinds, MarkReturns
    <3> QED
      BY <2>5, <3>1, <3>2
  <2> QED
    BY <1>6, <2>6 DEF Reconstruct, TypeOK, Labels
<1>7. CASE ReconstructDone
  BY <1>7 DEF ReconstructDone, TypeOK, Labels, Blocks
<1>8. CASE LoadBbt
  <2>1. i \in Blocks
    BY <1>8, ChipFacts DEF LoadBbt, TypeOK, Blocks
  <2>2. cache' \in Cache
    BY <1>1, <1>8, <2>1, LoadType DEF LoadBbt
  <2>3. buf' \in [data: Data, oob: Oob]
    BY <1>1, <1>8, <2>2, FillBufType DEF LoadBbt, TypeOK
  <2>4. bbt' \in Seq(Blocks) /\ bbtAt' \in Blocks /\ i' \in Int
        /\ (pc' = "save" \/ (pc' = "loadBbt" /\ i' >= 0))
    BY <1>8, <2>1, BbtPages, ChipFacts, SMTT(60) DEF LoadBbt, TypeOK, ValidBbt, Blocks
  <2> QED
    BY <1>8, <2>2, <2>3, <2>4 DEF LoadBbt, TypeOK, Labels
<1>9. CASE LoadBbtFails
  BY <1>9 DEF LoadBbtFails, TypeOK, Labels, Blocks
<1>10. CASE ScanRaw
  <2>1. i \in Blocks
    BY <1>10, ChipFacts DEF ScanRaw, TypeOK, Blocks
  <2>2. cache' \in Cache
    BY <1>1, <1>10, <2>1, LoadType DEF ScanRaw
  <2>3. bbt' \in Seq(Blocks)
    BY <1>10, <2>1, AppendProperties DEF ScanRaw, TypeOK
  <2> QED
    BY <1>10, <2>1, <2>2, <2>3 DEF ScanRaw, TypeOK, Labels, Blocks
<1>11. CASE ScanRawDone
  BY <1>11 DEF ScanRawDone, TypeOK, Labels
<1> QED
  BY <1>2, <1>3, <1>4, <1>5, <1>6, <1>7, <1>8, <1>9, <1>10, <1>11

(* Saving the tables, numbering, and finding a block. *)
LEMMA FindType ==
  TypeInv /\ (Save \/ FindBbtBlock \/ ProgramBbt \/ BuildTable
              \/ ErasePool \/ ErasePoolDone \/ Scan \/ ScanFails)
  => TypeInv'
<1> SUFFICES ASSUME TypeInv,
                    Save \/ FindBbtBlock \/ ProgramBbt \/ BuildTable
                    \/ ErasePool \/ ErasePoolDone \/ Scan \/ ScanFails
             PROVE  TypeInv'
  OBVIOUS
<1> USE DEF TypeInv, Counters, SetUpFirst, Numbered, At, SettingUp, Serving,
            Logical, LogicalCount, device, tables, layout, control, history
<1>1. TypeOK /\ 0 \in Pages
  BY ChipFacts
<1>2. CASE Save
  <2>1. [data |-> [bmt |-> bmt], oob |-> CleanOob] \in [data: Data, oob: Oob]
    BY TablePages, OobFacts DEF TypeOK
  <2> QED
    BY <1>2, <2>1 DEF Save, TypeOK, Labels
<1>3. CASE FindBbtBlock
  <2>1. [data |-> [bbt |-> bbt], oob |-> CleanOob] \in [data: Data, oob: Oob]
    BY TablePages, OobFacts DEF TypeOK
  <2>2. CASE needBbt
    <3>1. /\ find' \in [fromEnd: BOOLEAN, then: FindReturns]
          /\ pc' \in {"scan", "erasePool"} /\ i' \in Nat
      BY <1>1, <1>3, <2>2, FindThenType DEF FindBbtBlock, FindReturns
    <3> QED
      BY <1>3, <2>1, <2>2, <3>1 DEF FindBbtBlock, TypeOK, Labels
  <2> QED
    BY <1>3, <2>2 DEF FindBbtBlock, TypeOK, Labels
<1>4. CASE ProgramBbt
  <2>1. PICK r \in Results("program", found) :
          /\ Write(found, 0, buf.data, buf.oob, r)
          /\ IF r = "ok" THEN bbtAt' = found /\ pc' = "build" /\ UNCHANGED mark
             ELSE MarkThen(found, 0, "later", "saveBbt") /\ bbtAt' = 0
    BY <1>4 DEF ProgramBbt
  <2>2. flash' \in Flash /\ cache' \in Cache /\ fails' \in Nat
    BY <1>1, <2>1, WriteType DEF TypeOK
  <2>3. /\ bbtAt' \in Blocks
        /\ \/ pc' = "build" /\ UNCHANGED mark
           \/ /\ mark' \in [blk: Blocks, page: Pages, kind: MarkKinds, then: MarkReturns]
              /\ pc' = "mark" /\ mark'.then = "saveBbt"
    BY <1>1, <2>1, MarkThenType, ChipFacts DEF TypeOK, MarkKinds, MarkReturns
  <2> QED
    BY <1>4, <2>2, <2>3 DEF ProgramBbt, TypeOK, Labels
<1>5. CASE BuildTable
  <2>1. pBbt' \in [Logical -> 0 .. sys - 1]
    BY <1>5, TableBuiltType, ChipFacts DEF BuildTable, TypeOK, Logical, LogicalCount
  <2> QED
    BY <1>5, <2>1 DEF BuildTable, TypeOK, Labels, Logical, LogicalCount
<1>6. CASE ErasePool
  <2>1. i \in Blocks
    BY <1>6, ChipFacts DEF ErasePool, TypeOK, Blocks
  <2>2. CASE Holds(i)
    BY <1>6, <2>1, <2>2 DEF ErasePool, TypeOK, Blocks
  <2>3. CASE ~Holds(i)
    <3>1. cache' \in Cache
      BY <1>1, <1>6, <2>1, <2>3, LoadType DEF ErasePool
    <3>2. \/ UNCHANGED <<flash, pc, mark, fails>>
          \/ \E r \in Results("erase", i) :
               /\ Erase(i, r)
               /\ IF r = "ok" THEN UNCHANGED <<pc, mark>>
                  ELSE MarkThen(i, 0, "later", "erasePool")
      BY <1>6, <2>3 DEF ErasePool
    <3>3. /\ flash' \in Flash /\ fails' \in Nat
          /\ \/ UNCHANGED <<pc, mark>>
             \/ /\ mark' \in [blk: Blocks, page: Pages, kind: MarkKinds, then: MarkReturns]
                /\ pc' = "mark" /\ mark'.then = "erasePool"
      <4>1. CASE UNCHANGED <<flash, pc, mark, fails>>
        BY <4>1 DEF TypeOK
      <4>2. ASSUME NEW r \in Results("erase", i), Erase(i, r),
                   IF r = "ok" THEN UNCHANGED <<pc, mark>>
                   ELSE MarkThen(i, 0, "later", "erasePool")
            PROVE  /\ flash' \in Flash /\ fails' \in Nat
                   /\ \/ UNCHANGED <<pc, mark>>
                      \/ /\ mark' \in [blk: Blocks, page: Pages, kind: MarkKinds, then: MarkReturns]
                         /\ pc' = "mark" /\ mark'.then = "erasePool"
        BY <1>1, <2>1, <4>2, EraseStepType, MarkThenType DEF MarkKinds, MarkReturns
      <4> QED
        BY <3>2, <4>1, <4>2
    <3> QED
      BY <1>6, <2>1, <3>1, <3>3 DEF ErasePool, TypeOK, Labels, Blocks
  <2> QED
    BY <2>2, <2>3
<1>7. CASE ErasePoolDone
  BY <1>7, ChipFacts DEF ErasePoolDone, Start, TypeOK, Labels, Blocks
<1>8. CASE Scan
  <2>1. i \in Blocks
    BY <1>8, ChipFacts DEF Scan, Pool, TypeOK, Blocks
  <2>2. cache' \in Cache
    BY <1>1, <1>8, <2>1, LoadType DEF Scan, TypeOK
  <2>3. /\ i' \in Int /\ found' \in Blocks /\ pc' \in {"scan"} \cup FindReturns
        /\ pc' # "scan" => i' = 0
    BY <1>8, <2>1, ChipFacts DEF Scan, TypeOK, Blocks
  <2> QED
    BY <1>8, <2>2, <2>3 DEF Scan, TypeOK, Labels, FindReturns
<1>9. CASE ScanFails
  <2>1. pc' \in FindReturns /\ i' = 0 /\ found' \in Blocks
    BY <1>9, ChipFacts DEF ScanFails, TypeOK
  <2> QED
    BY <1>9, <2>1 DEF ScanFails, TypeOK, Labels, FindReturns
<1> QED
  BY <1>2, <1>3, <1>4, <1>5, <1>6, <1>7, <1>8, <1>9

(* update_bmt. *)
LEMMA WithIndexType == \A o \in Oob : WithIndex(o) \in Oob
  BY OobFacts DEF WithIndex

LEMMA UpdateType ==
  TypeInv /\ (Relocate \/ CopyPage \/ CopyLast \/ NothingFound \/ Remap
              \/ FindBmtBlock \/ PlaceBmt \/ EraseBmt \/ ProgramBmt \/ Mark)
  => TypeInv'
<1> SUFFICES ASSUME TypeInv,
                    Relocate \/ CopyPage \/ CopyLast \/ NothingFound \/ Remap
                    \/ FindBmtBlock \/ PlaceBmt \/ EraseBmt \/ ProgramBmt \/ Mark
             PROVE  TypeInv'
  OBVIOUS
<1> USE DEF TypeInv, Counters, SetUpFirst, Numbered, At, SettingUp, Serving,
            Logical, LogicalCount, device, tables, layout, control, history
<1>1. TypeOK /\ 0 \in Pages
  BY ChipFacts
<1> DEFINE Marking(then) ==
             /\ mark' \in [blk: Blocks, page: Pages, kind: MarkKinds, then: MarkReturns]
             /\ pc' = "mark" /\ mark'.then = then
<1>2. CASE Relocate
  <2>1. /\ find' \in [fromEnd: BOOLEAN, then: FindReturns]
        /\ pc' \in {"scan", "erasePool"} /\ i' \in Nat
    BY <1>1, <1>2, FindThenType DEF Relocate, FindReturns
  <2> QED
    BY <1>2, <2>1 DEF Relocate, TypeOK, Labels
<1>3. CASE CopyPage
  <2> DEFINE c  == Read(flash, cache, req.blk, i)
             b2 == IF ReadOk(flash, cache, req.blk, i)
                   THEN [data |-> c.data, oob |-> WithIndex(c.map)]
                   ELSE [buf EXCEPT !.oob = WithIndex(@)]
             w  == Overlay(Read(flash, c, found, i), b2.data, b2.oob)
  <2>1. i \in Pages /\ req.blk \in Blocks /\ found \in Blocks
    BY <1>3, ChipFacts, SMTT(60) DEF CopyPage, TypeOK, Requests, Pages
  <2>2. c \in Cache
    BY <2>1, ReadType DEF TypeOK
  <2>3. b2 \in [data: Data, oob: Oob]
    BY <2>2, WithIndexType DEF TypeOK, Cache
  <2>4. w \in Cache
    BY <2>1, <2>2, <2>3, ReadType, OverlayType DEF TypeOK
  <2> HIDE DEF c, b2, w
  <2>5. PICK r \in Results("program", found) :
          /\ buf' = b2 /\ cache' = w
          /\ flash' = [flash EXCEPT ![found][i] = AfterProgram(flash[found][i], w.data, w.oob, r)]
          /\ CountFail(found, r)
          /\ AfterCopy(r, i' = i + 1 /\ UNCHANGED <<pc, mark>>)
    BY <1>3 DEF CopyPage, c, b2, w
  <2>6. flash' \in Flash /\ fails' \in Nat
    <3>1. flash[found][i] \in Page /\ w.data \in Data /\ w.oob \in Oob
      BY <2>1, <2>4 DEF TypeOK, Flash, Cache
    <3>2. AfterProgram(flash[found][i], w.data, w.oob, r) \in Page
      BY <3>1, ProgramType, ResultsType
    <3> QED
      BY <2>1, <2>5, <3>2, CountType DEF TypeOK, Flash
  <2>7. \/ i' = i + 1 /\ UNCHANGED <<pc, mark>>
        \/ Marking("relocate") /\ UNCHANGED i
    BY <1>1, <2>1, <2>5, MarkThenType DEF AfterCopy, MarkKinds, MarkReturns
  <2>8. i' \in Nat
    BY <2>1, <2>7, ChipFacts
  <2>9. UNCHANGED <<tables, layout, n, find, found, history>> /\ pc = "copy"
    BY <1>3 DEF CopyPage
  <2>10. buf' \in [data: Data, oob: Oob] /\ cache' \in Cache
    BY <2>3, <2>4, <2>5
  <2> QED
    BY <2>6, <2>7, <2>8, <2>9, <2>10 DEF TypeOK, Labels
<1>4. CASE CopyLast
  <2>1. req.page \in Pages /\ req.data \in Data /\ req.oob \in Oob /\ found \in Blocks
    BY DEF TypeOK, Requests, Data
  <2>2. buf' \in [data: Data, oob: Oob]
    BY <1>4, <2>1, WithIndexType DEF CopyLast, TypeOK
  <2>3. PICK r \in Results("program", found) :
          /\ Write(found, req.page, req.data, buf'.oob, r)
          /\ AfterCopy(r, pc' = "remap" /\ UNCHANGED <<i, mark>>)
    BY <1>4 DEF CopyLast
  <2>4. flash' \in Flash /\ cache' \in Cache /\ fails' \in Nat
    BY <1>1, <2>1, <2>2, <2>3, WriteType
  <2>5. UNCHANGED i /\ ((pc' = "remap" /\ UNCHANGED mark) \/ Marking("relocate"))
    BY <1>1, <2>1, <2>3, MarkThenType DEF AfterCopy, MarkKinds, MarkReturns
  <2> QED
    BY <1>4, <2>2, <2>4, <2>5 DEF CopyLast, TypeOK, Labels
<1>5. CASE NothingFound
  BY <1>5 DEF NothingFound, TypeOK, Labels
<1>6. CASE Remap
  <2>1. bmt' \in Seq(Entry)
    <3>1. CASE bmt' = Append(bmt, [bad |-> req.blk, mapped |-> found])
      <4>1. [bad |-> req.blk, mapped |-> found] \in Entry
        BY DEF TypeOK, Requests, Entry
      <4> QED
        BY <3>1, <4>1, AppendProperties DEF TypeOK
    <3>2. CASE bmt' = [bmt EXCEPT ![First(MappedTo(req.blk))].mapped = found]
      <4> DEFINE m == First(MappedTo(req.blk))
      <4>1. CASE m \in 1 .. Len(bmt)
        <5>1. bmt[m] \in Entry
          BY <4>1 DEF TypeOK
        <5>2. [bmt[m] EXCEPT !.mapped = found] \in Entry
          BY <5>1 DEF Entry, TypeOK
        <5> HIDE DEF m
        <5>3. [bmt EXCEPT ![m] = [bmt[m] EXCEPT !.mapped = found]] \in Seq(Entry)
          BY <4>1, <5>2, ExceptSeq DEF TypeOK
        <5> QED
          BY <3>2, <5>3 DEF m
      <4>2. CASE m \notin 1 .. Len(bmt)
        <5>1. bmt' = bmt
          <6>1. bmt = [x \in DOMAIN bmt |-> bmt[x]] /\ DOMAIN bmt = 1 .. Len(bmt)
            BY DEF TypeOK
          <6> QED
            BY <3>2, <4>2, <6>1
        <5> QED
          BY <5>1 DEF TypeOK
      <4> QED
        BY <4>1, <4>2
    <3>3. CASE bmt' = bmt
      BY <3>3 DEF TypeOK
    <3> QED
      BY <1>6, <3>1, <3>2, <3>3 DEF Remap
  <2>2. buf' \in [data: Data, oob: Oob]
    BY <1>6, <2>1, TablePages, OobFacts DEF Remap
  <2> QED
    BY <1>6, <2>1, <2>2 DEF Remap, TypeOK, Labels
<1>7. CASE FindBmtBlock
  <2>1. /\ find' \in [fromEnd: BOOLEAN, then: FindReturns]
        /\ pc' \in {"scan", "erasePool"} /\ i' \in Nat
    BY <1>1, <1>7, FindThenType DEF FindBmtBlock, FindReturns
  <2> QED
    BY <1>7, <2>1 DEF FindBmtBlock, TypeOK, Labels
<1>8. CASE PlaceBmt
  BY <1>8 DEF PlaceBmt, TypeOK, Labels
<1>9. CASE EraseBmt
  <2>1. PICK r \in Results("erase", bmtAt) :
          /\ Erase(bmtAt, r)
          /\ IF r = "ok" THEN pc' = "programBmt" /\ UNCHANGED <<bmtAt, mark>>
             ELSE MarkThen(bmtAt, 0, "later", "writeBmt") /\ bmtAt' = 0
    BY <1>9 DEF EraseBmt
  <2>2. flash' \in Flash /\ fails' \in Nat
    BY <1>1, <2>1, EraseStepType DEF TypeOK
  <2>3. /\ bmtAt' \in Blocks
        /\ \/ pc' = "programBmt" /\ UNCHANGED mark
           \/ Marking("writeBmt")
    BY <1>1, <2>1, MarkThenType, ChipFacts DEF TypeOK, MarkKinds, MarkReturns
  <2> QED
    BY <1>9, <2>2, <2>3 DEF EraseBmt, TypeOK, Labels
<1>10. CASE ProgramBmt
  <2>1. PICK r \in Results("program", bmtAt) :
          /\ Write(bmtAt, 0, buf.data, buf.oob, r)
          /\ IF r # "ok"
             THEN MarkThen(bmtAt, 0, "later", "writeBmt") /\ bmtAt' = 0
             ELSE /\ UNCHANGED bmtAt
                  /\ IF req.op = "boot" THEN pc' = "saveBbt" /\ UNCHANGED mark
                     ELSE Retire
    BY <1>10 DEF ProgramBmt
  <2>2. flash' \in Flash /\ cache' \in Cache /\ fails' \in Nat
    BY <1>1, <2>1, WriteType DEF TypeOK
  <2>3. CASE MarkThen(bmtAt, 0, "later", "writeBmt") /\ bmtAt' = 0
    <3>1. Marking("writeBmt") /\ bmtAt' \in Blocks
      BY <1>1, <2>3, MarkThenType, ChipFacts DEF TypeOK, MarkKinds, MarkReturns
    <3> QED
      BY <1>10, <2>2, <3>1 DEF ProgramBmt, TypeOK, Labels
  <2>4. CASE UNCHANGED bmtAt /\ pc' = "saveBbt" /\ UNCHANGED mark
    BY <1>10, <2>2, <2>4 DEF ProgramBmt, TypeOK, Labels
  <2>5. CASE UNCHANGED bmtAt /\ req.op # "boot" /\ Retire
    <3>1. Marking("done")
      BY <1>1, <2>5, MarkThenType DEF Retire, TypeOK, Requests, MarkKinds, MarkReturns
    <3> QED
      BY <1>10, <2>2, <2>5, <3>1 DEF ProgramBmt, TypeOK, Labels
  <2> QED
    BY <2>1, <2>3, <2>4, <2>5
<1>11. CASE Mark
  <2>1. /\ mark.blk \in Blocks /\ mark.page \in Pages /\ mark.then \in MarkReturns
        /\ MarkOob(mark.kind) \in Oob
    BY OobFacts DEF TypeOK
  <2>2. Read(flash, cache, mark.blk, mark.page).data \in Data
    BY <2>1, ReadType DEF TypeOK, Cache
  <2>3. flash' \in Flash /\ cache' \in Cache /\ fails' \in Nat
    BY <1>1, <1>11, <2>1, <2>2, WriteType DEF Mark
  <2> QED
    BY <1>11, <2>1, <2>3 DEF Mark, TypeOK, Labels, MarkReturns
<1> QED
  BY <1>2, <1>3, <1>4, <1>5, <1>6, <1>7, <1>8, <1>9, <1>10, <1>11

(* Requests, and the loss of power. *)
LEMMA PhysicalType ==
  ASSUME TypeInv, pc = "ready", NEW l \in Logical
  PROVE  l \in Blocks /\ pBbt[l] \in Blocks /\ Physical(l) \in Blocks
<1>1. pBbt \in [Logical -> 0 .. sys - 1]
  BY DEF TypeInv, Numbered, At, Serving
<1>2. 0 .. sys - 1 \subseteq Blocks
  BY ChipFacts DEF TypeInv, TypeOK, Blocks
<1>3. Len(bbt) \in Nat /\ sys \in Nat
  BY ChipFacts DEF TypeInv, TypeOK
<1>4. l \in 0 .. sys - 1
  BY <1>3 DEF Logical, LogicalCount
<1> QED
  BY <1>1, <1>2, <1>4, ByBmtType DEF Physical, TypeInv, TypeOK

LEMMA ServeType ==
  TypeInv /\ (Serve \/ Request \/ PowerCut \/ UNCHANGED vars) => TypeInv'
<1> SUFFICES ASSUME TypeInv, Serve \/ Request \/ PowerCut \/ UNCHANGED vars
             PROVE  TypeInv'
  OBVIOUS
<1> USE DEF TypeInv, Counters, SetUpFirst, Numbered, At, SettingUp, Serving,
            Logical, LogicalCount, device, tables, layout, control, history
<1>1. TypeOK /\ 0 \in Pages
  BY ChipFacts
<1>2. CASE ProgramUser
  <2>1. PICK r \in Results("program", req.phys) :
          Write(req.phys, req.page, req.data, req.oob, r)
    BY <1>2 DEF ProgramUser
  <2>2. flash' \in Flash /\ cache' \in Cache /\ fails' \in Nat
    BY <1>1, <2>1, WriteType DEF TypeOK, Requests, Data
  <2>3. pc' \in {"done", "relocate"}
    BY <1>2 DEF ProgramUser
  <2> QED
    BY <1>2, <2>2, <2>3 DEF ProgramUser, TypeOK, Labels
<1>3. CASE EraseUser
  <2>1. flash' \in Flash /\ fails' \in Nat
    BY <1>1, <1>3, EraseStepType DEF EraseUser, TypeOK, Requests
  <2>2. pc' \in {"done", "relocate"}
    BY <1>3 DEF EraseUser
  <2> QED
    BY <1>3, <2>1, <2>2 DEF EraseUser, TypeOK, Labels
<1>4. None \in Requests /\ None.op = "boot"
  BY OobFacts, ChipFacts DEF None, Requests
<1>5. CASE Done
  <2>1. ack' \in [Blocks -> [Pages -> Values \cup {Erased, Unknown}]]
    BY <1>5 DEF Done, TypeOK, Requests
  <2> QED
    BY <1>4, <1>5, <2>1 DEF Done, TypeOK, Labels
<1>6. CASE Refuse
  BY <1>4, <1>6 DEF Refuse, TypeOK, Labels
<1>7. ASSUME NEW l \in Logical, BeginErase(l)
      PROVE  TypeInv'
  <2>1. l \in Blocks /\ Physical(l) \in Blocks
    BY <1>7, PhysicalType DEF BeginErase
  <2>2. req' \in Requests
    BY <1>4, <1>7, <2>1 DEF BeginErase, Requests
  <2>3. ack' \in [Blocks -> [Pages -> Values \cup {Erased, Unknown}]]
    BY <1>7, <2>1 DEF BeginErase, TypeOK
  <2>4. cache' \in Cache
    BY <1>7 DEF BeginErase, ClearCache, TypeOK, Cache, NoPage
  <2> QED
    BY <1>7, <2>2, <2>3, <2>4 DEF BeginErase, TypeOK, Labels
<1>8. ASSUME NEW l \in Logical, NEW p \in Pages, UserRead(l, p)
      PROVE  TypeInv'
  <2>1. cache' \in Cache
    BY <1>1, <1>8, PhysicalType, LoadType DEF UserRead
  <2> QED
    BY <1>8, <2>1 DEF UserRead, TypeOK
<1>9. ASSUME NEW l \in Logical, NEW p \in Pages, NEW v \in Values, BeginWrite(l, p, v)
      PROVE  TypeInv'
  <2>1. l \in Blocks /\ Physical(l) \in Blocks
    BY <1>9, PhysicalType DEF BeginWrite
  <2>2. (IF Physical(l) \in Pool THEN SetIdx(CleanOob, pBbt[l]) ELSE CleanOob) \in Oob
    BY OobFacts
  <2>3. req' \in Requests
    BY <1>9, <2>1, <2>2 DEF BeginWrite, Requests
  <2>4. ack' \in [Blocks -> [Pages -> Values \cup {Erased, Unknown}]]
    BY <1>9, <2>1 DEF BeginWrite, TypeOK
  <2>5. cache' \in Cache
    BY <1>9 DEF BeginWrite, ClearCache, TypeOK, Cache, NoPage
  <2> QED
    BY <1>9, <2>3, <2>4, <2>5 DEF BeginWrite, TypeOK, Labels
<1>10. CASE PowerCut
  <2>1. cache' \in Cache /\ buf' \in [data: Data, oob: Oob]
    BY <1>10, OobFacts DEF PowerCut, ColdCache, Cache, NoPage, ZeroBuf, Data
  <2>2. mark' \in [blk: Blocks, page: Pages, kind: MarkKinds, then: MarkReturns]
    BY <1>10, ChipFacts DEF PowerCut, NoMark, MarkKinds, MarkReturns
  <2>3. find' \in [fromEnd: BOOLEAN, then: FindReturns]
    BY <1>10 DEF PowerCut, NoFind, FindReturns
  <2>4. /\ bmt' \in Seq(Entry) /\ bbt' \in Seq(Blocks) /\ sys' \in Blocks
        /\ bmtAt' \in Blocks /\ bbtAt' \in Blocks /\ found' \in Blocks
        /\ i' \in 1 .. NBlocks - 1 /\ n' \in Nat /\ crashes' \in Nat
    BY <1>10, ChipFacts DEF PowerCut, TypeOK
  <2>5. pc' = "pool" /\ req' = None
    BY <1>10 DEF PowerCut
  <2>6. /\ poolErased' = FALSE /\ needBmt' = FALSE /\ needBbt' = FALSE
        /\ flash' = flash /\ ack' = ack /\ ops' = ops /\ fails' = fails
    BY <1>10 DEF PowerCut
  <2>7. TypeOK'
    <3>1. flash' \in Flash /\ ops' \in Nat /\ fails' \in Nat
      BY <2>6 DEF TypeOK
    <3>2. ack' \in [Blocks -> [Pages -> Values \cup {Erased, Unknown}]]
      BY <2>6 DEF TypeOK
    <3>3. pc' \in Labels /\ req' \in Requests /\ i' \in Int
      BY <1>4, <2>4, <2>5, ChipFacts DEF Labels
    <3>4. poolErased' \in BOOLEAN /\ needBmt' \in BOOLEAN /\ needBbt' \in BOOLEAN
      BY <2>6
    <3> QED
      BY <2>1, <2>2, <2>3, <2>4, <3>1, <3>2, <3>3, <3>4 DEF TypeOK
  <2>8. (Counters /\ SetUpFirst /\ Numbered)'
    BY <1>4, <2>4, <2>5, ChipFacts
  <2> QED
    BY <2>7, <2>8
<1>11. CASE UNCHANGED vars
  BY <1>11 DEF vars, TypeOK
<1> QED
  BY <1>2, <1>3, <1>5, <1>6, <1>7, <1>8, <1>9, <1>10, <1>11 DEF Serve, Request

LEMMA TypeNext == TypeInv /\ [Next]_vars => TypeInv'
  BY SetUpType, FindType, UpdateType, ServeType DEF Next, Driver, SetUp, Find, Update

(* The state is well typed whatever fails and whenever power goes: in      *)
(* particular every block number found in a table, in a spare area or by   *)
(* the search for a free block is one of the chip.  (bmt.c)                *)
THEOREM TypeInvariant == Spec => []TypeOK
<1>1. TypeInv => TypeOK
  BY DEF TypeInv
<1> QED
  BY <1>1, TypeInit, TypeNext, PTL DEF Spec

-----------------------------------------------------------------------------
(***************************************************************************)
(* Blocks in use are kept apart until power is lost.                       *)
(***************************************************************************)
LEMMA UndisturbedInit == Init => Undisturbed
<1> SUFFICES ASSUME Init PROVE Undisturbed
  OBVIOUS
<1>1. /\ bmt = <<>> /\ bmtAt = 0 /\ bbtAt = 0 /\ found = 0
      /\ pc = "pool" /\ req.op = "boot" /\ cache.page = NoPage
  BY DEF Init, PowerOn, ColdCache, None
<1>2. DOMAIN bmt = {}
  BY <1>1
<1>3. \A b \in Blocks, p \in Pages :
        flash[b][p].data = Erased /\ flash[b][p].oob.idx = IdxBits
  BY DEF Init, Blank, CleanOob
<1>4. InUseApart
  BY <1>1, <1>2 DEF InUseApart
<1> QED
  BY <1>1, <1>3, <1>4 DEF Undisturbed, FoundFree, BlankChip, MarkApart, Placed,
                          Homes, Targets, At, FindReturns

(* A step that changes no table and leaves the border of the pool alone.   *)
LEMMA TablesKept ==
  ASSUME UNCHANGED <<bmt, bmtAt, bbtAt>>
  PROVE  /\ InUseApart => InUseApart'
         /\ \A b : (Mapped(b)' <=> Mapped(b)) /\ (Holds(b)' <=> Holds(b))
  BY DEF InUseApart, Mapped, MappedTo, Holds

(* On a blank chip a read finds neither a table nor an index. *)
LEMMA BlankRead ==
  ASSUME BlankChip, pc \in SettingUp, NEW b \in Blocks, NEW p \in Pages
  PROVE  /\ Read(flash, cache, b, p).data = Erased
         /\ Read(flash, cache, b, p).map.idx = IdxBits
         /\ ReadOk(flash, cache, b, p)
<1>1. At \in SettingUp
  BY DEF At, SettingUp
<1>2. <<b, p>> # NoPage
  <2>1. <<b, p>>[1] = b /\ DOMAIN <<b, p>> = {1, 2} /\ DOMAIN NoPage = {}
    BY DEF NoPage
  <2> QED
    BY <2>1
<1>3. /\ flash[b][p].data = Erased /\ flash[b][p].oob.idx = IdxBits
      /\ cache.page # NoPage => cache.data = Erased /\ cache.map.idx = IdxBits
  BY <1>1 DEF BlankChip
<1> QED
  BY <1>2, <1>3, NandAssumption DEF Read, ReadOk

(* The steps of set-up that read the chip, as long as it is blank. *)
Reading == CalcPool \/ LoadBmt \/ LoadBmtFails \/ CheckRaw \/ Reconstruct
           \/ ReconstructDone \/ LoadBbt \/ LoadBbtFails \/ ScanRaw \/ ScanRawDone

LEMMA ReadingFinds ==
  ASSUME TypeInv, Undisturbed, Reading
  PROVE  /\ pc \in SettingUp /\ pc # "mark" /\ pc # "checkRaw" /\ req.op = "boot"
         /\ bmt = <<>> /\ bmtAt = 0 /\ bbtAt = 0
         /\ UNCHANGED <<flash, bmt, bmtAt, bbtAt, req, ack>>
         /\ pc' \in SettingUp \cup {"dead", "save"} /\ pc' # "checkRaw"
         /\ pc' \notin {"pool", "dead"} => sys' > 0
         /\ cache' = cache \/ \E b \in Blocks : cache' = Read(flash, cache, b, 0)
<1>1. pc \in SettingUp
  BY DEF Reading, CalcPool, LoadBmt, LoadBmtFails, CheckRaw, Reconstruct, ReconstructDone,
         LoadBbt, LoadBbtFails, ScanRaw, ScanRawDone, SettingUp
<1>2. /\ At \in SettingUp /\ req.op = "boot" /\ pc # "mark" /\ pc # "checkRaw"
      /\ bmt = <<>> /\ bmtAt = 0 /\ bbtAt = 0
  BY <1>1 DEF At, SettingUp, TypeInv, SetUpFirst, Undisturbed, BlankChip
<1>3. UNCHANGED <<flash, req, ack>>
  BY DEF Reading, CalcPool, LoadBmt, LoadBmtFails, CheckRaw, Reconstruct, ReconstructDone,
         LoadBbt, LoadBbtFails, ScanRaw, ScanRawDone, device, history
<1>5. /\ 0 \in Pages /\ (pc = "pool" => i \in Blocks) /\ (pc = "loadBmt" /\ i >= sys => i \in Blocks)
      /\ (pc \in {"reconstruct", "loadBbt"} /\ i < NBlocks => i \in Blocks)
      /\ (pc = "scanRaw" /\ i < sys => i \in Blocks)
  BY ChipFacts DEF TypeInv, TypeOK, Counters, At, Blocks
<1>6. /\ bmt' = bmt /\ bmtAt' = bmtAt /\ bbtAt' = bbtAt
      /\ pc' \in SettingUp \cup {"dead", "save"} /\ pc' # "checkRaw"
      /\ pc' \notin {"pool", "dead"} => sys' > 0
      /\ cache' = cache \/ \E b \in Blocks : cache' = Read(flash, cache, b, 0)
  <2>1. CASE CalcPool
    BY <1>2, <1>5, <2>1, ChipFacts, BmtAssumption
    DEF CalcPool, Load, tables, SettingUp, TypeInv, Counters, At
  <2>2. CASE LoadBmt
    <3>1. i \in Blocks /\ cache' = Read(flash, cache, i, 0) /\ cache'.data = Erased
      BY <1>1, <1>5, <2>2, BlankRead DEF LoadBmt, Load, Undisturbed
    <3>2. ~ValidBmt(cache'.data)
      BY <3>1, ErasedAssumption DEF ValidBmt
    <3> QED
      BY <1>2, <2>2, <3>1, <3>2 DEF LoadBmt, layout, SettingUp, Undisturbed, Homes
  <2>3. CASE LoadBmtFails
    BY <1>2, <2>3 DEF LoadBmtFails, device, tables, SettingUp, Undisturbed, Homes
  <2>4. CASE CheckRaw
    BY <1>2, <2>4 DEF CheckRaw
  <2>5. CASE Reconstruct
    <3> DEFINE c == Read(flash, cache, i, 0)
    <3>1. i \in Blocks /\ c.map.idx = IdxBits /\ ReadOk(flash, cache, i, 0)
      BY <1>1, <1>5, <2>5, BlankRead DEF Reconstruct, Undisturbed
    <3>2. 0 .. sys - 1 \subseteq Blocks
      BY ChipFacts DEF TypeInv, TypeOK, Blocks
    <3>3. Named(c.map.idx, 0 .. sys - 1) = {}
      BY <3>1, <3>2, IndexAssumption DEF Named
    <3> HIDE DEF c
    <3>4. cache' = c /\ UNCHANGED <<bmt, pc>>
      BY <2>5, <3>1, <3>3 DEF Reconstruct, c
    <3> QED
      BY <1>2, <2>5, <3>1, <3>4 DEF Reconstruct, layout, SettingUp, Undisturbed, Homes, c
  <2>6. CASE ReconstructDone
    BY <1>2, <2>6 DEF ReconstructDone, device, tables, layout, SettingUp, Undisturbed, Homes
  <2>7. CASE LoadBbt
    <3>1. i \in Blocks /\ cache' = Read(flash, cache, i, 0) /\ cache'.data = Erased
      BY <1>1, <1>5, <2>7, BlankRead DEF LoadBbt, Load, Undisturbed
    <3>2. ~ValidBbt(cache'.data)
      BY <3>1, ErasedAssumption DEF ValidBbt
    <3> QED
      BY <1>2, <2>7, <3>1, <3>2 DEF LoadBbt, layout, SettingUp, Undisturbed, Homes
  <2>8. CASE LoadBbtFails
    BY <1>2, <2>8 DEF LoadBbtFails, device, tables, SettingUp, Undisturbed, Homes
  <2>9. CASE ScanRaw
    BY <1>2, <1>5, <2>9 DEF ScanRaw, Load, layout, SettingUp, Undisturbed, Homes
  <2>10. CASE ScanRawDone
    BY <1>2, <2>10 DEF ScanRawDone, device, tables, layout, SettingUp, Undisturbed, Homes
  <2> QED
    BY <2>1, <2>2, <2>3, <2>4, <2>5, <2>6, <2>7, <2>8, <2>9, <2>10 DEF Reading
<1> QED
  BY <1>1, <1>2, <1>3, <1>6

LEMMA SetUpUndisturbed ==
  TypeInv /\ Undisturbed /\ Reading => Undisturbed' /\ KeepsReplacements
<1> SUFFICES ASSUME TypeInv, Undisturbed, Reading
             PROVE  Undisturbed' /\ KeepsReplacements
  OBVIOUS
<1>1. /\ pc \in SettingUp /\ bmt = <<>> /\ bmtAt = 0 /\ bbtAt = 0 /\ req.op = "boot"
      /\ UNCHANGED <<flash, bmt, bmtAt, bbtAt, req>>
      /\ pc' \in SettingUp \cup {"dead", "save"} /\ pc' # "checkRaw"
      /\ pc' \notin {"pool", "dead"} => sys' > 0
      /\ cache' = cache \/ \E b \in Blocks : cache' = Read(flash, cache, b, 0)
  BY ReadingFinds
<1>2. At \in SettingUp
  BY <1>1 DEF At, SettingUp
<1>3. cache'.page # NoPage => cache'.data = Erased /\ cache'.map.idx = IdxBits
  BY <1>1, <1>2, ChipFacts, BlankRead DEF Undisturbed, BlankChip
<1>4. BlankChip'
  BY <1>1, <1>2, <1>3 DEF Undisturbed, BlankChip, At, SettingUp
<1>5. InUseApart'
  BY <1>1, TablesKept DEF Undisturbed
<1> QED
  BY <1>1, <1>4, <1>5
  DEF Undisturbed, FoundFree, MarkApart, Placed, Homes, Targets, SettingUp, FindReturns,
      KeepsReplacements

(* A step outside set-up that changes no table and neither the border of   *)
(* the pool nor the request.                                               *)
LEMMA QuietStep ==
  ASSUME Undisturbed, pc \notin SettingUp \cup {"dead"},
         UNCHANGED <<bmt, bmtAt, bbtAt, sys, req>>, At' \notin SettingUp,
         FoundFree', MarkApart', Placed'
  PROVE  Undisturbed'
<1>1. InUseApart'
  BY TablesKept DEF Undisturbed
<1>2. BlankChip' /\ Homes' /\ Targets'
  BY DEF Undisturbed, BlankChip, Homes, Targets, SettingUp
<1> QED
  BY <1>1, <1>2 DEF Undisturbed

(* Only the labels of set-up are in SettingUp. *)
LEMMA SettingUpLabels ==
  /\ SettingUp \cap FindReturns = {}
  /\ SettingUp \cap {"save", "saveBbt", "build", "erasePool", "scan", "relocate",
                     "writeBmt", "programBmt", "mark", "program", "erase", "done",
                     "refused", "ready", "dead"} = {}
  /\ FindReturns \cap (MarkReturns \cup {"mark"}) = {}
  BY DEF SettingUp, FindReturns, MarkReturns

(* The end of set-up. *)
LEMMA SavingUndisturbed ==
  TypeInv /\ Undisturbed /\ (Save \/ FindBbtBlock \/ ProgramBbt \/ BuildTable)
  => Undisturbed' /\ KeepsReplacements
<1> SUFFICES ASSUME TypeInv, Undisturbed, Save \/ FindBbtBlock \/ ProgramBbt \/ BuildTable
             PROVE  Undisturbed' /\ KeepsReplacements
  OBVIOUS
<1> USE DEF device, tables, layout, control, history
<1>1. CASE Save \/ FindBbtBlock \/ BuildTable
  <2>1. /\ pc \in {"save", "saveBbt", "build"}
        /\ UNCHANGED <<flash, bmt, bmtAt, bbtAt, sys, req>>
        /\ pc' \in {"writeBmt", "saveBbt", "erasePool", "scan", "build", "ready"}
    BY <1>1 DEF Save, FindBbtBlock, BuildTable, FindThen
  <2>2. /\ At' \notin SettingUp /\ pc \notin SettingUp \cup {"dead"}
        /\ FoundFree' /\ MarkApart' /\ Placed'
    BY <2>1, SettingUpLabels DEF At, FoundFree, MarkApart, Placed, FindReturns
  <2> QED
    BY <2>1, <2>2, QuietStep DEF KeepsReplacements
<1>2. CASE ProgramBbt
  <2>1. /\ pc = "programBbt" /\ found \in Pool /\ ~Mapped(found) /\ ~Holds(found)
        /\ UNCHANGED <<bmt, bmtAt, sys, req>>
    BY <1>2 DEF ProgramBbt, Undisturbed, FoundFree, FindReturns
  <2>2. \A b \in Pool : b # found => flash'[b] = flash[b]
    BY <1>2, ChipFacts DEF ProgramBbt, Write, TypeInv, TypeOK, Flash, Pool, Blocks
  <2>3. /\ bbtAt' \in {found, 0}
        /\ \/ pc' = "build"
           \/ pc' = "mark" /\ mark'.then = "saveBbt" /\ mark'.blk = found
    BY <1>2 DEF ProgramBbt, MarkThen
  <2>4. \A b : Mapped(b)' <=> Mapped(b)
    BY <2>1 DEF Mapped, MappedTo
  <2>5. InUseApart'
    BY <2>1, <2>3, <2>4 DEF Undisturbed, InUseApart, Holds
  <2>6. At' \notin SettingUp
    BY <2>3, SettingUpLabels DEF At, SettingUp
  <2>7. FoundFree' /\ BlankChip' /\ MarkApart' /\ Placed' /\ Homes' /\ Targets'
    BY <2>1, <2>3, <2>4, <2>6
    DEF Undisturbed, FoundFree, BlankChip, MarkApart, Placed, Homes, Targets, FindReturns
  <2> QED
    BY <2>1, <2>2, <2>5, <2>7 DEF KeepsReplacements, Undisturbed
<1> QED
  BY <1>1, <1>2

(* The search for a free block. *)
LEMMA FindUndisturbed ==
  TypeInv /\ Undisturbed /\ (ErasePool \/ ErasePoolDone \/ Scan \/ ScanFails)
  => Undisturbed' /\ KeepsReplacements
<1> SUFFICES ASSUME TypeInv, Undisturbed, ErasePool \/ ErasePoolDone \/ Scan \/ ScanFails
             PROVE  Undisturbed' /\ KeepsReplacements
  OBVIOUS
<1> USE DEF device, tables, layout, control, history
<1>1. /\ pc \in {"erasePool", "scan"}
      /\ UNCHANGED <<bmt, bmtAt, bbtAt, sys, req, find>>
  BY DEF ErasePool, ErasePoolDone, Scan, ScanFails
<1>2. pc \notin SettingUp \cup {"dead"}
  BY <1>1, SettingUpLabels
<1>3. \A b : (Mapped(b)' <=> Mapped(b)) /\ (Holds(b)' <=> Holds(b))
  BY <1>1, TablesKept
<1>4. CASE ErasePool
  <2>1. /\ flash' = flash \/ (~Mapped(i) /\ \A b \in Blocks : b # i => flash'[b] = flash[b])
        /\ \/ pc' = "erasePool"
           \/ pc' = "mark" /\ mark'.blk = i /\ mark'.then = "erasePool" /\ ~Mapped(i)
    BY <1>1, <1>4 DEF ErasePool, Erase, MarkThen, Unusable, TypeInv, TypeOK, Flash
  <2>2. At' \notin SettingUp /\ FoundFree' /\ MarkApart' /\ Placed'
    BY <1>3, <2>1, SettingUpLabels DEF At, FoundFree, MarkApart, Placed, FindReturns
  <2>3. KeepsReplacements
    BY <2>1, ChipFacts DEF KeepsReplacements, Pool, Blocks, TypeInv, TypeOK
  <2> QED
    BY <1>1, <1>2, <2>2, <2>3, QuietStep
<1>5. CASE ErasePoolDone \/ ScanFails \/ Scan
  <2>1. /\ flash' = flash
        /\ \/ pc' = "scan"
           \/ pc' = find.then /\ found' = 0
           \/ pc' = find.then /\ found' = i /\ i \in Pool /\ ~Mapped(i) /\ ~Holds(i)
    BY <1>1, <1>5 DEF ErasePoolDone, Scan, ScanFails, Unusable
  <2>2. find.then \in FindReturns
    BY DEF TypeInv, TypeOK
  <2>3. Pool' = Pool
    BY <1>1 DEF Pool
  <2>4. At' \notin SettingUp /\ FoundFree' /\ MarkApart' /\ Placed'
    BY <1>3, <2>1, <2>2, <2>3, SettingUpLabels DEF At, FoundFree, MarkApart, Placed, FindReturns
  <2> QED
    BY <1>1, <1>2, <2>1, <2>4, QuietStep DEF KeepsReplacements
<1> QED
  BY <1>4, <1>5

(* A step that writes or erases one block, apart from the replacements of  *)
(* other requests.                                                         *)
LEMMA OneBlock ==
  ASSUME TypeInv, NEW blk, blk \notin Pool \/ ~Mapped(blk) \/ blk = req.phys,
         \A b \in Blocks : b # blk => flash'[b] = flash[b]
  PROVE  KeepsReplacements
<1>1. sys \in Nat
  BY ChipFacts DEF TypeInv, TypeOK
<1>2. Pool \subseteq Blocks
  BY <1>1, ChipFacts DEF Pool, Blocks
<1> QED
  BY <1>2 DEF KeepsReplacements

LEMMA WriteOneBlock ==
  ASSUME flash \in Flash, NEW blk \in Blocks, NEW p, NEW d, NEW o, NEW r,
         Write(blk, p, d, o, r)
  PROVE  \A b \in Blocks : b # blk => flash'[b] = flash[b]
  BY DEF Write, Flash

LEMMA EraseOneBlock ==
  ASSUME flash \in Flash, NEW blk \in Blocks, NEW r, Erase(blk, r)
  PROVE  \A b \in Blocks : b # blk => flash'[b] = flash[b]
  BY DEF Erase, Flash

(* The block that a request gave up may be marked. *)
LEMMA RetireApart ==
  ASSUME TypeInv, Undisturbed, Retire, req.op # "boot", UNCHANGED <<bmt, sys, req>>
  PROVE  /\ pc' = "mark" /\ mark'.then = "done"
         /\ (mark'.blk \notin Pool \/ ~Mapped(mark'.blk) \/ mark'.blk = req.phys)
<1>1. pc' = "mark" /\ mark'.then = "done" /\ mark'.blk = req.blk
  BY DEF Retire, MarkThen
<1>2. req.op \in {"write", "erase"}
  BY DEF TypeInv, TypeOK, Requests
<1>3. req.blk = req.phys \/ req.blk < sys
  BY <1>2 DEF Undisturbed, Targets
<1>4. req.blk < sys => req.blk \notin Pool
  BY ChipFacts DEF Pool, TypeInv, TypeOK, Requests
<1> QED
  BY <1>1, <1>3, <1>4

(* Adding the found block to the BMT, or putting it in the place of the    *)
(* block that failed, replaces no two blocks by one.                       *)
LEMMA RemapApart ==
  ASSUME TypeInv, Undisturbed, Remap
  PROVE  InUseApart'
<1>1. /\ pc = "remap" /\ found # 0 /\ UNCHANGED <<bmtAt, bbtAt>>
      /\ ~Mapped(found) /\ ~Holds(found)
  BY DEF Remap, Undisturbed, FoundFree, FindReturns
<1>2. /\ bmt \in Seq(Entry) /\ DOMAIN bmt = 1 .. Len(bmt) /\ Len(bmt) \in Nat
      /\ found \in Blocks /\ req.blk \in Blocks
  BY DEF TypeInv, TypeOK, Requests
<1>3. \A m \in DOMAIN bmt : bmt[m].mapped # found
  BY <1>1 DEF Mapped, MappedTo
<1>4. /\ \A x, y \in DOMAIN bmt : bmt[x].mapped = bmt[y].mapped => x = y
      /\ \A b \in {bmtAt, bbtAt} \ {0} : \A m \in DOMAIN bmt : bmt[m].mapped # b
      /\ bmtAt = bbtAt => bmtAt = 0
  BY DEF Undisturbed, InUseApart, Mapped, MappedTo
<1>5. found \notin {bmtAt, bbtAt}
  BY <1>1 DEF Holds
<1>6. /\ \A x, y \in DOMAIN bmt' : bmt'[x].mapped = bmt'[y].mapped => x = y
      /\ \A b \in {bmtAt, bbtAt} \ {0} : \A m \in DOMAIN bmt' : bmt'[m].mapped # b
  <2>1. CASE req.blk < sys
    <3> DEFINE e == [bad |-> req.blk, mapped |-> found]
    <3>1. bmt' = Append(bmt, e) /\ e \in Entry /\ e.mapped = found
      BY <1>2, <2>1 DEF Remap, Entry
    <3> HIDE DEF e
    <3>2. /\ DOMAIN bmt' = 1 .. Len(bmt) + 1 /\ bmt'[Len(bmt) + 1] = e
          /\ \A m \in DOMAIN bmt : bmt'[m] = bmt[m]
      BY <1>2, <3>1
    <3>3. \A m \in DOMAIN bmt' : m \in DOMAIN bmt \/ m = Len(bmt) + 1
      BY <1>2, <3>2
    <3>4. bmt'[Len(bmt) + 1].mapped = found
      BY <3>1, <3>2
    <3> QED
      BY <1>3, <1>4, <1>5, <3>2, <3>3, <3>4, Zenon
  <2>2. CASE ~(req.blk < sys) /\ Mapped(req.blk)
    <3> DEFINE k == First(MappedTo(req.blk))
    <3>1. bmt' = [bmt EXCEPT ![k].mapped = found]
      BY <2>2 DEF Remap
    <3>2. k \in DOMAIN bmt
      <4>1. MappedTo(req.blk) \in SUBSET Nat /\ MappedTo(req.blk) # {}
        BY <1>2, <2>2 DEF MappedTo, Mapped
      <4>2. k \in MappedTo(req.blk)
        BY <4>1, FirstIs
      <4> QED
        BY <4>2 DEF MappedTo
    <3> HIDE DEF k
    <3>3. /\ DOMAIN bmt' = DOMAIN bmt /\ bmt'[k].mapped = found
          /\ \A m \in DOMAIN bmt \ {k} : bmt'[m] = bmt[m]
      BY <1>2, <3>1, <3>2 DEF Entry
    <3> QED
      BY <1>3, <1>4, <1>5, <3>2, <3>3
  <2>3. CASE ~(req.blk < sys) /\ ~Mapped(req.blk)
    <3>1. bmt' = bmt
      BY <2>3 DEF Remap
    <3> QED
      BY <1>4, <3>1
  <2> QED
    BY <2>1, <2>2, <2>3
<1> QED
  BY <1>1, <1>4, <1>6 DEF InUseApart, Mapped, MappedTo

(* update_bmt and the writing of the BMT. *)
LEMMA UpdateUndisturbed ==
  TypeInv /\ Undisturbed
  /\ (Relocate \/ CopyPage \/ CopyLast \/ NothingFound \/ Remap
      \/ FindBmtBlock \/ PlaceBmt \/ EraseBmt \/ ProgramBmt \/ Mark)
  => Undisturbed' /\ KeepsReplacements
<1> SUFFICES ASSUME TypeInv, Undisturbed,
                    Relocate \/ CopyPage \/ CopyLast \/ NothingFound \/ Remap
                    \/ FindBmtBlock \/ PlaceBmt \/ EraseBmt \/ ProgramBmt \/ Mark
             PROVE  Undisturbed' /\ KeepsReplacements
  OBVIOUS
<1> USE DEF device, tables, layout, control, history
<1>1. flash \in Flash /\ found \in Blocks /\ bmtAt \in Blocks /\ mark.blk \in Blocks
  BY DEF TypeInv, TypeOK
<1>2. CASE Relocate \/ FindBmtBlock \/ NothingFound
  <2>1. /\ UNCHANGED <<flash, bmt, bmtAt, bbtAt, sys, req>>
        /\ pc \notin SettingUp \cup {"dead"}
        /\ pc' \in {"scan", "erasePool", "refused"}
    BY <1>2 DEF Relocate, FindBmtBlock, NothingFound, FindThen, SettingUp
  <2>2. At' \notin SettingUp /\ FoundFree' /\ MarkApart' /\ Placed'
    BY <2>1, SettingUpLabels DEF At, FoundFree, MarkApart, Placed, FindReturns
  <2> QED
    BY <2>1, <2>2, QuietStep DEF KeepsReplacements
<1>3. CASE CopyPage \/ CopyLast
  <2>1. /\ pc = "copy" /\ found # 0 /\ ~Mapped(found)
        /\ UNCHANGED <<bmt, bmtAt, bbtAt, sys, req, found>>
    BY <1>3 DEF CopyPage, CopyLast, Undisturbed, FoundFree, FindReturns
  <2>2. /\ \/ pc' \in {"copy", "remap"}
           \/ pc' = "mark" /\ mark'.then = "relocate" /\ mark'.blk = found
        /\ \A b \in Blocks : b # found => flash'[b] = flash[b]
    <3>1. CASE CopyPage
      BY <1>1, <2>1, <3>1 DEF CopyPage, AfterCopy, MarkThen, Flash
    <3>2. CASE CopyLast
      <4>1. PICK r \in Results("program", found) :
              /\ Write(found, req.page, req.data, buf'.oob, r)
              /\ AfterCopy(r, pc' = "remap" /\ UNCHANGED <<i, mark>>)
        BY <3>2 DEF CopyLast
      <4>2. \A b \in Blocks : b # found => flash'[b] = flash[b]
        BY <1>1, <4>1, WriteOneBlock
      <4> QED
        BY <4>1, <4>2 DEF AfterCopy, MarkThen
    <3> QED
      BY <1>3, <3>1, <3>2
  <2>3. \A b : (Mapped(b)' <=> Mapped(b)) /\ (Holds(b)' <=> Holds(b))
    BY <2>1, TablesKept
  <2>4. Pool' = Pool
    BY <2>1 DEF Pool
  <2>5. At' \notin SettingUp /\ FoundFree' /\ MarkApart' /\ Placed'
    BY <2>1, <2>2, <2>3, <2>4, SettingUpLabels
    DEF At, Undisturbed, FoundFree, MarkApart, Placed, FindReturns, SettingUp
  <2>6. pc \notin SettingUp \cup {"dead"}
    BY <2>1 DEF SettingUp
  <2> QED
    BY <2>1, <2>2, <2>5, <2>6, QuietStep, OneBlock
<1>4. CASE Remap
  <2>1. pc = "remap" /\ pc' = "writeBmt" /\ UNCHANGED <<flash, sys, req>>
    BY <1>4 DEF Remap
  <2>2. FoundFree' /\ BlankChip' /\ MarkApart' /\ Placed' /\ Homes' /\ Targets'
    BY <2>1 DEF Undisturbed, FoundFree, BlankChip, MarkApart, Placed, Homes, Targets,
                At, SettingUp, FindReturns
  <2> QED
    BY <1>4, <2>1, <2>2, RemapApart DEF Undisturbed, KeepsReplacements
<1>5. CASE PlaceBmt
  <2>1. /\ pc = "placeBmt" /\ found # 0 /\ ~Mapped(found) /\ ~Holds(found)
        /\ pc' = "programBmt" /\ bmtAt' = found
        /\ UNCHANGED <<flash, sys, req, bmt, bbtAt>>
    BY <1>5 DEF PlaceBmt, Undisturbed, FoundFree, FindReturns
  <2>2. InUseApart'
    BY <2>1 DEF Undisturbed, InUseApart, Holds, Mapped, MappedTo
  <2>3. FoundFree' /\ BlankChip' /\ MarkApart' /\ Placed' /\ Homes' /\ Targets'
    BY <2>1 DEF Undisturbed, FoundFree, BlankChip, MarkApart, Placed, Homes, Targets,
                At, SettingUp, FindReturns
  <2> QED
    BY <2>1, <2>2, <2>3 DEF Undisturbed, KeepsReplacements
<1>6. CASE EraseBmt \/ ProgramBmt
  <2>1. /\ pc \in {"writeBmt", "programBmt"} /\ bmtAt # 0
        /\ UNCHANGED <<sys, req, bmt, bbtAt>>
    BY <1>6 DEF EraseBmt, ProgramBmt, Undisturbed, Placed
  <2>2. ~Mapped(bmtAt)
    BY <2>1 DEF Undisturbed, InUseApart
  <2>3. \A b \in Blocks : b # bmtAt => flash'[b] = flash[b]
    <3>1. CASE EraseBmt
      BY <1>1, <3>1, EraseOneBlock DEF EraseBmt
    <3>2. CASE ProgramBmt
      <4>1. PICK r \in Results("program", bmtAt) : Write(bmtAt, 0, buf.data, buf.oob, r)
        BY <3>2 DEF ProgramBmt
      <4> QED
        BY <1>1, <4>1, WriteOneBlock
    <3> QED
      BY <1>6, <3>1, <3>2
  <2>4. \/ UNCHANGED bmtAt /\ pc' \in {"programBmt", "saveBbt"}
        \/ UNCHANGED bmtAt /\ req.op # "boot" /\ Retire
        \/ bmtAt' = 0 /\ pc' = "mark" /\ mark'.then = "writeBmt" /\ mark'.blk = bmtAt
    BY <1>6 DEF EraseBmt, ProgramBmt, MarkThen
  <2>5. \A b : Mapped(b)' <=> Mapped(b)
    BY <2>1 DEF Mapped, MappedTo
  <2>6. InUseApart'
    BY <2>1, <2>4, <2>5 DEF Undisturbed, InUseApart
  <2>7. Pool' = Pool
    BY <2>1 DEF Pool
  <2>8. /\ pc' \in {"programBmt", "saveBbt", "mark"}
        /\ pc' = "mark" => mark'.then \in {"done", "writeBmt"}
        /\ MarkApart'
        /\ pc' = "programBmt" => UNCHANGED bmtAt
    <3>1. CASE UNCHANGED bmtAt /\ req.op # "boot" /\ Retire
      BY <2>1, <2>5, <2>7, <3>1, RetireApart DEF MarkApart
    <3>2. CASE ~(UNCHANGED bmtAt /\ req.op # "boot" /\ Retire)
      BY <2>2, <2>4, <2>5, <3>2 DEF MarkApart
    <3> QED
      BY <3>1, <3>2
  <2>9. FoundFree' /\ BlankChip' /\ Placed' /\ Homes' /\ Targets'
    BY <2>1, <2>8 DEF Undisturbed, FoundFree, BlankChip, Placed, Homes, Targets,
                      At, SettingUp, FindReturns
  <2> QED
    BY <2>2, <2>3, <2>6, <2>8, <2>9, OneBlock DEF Undisturbed
<1>7. CASE Mark
  <2>1. /\ pc = "mark" /\ pc' = mark.then /\ mark.then \in MarkReturns
        /\ UNCHANGED <<bmt, bmtAt, bbtAt, sys, req, found>>
    BY <1>7 DEF Mark, TypeInv, TypeOK
  <2>2. mark.then \notin SettingUp
    BY <2>1 DEF Undisturbed, BlankChip, At
  <2>3. mark.blk \notin Pool \/ ~Mapped(mark.blk) \/ mark.blk = req.phys
    BY <2>1 DEF Undisturbed, MarkApart
  <2>4. \A b \in Blocks : b # mark.blk => flash'[b] = flash[b]
    BY <1>1, <1>7, WriteOneBlock DEF Mark
  <2>5. At' \notin SettingUp /\ FoundFree' /\ MarkApart' /\ Placed'
    BY <2>1, <2>2 DEF At, FoundFree, MarkApart, Placed, FindReturns, MarkReturns
  <2>6. pc \notin SettingUp \cup {"dead"}
    BY <2>1 DEF SettingUp
  <2> QED
    BY <2>1, <2>3, <2>4, <2>5, <2>6, QuietStep, OneBlock
<1> QED
  BY <1>2, <1>3, <1>4, <1>5, <1>6, <1>7

(* Requests. *)
LEMMA ServeUndisturbed ==
  TypeInv /\ Undisturbed /\ (Serve \/ Request \/ UNCHANGED vars)
  => Undisturbed' /\ KeepsReplacements
<1> SUFFICES ASSUME TypeInv, Undisturbed, Serve \/ Request \/ UNCHANGED vars
             PROVE  Undisturbed' /\ KeepsReplacements
  OBVIOUS
<1> USE DEF device, tables, layout, control, history
<1>1. flash \in Flash /\ req.phys \in Blocks
  BY DEF TypeInv, TypeOK, Requests
<1>2. CASE ProgramUser \/ EraseUser
  <2>1. /\ pc \in {"program", "erase"} /\ pc' \in {"done", "relocate"}
        /\ UNCHANGED <<bmt, bmtAt, bbtAt, sys, req>>
    BY <1>2 DEF ProgramUser, EraseUser
  <2>2. \A b \in Blocks : b # req.phys => flash'[b] = flash[b]
    <3>1. CASE ProgramUser
      <4>1. PICK r \in Results("program", req.phys) :
              Write(req.phys, req.page, req.data, req.oob, r)
        BY <3>1 DEF ProgramUser
      <4> QED
        BY <1>1, <4>1, WriteOneBlock
    <3>2. CASE EraseUser
      BY <1>1, <3>2, EraseOneBlock DEF EraseUser
    <3> QED
      BY <1>2, <3>1, <3>2
  <2>3. /\ At' \notin SettingUp /\ FoundFree' /\ MarkApart' /\ Placed'
        /\ pc \notin SettingUp \cup {"dead"}
    BY <2>1 DEF At, FoundFree, MarkApart, Placed, FindReturns, SettingUp
  <2> QED
    BY <2>1, <2>2, <2>3, QuietStep, OneBlock
<1>3. CASE Done \/ Refuse \/ Request
  <2>1. /\ pc \in {"done", "refused", "ready"}
        /\ pc' \in {"ready", "dead", "program", "erase"}
        /\ UNCHANGED <<flash, bmt, bmtAt, bbtAt, sys>>
        /\ Targets'
    <3>1. CASE Done \/ Refuse
      BY <3>1 DEF Done, Refuse, None, Targets
    <3>2. CASE \E l \in Logical, p \in Pages : UserRead(l, p)
      BY <3>2 DEF UserRead, Undisturbed, Targets
    <3>3. CASE \E l \in Logical : BeginErase(l)
      <4>1. PICK l \in Logical : BeginErase(l)
        BY <3>3
      <4>2. l < sys
        BY ChipFacts DEF Logical, LogicalCount, TypeInv, TypeOK
      <4> QED
        BY <4>1, <4>2 DEF BeginErase, None, Targets
    <3>4. CASE \E l \in Logical, p \in Pages, v \in Values : BeginWrite(l, p, v)
      BY <3>4 DEF BeginWrite, Targets
    <3> QED
      BY <1>3, <3>1, <3>2, <3>3, <3>4 DEF Request
  <2>2. InUseApart'
    BY <2>1, TablesKept DEF Undisturbed
  <2>3. FoundFree' /\ BlankChip' /\ MarkApart' /\ Placed' /\ Homes'
    BY <2>1 DEF Undisturbed, FoundFree, BlankChip, MarkApart, Placed, Homes,
                At, SettingUp, FindReturns
  <2> QED
    BY <2>1, <2>2, <2>3 DEF Undisturbed, KeepsReplacements
<1>4. CASE UNCHANGED vars
  BY <1>4 DEF vars, Undisturbed, InUseApart, FoundFree, BlankChip, MarkApart, Placed,
              Homes, Targets, KeepsReplacements, At, Mapped, MappedTo, Holds, Pool
<1> QED
  BY <1>2, <1>3, <1>4 DEF Serve

LEMMA InvariantNext == IInv /\ [Next]_vars => IInv'
<1> SUFFICES ASSUME IInv, [Next]_vars PROVE IInv'
  OBVIOUS
<1>1. TypeInv'
  BY TypeNext DEF IInv
<1>2. CASE PowerCut
  BY <1>1, <1>2, SMTT(60) DEF PowerCut, IInv, FirstPower, TypeInv, TypeOK
<1>3. CASE ~PowerCut /\ crashes # 0
  <2>1. crashes' = crashes
    BY <1>3 DEF Next, vars, Driver, SetUp, Find, Update, Serve, Request, history,
       CalcPool, LoadBmt, LoadBmtFails, CheckRaw, Reconstruct, ReconstructDone, LoadBbt,
       LoadBbtFails, ScanRaw, ScanRawDone, Save, FindBbtBlock, ProgramBbt, BuildTable,
       ErasePool, ErasePoolDone, Scan, ScanFails, Relocate, CopyPage, CopyLast,
       NothingFound, Remap, FindBmtBlock, PlaceBmt, EraseBmt, ProgramBmt, Mark,
       ProgramUser, EraseUser, Done, Refuse, BeginErase, UserRead, BeginWrite
  <2> QED
    BY <1>1, <1>3, <2>1 DEF IInv, FirstPower
<1>4. CASE ~PowerCut /\ crashes = 0
  BY <1>1, <1>4, SetUpUndisturbed, SavingUndisturbed, FindUndisturbed,
     UpdateUndisturbed, ServeUndisturbed
  DEF IInv, FirstPower, Next, Driver, SetUp, Find, Update, Reading
<1> QED
  BY <1>2, <1>3, <1>4

(* Until power is lost no block replaces two blocks and none that holds a  *)
(* table is a replacement, whichever blocks go bad and in whatever order   *)
(* marks, migrations and tables are written.  (find_available_block,       *)
(* update_bmt, write_bmt_to_flash, write_bbt_to_flash.)                    *)
THEOREM InUseApartUntilPowerLoss == Spec /\ [](crashes = 0) => []InUseApart
<1>1. Init => IInv
  BY TypeInit, UndisturbedInit DEF IInv, FirstPower
<1>2. IInv /\ crashes = 0 => InUseApart
  BY DEF IInv, FirstPower, Undisturbed
<1> QED
  BY <1>1, <1>2, InvariantNext, PTL DEF Spec

(* Until power is lost no step erases or writes a block that stands for    *)
(* another, but those of the request it serves.  (find_available_block.)   *)
THEOREM ReplacementsKeptUntilPowerLoss == Spec /\ [](crashes = 0) => ReplacementsKept
<1>1. Init => IInv
  BY TypeInit, UndisturbedInit DEF IInv, FirstPower
<1>2. IInv /\ crashes = 0 /\ [Next]_vars => [KeepsReplacements]_vars
  <2> SUFFICES ASSUME IInv, crashes = 0, [Next]_vars
               PROVE  KeepsReplacements
    OBVIOUS
  <2>1. TypeInv /\ Undisturbed
    BY DEF IInv, FirstPower
  <2>2. CASE PowerCut
    BY <2>2 DEF PowerCut, KeepsReplacements
  <2> QED
    BY <2>1, <2>2, SetUpUndisturbed, SavingUndisturbed, FindUndisturbed,
       UpdateUndisturbed, ServeUndisturbed
    DEF Next, Driver, SetUp, Find, Update, Reading
<1> QED
  BY <1>1, <1>2, InvariantNext, PTL DEF Spec, ReplacementsKept

-----------------------------------------------------------------------------
(***************************************************************************)
(* What the users read back: the conditions, and the invariant.            *)
(***************************************************************************)

(* Only programs fail, and one that fails leaves the page as it was. *)
CleanFailures ==
  /\ Worn = {}
  /\ Faults \subseteq {"program"} \X Blocks
  /\ Modes \subseteq {"clean"}

(* No replacement is itself replaced for a page behind its first one.  The *)
(* mark of such a block goes where the search does not look.               *)
MarkIsSeen == pc = "relocate" => req.blk < sys \/ req.page = 0

(* What the code works for: its place, or where a search or a mark returns.*)
Goal == IF pc \in {"scan", "erasePool"} THEN find.then ELSE At

Copying == Goal \in {"relocate", "copy", "remap"}
ToBmt   == Goal \in {"writeBmt", "placeBmt", "programBmt"}
ToBbt   == Goal \in {"saveBbt", "programBbt"}

(* The request in progress has reached the tables in memory. *)
Remapped == ToBmt \/ (pc = "mark" /\ mark.then = "done")

Stages ==
  /\ pc = "mark" => mark.then \in {"relocate", "writeBmt", "saveBbt", "done"}
  /\ pc = "mark" /\ mark.then = "done" => req.op = "write"
  /\ pc \in {"scan", "erasePool"} => find.then # "remap"
  /\ Goal \in {"program", "relocate", "copy", "remap"} => req.op = "write"
  /\ Goal = "erase" => req.op = "erase"
  /\ Goal \in SettingUp \cup {"save", "saveBbt", "programBbt", "build", "ready"} => req.op = "boot"
  /\ req.op = "erase" => pc \in {"erase", "done"}
  /\ Goal = "done" => req.op # "boot"
  /\ Goal \in {"reconstruct", "loadBbt", "scanRaw", "save"} => needBmt
  /\ Goal \in SettingUp \cup {"save"} \/ pc = "erasePool" => ~poolErased

(* A table gets a new home only while it has none. *)
Homeless ==
  /\ Goal = "placeBmt" \/ (pc = "mark" /\ mark.then = "writeBmt") => bmtAt = 0
  /\ (ToBmt /\ req.op = "boot") \/ ToBbt => bbtAt = 0

Ranges ==
  /\ \A m \in DOMAIN bmt : bmt[m].mapped \in Pool
  /\ bmtAt # 0 => bmtAt \in Pool
  /\ bbtAt # 0 => bbtAt \in Pool

(* The first search comes before anything is written. *)
Empty(b) == HoldsNothing(flash[b])

Fresh ==
  ~poolErased =>
    /\ pc \in SettingUp \cup {"save", "dead", "writeBmt"} \/ (pc = "erasePool" /\ ToBmt)
    /\ req.op = "boot" /\ bmt = <<>> /\ bmtAt = 0 /\ bbtAt = 0
    /\ \A b \in Blocks : Empty(b)

(* What the page p of the block being filled is to hold. *)
Want(p) ==
  IF Copying
  THEN IF p < req.page THEN flash[req.blk][p].data
       ELSE IF p = req.page THEN req.data ELSE Erased
  ELSE IF p # 0 THEN Erased
       ELSE IF ToBbt THEN [bbt |-> bbt] ELSE [bmt |-> bmt]

Buffer == ToBmt \/ Goal = "programBbt" => buf.data = Want(0)

Control == Stages /\ Homeless /\ Ranges /\ Fresh /\ Buffer

NoGarbage == \A b \in Blocks, p \in Pages : flash[b][p].data # Garbage

(* A mark that was seen is there. *)
CacheMarks ==
  \A b \in Blocks : cache.page = <<b, 0>> /\ MarkedBad(cache) => ~Unmarked(b)

CachePlace ==
  /\ pc = "remap" \/ (pc = "writeBmt" /\ bmtAt # 0) =>
       cache.page = <<found, req.page>> /\ found # 0 /\ found # bmtAt
  /\ pc = "mark" /\ mark.then = "done" => 
       cache.page = <<bmtAt, 0>> /\ bmtAt # 0 /\ cache.data = flash[bmtAt][0].data
  /\ req.op = "erase" => cache.page = NoPage

(* A free block holds nothing, unless it is being filled. *)
Fits(b)   == \A p \in Pages : flash[b][p].data \in {Erased, Want(p)}
Vacant(b) == b \in Pool /\ ~Mapped(b) /\ ~Holds(b)
Stale(b)  == cache.page = <<b, 0>> /\ ~MarkedBad(cache)
Passed(b) == Holds(b) \/ Mapped(b) \/ (~Unmarked(b) /\ ~Stale(b))
InLine(d) == \A b \in Pool : b < d => Passed(b)
Dirty(b)  == Vacant(b) /\ Unmarked(b) /\ ~Empty(b)

Dirt ==
  \A d \in Blocks : Dirty(d) => /\ Copying /\ Fits(d) /\ InLine(d)
                                /\ pc \in {"copy", "remap", "mark"} => d = found
Line ==
  /\ Copying /\ pc = "scan" => ~find.fromEnd /\ InLine(i) /\ i >= sys
  /\ pc \in {"copy", "remap"} /\ found # 0 => InLine(found)
  /\ pc = "mark" /\ mark.then = "relocate" => InLine(found)
Offered ==
  /\ Copying \/ ToBmt \/ ToBbt => \A b \in Blocks : Vacant(b) /\ Stale(b) => Fits(b)
  /\ pc \in FindReturns /\ found # 0 => Fits(found)
  /\ pc = "programBmt" => Fits(bmtAt) /\ (Unmarked(bmtAt) => Empty(bmtAt))
Marking ==
  pc = "mark" /\ mark.then # "done" =>
    /\ Vacant(mark.blk) /\ Fits(mark.blk) /\ mark.page = 0
    /\ mark.then = "relocate" => mark.blk = found
    /\ cache.page = <<mark.blk, 0>> => cache.data \in {Erased, Want(0)}

Vacancies == Dirt /\ Line /\ Offered /\ Marking

Up == req.op # "boot" \/ pc = "ready"

Untouched ==
  ~Up /\ pc # "dead" =>
     /\ bmt = <<>>
     /\ \A b \in 0 .. sys - 1 : /\ Empty(b)
                               /\ \A p \in Pages : cache.page = <<b, p>> => cache.data = Erased
     /\ ack = [l \in Blocks |-> [p \in Pages |-> Erased]]

Numbers == Up => \A x, y \in Logical : pBbt[x] = pBbt[y] => x = y

Kept == Up => \A l \in Logical, p \in Pages :
                 ack[l][p] # Unknown => flash[Physical(l)][p].data = ack[l][p]

Trusted(l, p) == ack[l][p] # Unknown \/ (req.op = "write" /\ l = req.log /\ p # req.page)

Coherent ==
  Up => \A l \in Logical, p \in Pages :
          cache.page = <<Physical(l), p>> /\ Trusted(l, p)
          => cache.data = flash[Physical(l)][p].data

Writing ==
  req.op = "write" =>
    /\ req.log \in Logical
    /\ ack[req.log][req.page] = Unknown
    /\ \A q \in Pages : q > req.page => ack[req.log][q] = Erased
    /\ Goal = "program" \/ Copying => req.phys = Physical(req.log)
    /\ Goal = "program" \/ Copying => flash[req.phys][req.page].data = Erased
    /\ Remapped \/ pc = "done" => flash[Physical(req.log)][req.page].data = req.data
    /\ Remapped => /\ \A l \in Logical : Physical(l) # req.blk
    /\ pc = "mark" /\ mark.then = "done" => mark.blk = req.blk /\ mark.page = req.page
    /\ pc = "done" /\ cache.page = <<Physical(req.log), req.page>> => cache.data = req.data

(* What a copy has filled so far. *)
Filled ==
  req.op = "write" =>
    /\ Copying /\ pc # "relocate" => req.blk < sys \/ req.page = 0
    /\ pc = "copy" /\ found # 0 =>
         i <= req.page /\ \A p \in Pages : p < i => flash[found][p].data = Want(p)
    /\ pc = "remap" => \A p \in Pages : flash[found][p].data = Want(p)

Erasing ==
  req.op = "erase" =>
    /\ req.log \in Logical /\ req.phys = Physical(req.log)
    /\ \A p \in Pages : ack[req.log][p] = Unknown
    /\ pc = "done" => \A p \in Pages : flash[req.phys][p].data = Erased

Users == Untouched /\ Numbers /\ Kept /\ Coherent /\ Writing /\ Filled /\ Erasing

Intact == Control /\ NoGarbage /\ CacheMarks /\ CachePlace /\ Vacancies /\ Users
-----------------------------------------------------------------------------
(***************************************************************************)
(* Reads, programs and erases when failures are clean.                     *)
(***************************************************************************)
(* What a program or an erase leaves when failures are clean.              *)
LEMMA CleanResults ==
  ASSUME CleanFailures, NEW b
  PROVE  /\ \A r \in Results("erase", b) : r = "ok"
         /\ \A r \in Results("program", b) : r \in {"ok", "clean"}
<1>1. b \notin Worn /\ <<"erase", b>> \notin Faults /\ Modes \subseteq {"clean"}
  BY DEF CleanFailures
<1> QED
  BY <1>1 DEF Results

LEMMA CleanErase ==
  ASSUME CleanFailures, flash \in Flash, NEW b \in Blocks,
         NEW r \in Results("erase", b), Erase(b, r)
  PROVE  flash' = [flash EXCEPT ![b] = [p \in Pages |-> Blank]] /\ r = "ok"
<1>1. r = "ok"
  BY CleanResults
<1> QED
  BY <1>1 DEF Erase, AfterErase

(* A page that can be read is the one in the cache afterwards. *)
LEMMA ReadIs ==
  ASSUME NEW b, NEW p, flash[b][p].data # Garbage
  PROVE  /\ Read(flash, cache, b, p).page = <<b, p>>
         /\ ReadOk(flash, cache, b, p)
         /\ \/ cache.page = <<b, p>> /\ Read(flash, cache, b, p) = cache
            \/ /\ cache.page # <<b, p>>
               /\ Read(flash, cache, b, p).data = flash[b][p].data
               /\ Read(flash, cache, b, p).oob = flash[b][p].oob
               /\ Read(flash, cache, b, p).map = flash[b][p].oob
  BY DEF Read, ReadOk

LEMMA WriteIs ==
  ASSUME CleanFailures, flash \in Flash, cache \in Cache, NEW b \in Blocks, NEW p \in Pages,
         flash[b][p].data # Garbage, NEW d, NEW o,
         NEW r \in Results("program", b), Write(b, p, d, o, r)
  PROVE  /\ cache'.page = <<b, p>> /\ cache'.data = d
         /\ cache'.map = Read(flash, cache, b, p).map
         /\ cache'.oob = AndOob(Read(flash, cache, b, p).oob, o)
         /\ \/ r = "clean" /\ flash' = flash
            \/ /\ r = "ok"
               /\ flash' = [flash EXCEPT ![b][p] = Programmed(flash[b][p], d, cache'.oob)]
<1> DEFINE rd == Read(flash, cache, b, p)
<1>1. rd.page = <<b, p>> /\ rd \in Cache
  BY ReadIs, ReadType
<1> HIDE DEF rd
<1>2. cache' = Overlay(rd, d, o)
  BY DEF Write, rd
<1>3. /\ cache'.page = <<b, p>> /\ cache'.data = d
      /\ cache'.map = rd.map /\ cache'.oob = AndOob(rd.oob, o)
  BY <1>1, <1>2 DEF Overlay, Cache
<1>4. flash' = [flash EXCEPT ![b][p] = AfterProgram(flash[b][p], cache'.data, cache'.oob, r)]
  BY DEF Write
<1>5. CASE r = "clean"
  <2>1. flash' = [flash EXCEPT ![b][p] = flash[b][p]]
    BY <1>4, <1>5 DEF AfterProgram
  <2>2. flash' = flash
    BY <2>1 DEF Flash
  <2> QED
    BY <1>3, <1>5, <2>2 DEF rd
<1>6. CASE r = "ok"
  <2>1. flash' = [flash EXCEPT ![b][p] = Programmed(flash[b][p], d, cache'.oob)]
    BY <1>3, <1>4, <1>6 DEF AfterProgram
  <2> QED
    BY <1>3, <1>6, <2>1 DEF rd
<1> QED
  BY <1>5, <1>6, CleanResults

(* What holds at a step that is looked at.                                 *)
Held == CleanFailures /\ TypeInv /\ Undisturbed /\ Intact

LEMMA HeldFacts ==
  ASSUME Held
  PROVE  /\ CleanFailures /\ TypeInv /\ Undisturbed
         /\ Stages /\ Homeless /\ Ranges /\ Fresh /\ Buffer /\ NoGarbage /\ CacheMarks /\ CachePlace
         /\ Dirt /\ Line /\ Offered /\ Marking
         /\ Untouched /\ Numbers /\ Kept /\ Coherent /\ Writing /\ Filled /\ Erasing
         /\ TypeOK /\ flash \in Flash /\ cache \in Cache
         /\ found \in Blocks /\ bmtAt \in Blocks /\ bbtAt \in Blocks /\ mark.blk \in Blocks
         /\ mark.page \in Pages /\ sys \in Blocks
         /\ req.phys \in Blocks /\ req.blk \in Blocks /\ req.log \in Blocks /\ req.page \in Pages
         /\ req.op \in {"boot", "write", "erase"}
         /\ 0 \in Blocks /\ 0 \in Pages /\ Blocks \subseteq Nat /\ Pages \subseteq Nat
         /\ Pool \subseteq Blocks
<1>1. TypeOK
  BY DEF Held, TypeInv
<1>2. sys \in Blocks /\ Pool \subseteq Blocks
  BY <1>1, ChipFacts DEF TypeOK, Pool, Blocks
<1>3. /\ mark.blk \in Blocks /\ mark.page \in Pages
      /\ req.phys \in Blocks /\ req.blk \in Blocks /\ req.log \in Blocks /\ req.page \in Pages
      /\ req.op \in {"boot", "write", "erase"}
  BY <1>1 DEF TypeOK, Requests
<1>4. flash \in Flash /\ cache \in Cache /\ found \in Blocks /\ bmtAt \in Blocks /\ bbtAt \in Blocks
  BY <1>1 DEF TypeOK
<1> QED
  BY <1>1, <1>2, <1>3, <1>4, ChipFacts DEF Held, Intact, Control, Vacancies, Users

(* What a step that writes data d to page p of block b does when failures  *)
(* are clean.                                                              *)
Wrote(b, p, d, r) ==
  /\ r \in {"ok", "clean"}
  /\ cache'.page = <<b, p>> /\ cache'.data = d
  /\ p = 0 => IF MarkedBad(cache') THEN ~Unmarked(b) ELSE Unmarked(b) \/ Stale(b)
  /\ \A x \in Blocks, q \in Pages : x # b \/ q # p => flash'[x][q] = flash[x][q]
  /\ r = "clean" => flash' = flash
  /\ r = "ok" => flash'[b][p].data = IF d = Erased THEN flash[b][p].data ELSE d
  /\ ~Unmarked(b) => flash'[b][0].oob.raw \/ flash'[b][0].oob.later

LEMMA AndKeeps ==
  ASSUME NEW a, NEW b
  PROVE  /\ a.raw \/ b.raw => AndOob(a, b).raw
         /\ a.later \/ b.later => AndOob(a, b).later
  BY DEF AndOob

LEMMA WriteDoes ==
  ASSUME CleanFailures, TypeOK, NoGarbage, CacheMarks, NEW b \in Blocks, NEW p \in Pages,
         NEW d, NEW o,
         flash[b][p].data \in {Erased, d} \/ d = Erased,
         NEW r \in Results("program", b), Write(b, p, d, o, r)
  PROVE  Wrote(b, p, d, r)
<1>1. flash \in Flash /\ cache \in Cache /\ flash[b][p].data # Garbage /\ 0 \in Pages
  BY ChipFacts DEF TypeOK, NoGarbage
<1>2. /\ cache'.page = <<b, p>> /\ cache'.data = d
      /\ cache'.map = Read(flash, cache, b, p).map
      /\ \/ r = "clean" /\ flash' = flash
         \/ /\ r = "ok"
            /\ flash' = [flash EXCEPT ![b][p] = Programmed(flash[b][p], d, cache'.oob)]
  BY <1>1, WriteIs
<1>3. p = 0 => IF MarkedBad(cache') THEN ~Unmarked(b) ELSE Unmarked(b) \/ Stale(b)
  BY <1>1, <1>2, ReadIs DEF MarkedBad, Unmarked, Stale, CacheMarks
<1>4. CASE r = "clean" /\ flash' = flash
  BY <1>2, <1>3, <1>4 DEF Wrote, Unmarked
<1>5. CASE /\ r = "ok"
           /\ flash' = [flash EXCEPT ![b][p] = Programmed(flash[b][p], d, cache'.oob)]
  <2> DEFINE new == Programmed(flash[b][p], d, cache'.oob)
  <2>1. new.data = IF d = Erased THEN flash[b][p].data ELSE d
    BY DEF Programmed
  <2>2. /\ flash[b][p].oob.raw => new.oob.raw
        /\ flash[b][p].oob.later => new.oob.later
    BY DEF Programmed, AndOob
  <2> HIDE DEF new
  <2>3. /\ flash'[b][p] = new
        /\ \A x \in Blocks, q \in Pages : x # b \/ q # p => flash'[x][q] = flash[x][q]
    BY <1>1, <1>5 DEF Flash, new
  <2>4. ~Unmarked(b) => flash'[b][0].oob.raw \/ flash'[b][0].oob.later
    BY <1>1, <2>2, <2>3 DEF Unmarked
  <2> QED
    BY <1>2, <1>3, <1>5, <2>1, <2>3, <2>4 DEF Wrote
<1> QED
  BY <1>2, <1>4, <1>5

(* What a read does when no page is unreadable. *)
Reads(b, p) ==
  /\ cache'.page = <<b, p>>
  /\ cache.page = <<b, p>> => cache' = cache
  /\ cache.page # <<b, p>> => cache'.data = flash[b][p].data
  /\ p = 0 => IF MarkedBad(cache') THEN ~Unmarked(b) ELSE Unmarked(b) \/ Stale(b)

LEMMA LoadDoes ==
  ASSUME NoGarbage, CacheMarks, NEW b \in Blocks, NEW p \in Pages, Load(b, p)
  PROVE  Reads(b, p)
<1>1. flash[b][p].data # Garbage /\ cache' = Read(flash, cache, b, p)
  BY DEF NoGarbage, Load
<1> QED
  BY <1>1, ReadIs DEF Reads, MarkedBad, Unmarked, Stale, CacheMarks
(* A step that power does not cut. *)
Running == SetUp \/ Find \/ Update \/ Serve \/ Request \/ UNCHANGED vars

-----------------------------------------------------------------------------
(***************************************************************************)
(* Control: how the code gets where it is, and what the buffer, the tables *)
(* and the search hold there.                                              *)
(***************************************************************************)
LEMMA ErasesPass ==
  ASSUME CleanFailures
  PROVE  /\ ErasePool => pc' = "erasePool" /\ UNCHANGED mark
         /\ EraseBmt => pc' = "programBmt" /\ UNCHANGED <<bmtAt, mark>>
         /\ EraseUser => pc' = "done"
  BY CleanResults DEF ErasePool, EraseBmt, EraseUser

LEMMA FindThenIs ==
  ASSUME NEW fromEnd, NEW then, FindThen(fromEnd, then)
  PROVE  /\ find'.then = then /\ find'.fromEnd = fromEnd
         /\ \/ poolErased /\ pc' = "scan" /\ i' = Start(fromEnd)
            \/ ~poolErased /\ pc' = "erasePool" /\ i' = sys
  BY DEF FindThen

LEMMA StagesNext ==
  ASSUME CleanFailures, TypeInv, Undisturbed, Stages, Fresh, Running
  PROVE  Stages'
<1> USE DEF Stages, Goal, At, SettingUp, device, tables, layout, control, history
<1>1. /\ req.op \in {"boot", "write", "erase"} /\ find.then \in FindReturns
      /\ poolErased \in BOOLEAN /\ needBbt \in BOOLEAN /\ needBmt \in BOOLEAN
  BY DEF TypeInv, TypeOK, Requests
<1>2. CASE Reading
  <2>1. /\ pc \in SettingUp /\ pc # "mark" /\ pc # "checkRaw" /\ req.op = "boot"
        /\ req' = req /\ pc' \in SettingUp \cup {"dead", "save"} /\ pc' # "checkRaw"
    BY <1>2, ReadingFinds
  <2>2. UNCHANGED <<poolErased, find, mark>> \/ pc' = "mark"
    BY <1>2 DEF Reading, CalcPool, LoadBmt, LoadBmtFails, CheckRaw, Reconstruct, ReconstructDone,
       LoadBbt, LoadBbtFails, ScanRaw, ScanRawDone, MarkThen
  <2>3. pc' \in {"reconstruct", "loadBbt", "scanRaw", "save"} => needBmt'
    BY <1>2, <2>1 DEF Reading, CalcPool, LoadBmt, LoadBmtFails, CheckRaw, Reconstruct, ReconstructDone,
       LoadBbt, LoadBbtFails, ScanRaw, ScanRawDone
  <2> QED
    BY <2>1, <2>2, <2>3
<1>3. CASE Save
  BY <1>3 DEF Save
<1>4. CASE FindBbtBlock \/ FindBmtBlock \/ Relocate
  <2>1. CASE FindBbtBlock
    <3>1. /\ pc = "saveBbt" /\ req' = req /\ mark' = mark
          /\ \/ /\ pc' \in {"scan", "erasePool"} /\ find'.then = "programBbt"
                /\ pc' = "erasePool" => ~poolErased
             \/ pc' = "build"
      <4>1. pc = "saveBbt" /\ UNCHANGED <<req, mark>>
        BY <2>1 DEF FindBbtBlock
      <4>2. CASE needBbt
        <5>1. FindThen(FALSE, "programBbt")
          BY <2>1, <4>2 DEF FindBbtBlock
        <5> QED
          BY <4>1, <5>1, FindThenIs
      <4>3. CASE ~needBbt
        BY <2>1, <4>1, <4>3 DEF FindBbtBlock
      <4> QED
        BY <4>2, <4>3
    <3>5. poolErased' = poolErased
      BY <2>1 DEF FindBbtBlock
    <3>2. req.op = "boot"
      BY <3>1
    <3>3. CASE pc' = "build"
      BY <3>1, <3>2, <3>3
    <3>4. CASE pc' \in {"scan", "erasePool"}
      BY <3>1, <3>2, <3>4, <3>5
    <3> QED
      BY <3>1, <3>3, <3>4
  <2>2. CASE FindBmtBlock
    BY <1>1, <2>2 DEF FindBmtBlock, FindThen
  <2>3. CASE Relocate
    <3>1. poolErased
      BY <2>3 DEF Relocate, Fresh
    <3> QED
      BY <1>1, <2>3, <3>1 DEF Relocate, FindThen
  <2> QED
    BY <1>4, <2>1, <2>2, <2>3
<1>5. CASE ProgramBbt
  BY <1>5 DEF ProgramBbt, MarkThen
<1>6. CASE BuildTable
  BY <1>6 DEF BuildTable
<1>7. CASE ErasePool
  BY <1>7, ErasesPass DEF ErasePool
<1>8. CASE ErasePoolDone
  BY <1>1, <1>8 DEF ErasePoolDone, FindReturns
<1>9. CASE Scan \/ ScanFails
  BY <1>1, <1>9 DEF Scan, ScanFails, FindReturns
<1>10. CASE CopyPage \/ CopyLast
  BY <1>10 DEF CopyPage, CopyLast, AfterCopy, MarkThen
<1>11. CASE NothingFound \/ Remap \/ PlaceBmt
  BY <1>11 DEF NothingFound, Remap, PlaceBmt
<1>12. CASE EraseBmt
  BY <1>12, ErasesPass DEF EraseBmt
<1>13. CASE ProgramBmt
  BY <1>1, <1>13 DEF ProgramBmt, MarkThen, Retire
<1>14. CASE Mark
  BY <1>14 DEF Mark
<1>15. CASE ProgramUser \/ EraseUser
  BY <1>15, ErasesPass DEF ProgramUser, EraseUser
<1>16. CASE Done \/ Refuse
  BY <1>16 DEF Done, Refuse, None
<1>17. CASE Request
  <2>1. ASSUME NEW l \in Logical, BeginErase(l)
        PROVE  Stages'
    <3>1. req'.op = "erase" /\ pc' = "erase"
      BY <2>1 DEF BeginErase, None
    <3> QED
      BY <3>1
  <2>2. ASSUME NEW l \in Logical, NEW p \in Pages, NEW v \in Values, BeginWrite(l, p, v)
        PROVE  Stages'
    <3>1. req'.op = "write" /\ pc' = "program"
      BY <2>2 DEF BeginWrite
    <3> QED
      BY <3>1
  <2>3. ASSUME NEW l \in Logical, NEW p \in Pages, UserRead(l, p)
        PROVE  Stages'
    BY <2>3 DEF UserRead
  <2> QED
    BY <1>17, <2>1, <2>2, <2>3 DEF Request
<1>18. CASE UNCHANGED vars
  BY <1>18 DEF vars
<1> QED
  BY <1>2, <1>3, <1>4, <1>5, <1>6, <1>7, <1>8, <1>9, <1>10, <1>11, <1>12, <1>13, <1>14,
     <1>15, <1>16, <1>17, <1>18 DEF Running, SetUp, Find, Update, Serve, Reading

(* What the code works for, by the place it is at. *)
LEMMA GoalIs ==
  /\ pc = "mark" => Goal = mark.then
  /\ pc \in {"scan", "erasePool"} => Goal = find.then
  /\ pc \notin {"mark", "scan", "erasePool"} => Goal = pc
  /\ pc' = "mark" => Goal' = mark'.then
  /\ pc' \in {"scan", "erasePool"} => Goal' = find'.then
  /\ pc' \notin {"mark", "scan", "erasePool"} => Goal' = pc'
  BY DEF Goal, At

LEMMA HomelessNext ==
  ASSUME Held, Running
  PROVE  Homeless'
<1> USE DEF device, tables, layout, control, history
<1>1. /\ req.op \in {"boot", "write", "erase"} /\ find.then \in FindReturns
      /\ Stages /\ Homeless /\ Fresh /\ Undisturbed /\ CleanFailures
  BY HeldFacts DEF TypeOK
<1> USE GoalIs DEF Homeless, ToBmt, ToBbt
<1>2. CASE Reading
  <2>1. pc' \in SettingUp \cup {"dead", "save"}
    BY <1>2, ReadingFinds, HeldFacts
  <2> QED
    BY <2>1 DEF SettingUp
<1>3. CASE Save
  <2>1. bbtAt = 0 /\ bbtAt' = bbtAt /\ pc' \in {"writeBmt", "saveBbt"}
    BY <1>1, <1>3 DEF Save, Stages, Fresh
  <2> QED
    BY <2>1
<1>4. CASE FindBbtBlock
  <2>1. pc = "saveBbt" /\ UNCHANGED <<bbtAt, bmtAt>>
    BY <1>4 DEF FindBbtBlock
  <2>2. CASE FindThen(FALSE, "programBbt")
    <3>1. find'.then = "programBbt" /\ pc' \in {"scan", "erasePool"}
      BY <2>2, FindThenIs
    <3> QED
      BY <1>1, <2>1, <3>1
  <2>3. CASE pc' = "build"
    BY <2>1, <2>3
  <2> QED
    BY <1>4, <2>2, <2>3 DEF FindBbtBlock
<1>5. CASE FindBmtBlock
  <2>1. pc = "writeBmt" /\ UNCHANGED <<bbtAt, bmtAt, req>> /\ bmtAt = 0 /\ FindThen(TRUE, "placeBmt")
    BY <1>5 DEF FindBmtBlock
  <2>2. find'.then = "placeBmt" /\ pc' \in {"scan", "erasePool"}
    BY <2>1, FindThenIs
  <2> QED
    BY <1>1, <2>1, <2>2
<1>6. CASE Relocate
  <2>1. PICK then \in {"copy", "remap"} : FindThen(FALSE, then)
    BY <1>6 DEF Relocate
  <2> QED
    BY <2>1, FindThenIs
<1>7. CASE ProgramBbt
  BY <1>7 DEF ProgramBbt, MarkThen
<1>8. CASE BuildTable
  BY <1>8 DEF BuildTable
<1>9. CASE ErasePool
  BY <1>1, <1>9, ErasesPass DEF ErasePool
<1>10. CASE ErasePoolDone
  BY <1>1, <1>10 DEF ErasePoolDone
<1>11. CASE Scan \/ ScanFails
  BY <1>1, <1>11 DEF Scan, ScanFails, FindReturns
<1>12. CASE CopyPage \/ CopyLast
  BY <1>12 DEF CopyPage, CopyLast, AfterCopy, MarkThen
<1>13. CASE NothingFound
  BY <1>13 DEF NothingFound
<1>14. CASE Remap
  <2>1. req.op # "boot" /\ req' = req /\ pc' = "writeBmt"
    BY <1>1, <1>14 DEF Remap, Stages
  <2> QED
    BY <2>1
<1>15. CASE PlaceBmt
  BY <1>1, <1>15 DEF PlaceBmt
<1>16. CASE EraseBmt
  BY <1>1, <1>16, ErasesPass DEF EraseBmt
<1>17. CASE ProgramBmt
  <2>1. /\ pc = "programBmt" /\ UNCHANGED <<bbtAt, req>>
        /\ \/ pc' = "mark" /\ mark'.then = "writeBmt" /\ bmtAt' = 0
           \/ req.op = "boot" /\ pc' = "saveBbt"
           \/ pc' = "mark" /\ mark'.then = "done"
    BY <1>17 DEF ProgramBmt, MarkThen, Retire
  <2> QED
    BY <1>1, <2>1
<1>18. CASE Mark
  <2>1. pc = "mark" /\ pc' = mark.then /\ UNCHANGED <<bmtAt, bbtAt, req>>
        /\ mark.then \in {"relocate", "writeBmt", "saveBbt", "done"}
    BY <1>1, <1>18 DEF Mark, Stages
  <2> QED
    BY <1>1, <2>1
<1>19. CASE ProgramUser \/ EraseUser
  BY <1>19 DEF ProgramUser, EraseUser
<1>20. CASE Done \/ Refuse
  BY <1>20 DEF Done, Refuse
<1>21. CASE Request
  <2>1. bmtAt' = bmtAt /\ pc' \in {"program", "erase", "ready"}
    BY <1>21 DEF Request, BeginErase, BeginWrite, UserRead
  <2> QED
    BY <2>1
<1>22. CASE UNCHANGED vars
  BY <1>1, <1>22 DEF vars
<1> HIDE GoalIs DEF Homeless, ToBmt, ToBbt, device, tables, layout, control, history
<1> QED
  BY <1>2, <1>3, <1>4, <1>5, <1>6, <1>7, <1>8, <1>9, <1>10, <1>11, <1>12, <1>13, <1>14,
     <1>15, <1>16, <1>17, <1>18, <1>19, <1>20, <1>21, <1>22
  DEF Running, SetUp, Find, Update, Serve, Reading

(* The steps that change a table or where it lives. *)
LEMMA TablesChange ==
  ASSUME Running, ~Reading
  PROVE  /\ sys' = sys
         /\ bmtAt' \in {bmtAt, 0} \/ (PlaceBmt /\ bmtAt' = found)
         /\ bbtAt' \in {bbtAt, 0} \/ (ProgramBbt /\ bbtAt' = found)
         /\ bmt' = bmt \/ Remap
<1> USE DEF device, tables, layout, control, history
<1>1. CASE Save \/ FindBbtBlock \/ BuildTable
  BY <1>1 DEF Save, FindBbtBlock, BuildTable
<1>2. CASE ProgramBbt
  BY <1>2 DEF ProgramBbt
<1>3. CASE ErasePool \/ ErasePoolDone \/ Scan \/ ScanFails
  BY <1>3 DEF ErasePool, ErasePoolDone, Scan, ScanFails
<1>4. CASE Relocate \/ CopyPage \/ CopyLast \/ NothingFound \/ Remap \/ FindBmtBlock
  BY <1>4 DEF Relocate, CopyPage, CopyLast, NothingFound, Remap, FindBmtBlock
<1>5. CASE PlaceBmt \/ EraseBmt \/ Mark
  BY <1>5 DEF PlaceBmt, EraseBmt, Mark
<1>6. CASE ProgramBmt
  BY <1>6 DEF ProgramBmt
<1>7. CASE Serve
  BY <1>7 DEF Serve, ProgramUser, EraseUser, Done, Refuse
<1>8. CASE Request
  BY <1>8 DEF Request, BeginErase, BeginWrite, UserRead
<1>9. CASE UNCHANGED vars
  BY <1>9 DEF vars
<1> HIDE DEF device, tables, layout, control, history
<1> QED
  BY <1>1, <1>2, <1>3, <1>4, <1>5, <1>6, <1>7, <1>8, <1>9
  DEF Running, SetUp, Find, Update, Reading

LEMMA RangesNext ==
  ASSUME Held, Running
  PROVE  Ranges'
<1> USE DEF device, tables, layout, control, history
<1>1. Ranges /\ bmt \in Seq(Entry)
  BY HeldFacts DEF TypeOK
<1>2. CASE Reading
  <2>1. bmt' = <<>> /\ bmtAt' = 0 /\ bbtAt' = 0
    BY <1>2, ReadingFinds, HeldFacts
  <2> QED
    BY <2>1 DEF Ranges
<1>3. CASE ~Reading
  <2>1. sys' = sys
    BY <1>3, TablesChange
  <2>2. bmtAt' \in {bmtAt, 0} \/ (PlaceBmt /\ bmtAt' = found)
    BY <1>3, TablesChange
  <2>3. bbtAt' \in {bbtAt, 0} \/ (ProgramBbt /\ bbtAt' = found)
    BY <1>3, TablesChange
  <2>4. bmt' = bmt \/ Remap
    BY <1>3, TablesChange
  <2>5. (PlaceBmt \/ ProgramBbt \/ Remap) => found \in Pool
    BY HeldFacts DEF PlaceBmt, ProgramBbt, Remap, Undisturbed, FoundFree, FindReturns
  <2>6. Pool' = Pool
    BY <2>1 DEF Pool
  <2>7. Remap => \A m \in DOMAIN bmt' : bmt'[m].mapped \in Pool
    <3> SUFFICES ASSUME Remap PROVE \A m \in DOMAIN bmt' : bmt'[m].mapped \in Pool
      OBVIOUS
    <3>1. found \in Pool /\ \A m \in DOMAIN bmt : bmt[m].mapped \in Pool
      BY <1>1, <2>5 DEF Ranges
    <3>2. CASE bmt' = Append(bmt, [bad |-> req.blk, mapped |-> found])
      <4> DEFINE e == [bad |-> req.blk, mapped |-> found]
      <4>1. e \in Entry /\ e.mapped = found /\ bmt' = Append(bmt, e)
        BY <3>2, HeldFacts DEF Entry
      <4> HIDE DEF e
      <4>2. \A m \in DOMAIN bmt' : bmt'[m] = e \/ (m \in DOMAIN bmt /\ bmt'[m] = bmt[m])
        BY <1>1, <4>1
      <4> QED
        BY <3>1, <4>1, <4>2
    <3>3. CASE bmt' = [bmt EXCEPT ![First(MappedTo(req.blk))].mapped = found]
      <4> DEFINE k == First(MappedTo(req.blk))
      <4>1. bmt' = [bmt EXCEPT ![k].mapped = found] /\ \A m \in DOMAIN bmt : bmt[m] \in Entry
        BY <1>1, <3>3
      <4> HIDE DEF k
      <4>2. DOMAIN bmt' = DOMAIN bmt
        BY <1>1, <4>1
      <4>3. ASSUME NEW m \in DOMAIN bmt PROVE bmt'[m].mapped \in {found, bmt[m].mapped}
        BY <1>1, <4>1, <4>3 DEF Entry
      <4> QED
        BY <3>1, <4>2, <4>3
    <3> QED
      BY <3>1, <3>2, <3>3 DEF Remap
  <2> QED
    BY <1>1, <2>2, <2>3, <2>4, <2>5, <2>6, <2>7 DEF Ranges
<1> QED
  BY <1>2, <1>3

(* Nothing is written before the pool has been erased. *)
LEMMA FreshNext ==
  ASSUME Held, Running
  PROVE  Fresh'
<1> USE DEF device, tables, layout, control, history
<1>1. /\ Stages /\ Fresh /\ CleanFailures /\ TypeOK /\ TypeInv /\ Undisturbed
      /\ flash \in Flash /\ Pages \subseteq Nat
  BY HeldFacts
<1>2. CASE poolErased
  <2>1. poolErased' = poolErased
    <3>1. CASE Reading
      BY <3>1 DEF Reading, CalcPool, LoadBmt, LoadBmtFails, CheckRaw, Reconstruct,
         ReconstructDone, LoadBbt, LoadBbtFails, ScanRaw, ScanRawDone
    <3>2. CASE Save \/ FindBbtBlock \/ ProgramBbt \/ BuildTable
      BY <3>2 DEF Save, FindBbtBlock, ProgramBbt, BuildTable
    <3>3. CASE ErasePool \/ ErasePoolDone \/ Scan \/ ScanFails
      BY <1>2, <3>3 DEF ErasePool, ErasePoolDone, Scan, ScanFails
    <3>4. CASE Update
      BY <3>4 DEF Update, Relocate, CopyPage, CopyLast, NothingFound, Remap, FindBmtBlock,
         PlaceBmt, EraseBmt, ProgramBmt, Mark
    <3>5. CASE Serve
      BY <3>5 DEF Serve, ProgramUser, EraseUser, Done, Refuse
    <3>7. CASE Request
      BY <3>7 DEF Request, BeginErase, BeginWrite, UserRead
    <3>6. CASE UNCHANGED vars
      BY <3>6 DEF vars
    <3> HIDE DEF device, tables, layout, control, history
    <3> QED
      BY <3>1, <3>2, <3>3, <3>4, <3>5, <3>6, <3>7 DEF Running, SetUp, Find, Reading
  <2> QED
    BY <1>2, <2>1 DEF Fresh
<1>3. CASE ~poolErased
  <2>1. /\ pc \in SettingUp \cup {"save", "dead", "writeBmt"} \/ (pc = "erasePool" /\ ToBmt)
        /\ req.op = "boot" /\ bmt = <<>> /\ bmtAt = 0 /\ bbtAt = 0
        /\ \A b \in Blocks, p \in Pages : flash[b][p].data = Erased
    BY <1>1, <1>3 DEF Fresh, Empty, HoldsNothing
  <2>2. CASE Reading
    <3>1. /\ UNCHANGED <<flash, bmt, bmtAt, bbtAt, req>>
          /\ pc' \in SettingUp \cup {"dead", "save"}
      BY <1>1, <2>2, ReadingFinds
    <3> QED
      BY <2>1, <3>1 DEF Fresh, Empty, HoldsNothing
  <2>3. CASE Save
    BY <1>1, <2>1, <2>3 DEF Save, Stages, Goal, At, Fresh, Empty, HoldsNothing
  <2>4. CASE FindBmtBlock
    <3>1. /\ UNCHANGED <<flash, bmt, bmtAt, bbtAt, req>> /\ FindThen(TRUE, "placeBmt")
      BY <2>4 DEF FindBmtBlock
    <3>2. pc' = "erasePool" /\ find'.then = "placeBmt"
      BY <1>3, <3>1, FindThenIs
    <3> QED
      BY <2>1, <3>1, <3>2 DEF Fresh, ToBmt, Goal, Empty, HoldsNothing
  <2>5. CASE ErasePool
    <3>1. /\ UNCHANGED <<bmt, bmtAt, bbtAt, req, find>> /\ pc' = "erasePool" /\ pc = "erasePool"
          /\ i \in Blocks
          /\ flash' = flash \/ \E r \in Results("erase", i) : Erase(i, r)
      <4>1. pc = "erasePool" /\ i < NBlocks /\ UNCHANGED <<bmt, bmtAt, bbtAt, req, find>>
        BY <2>5 DEF ErasePool
      <4>2. i \in Blocks
        BY <1>1, <4>1, ChipFacts DEF TypeInv, TypeOK, Counters, At, Blocks
      <4>3. pc' = "erasePool"
        BY <1>1, <2>5, ErasesPass
      <4>4. flash' = flash \/ \E r \in Results("erase", i) : Erase(i, r)
        BY <2>5 DEF ErasePool
      <4> QED
        BY <4>1, <4>2, <4>3, <4>4
    <3>2. flash' = flash \/ flash' = [flash EXCEPT ![i] = [p \in Pages |-> Blank]]
      BY <1>1, <3>1, CleanErase
    <3>3. \A b \in Blocks, p \in Pages : flash'[b][p].data = Erased
      BY <1>1, <2>1, <3>1, <3>2 DEF Flash, Blank
    <3>4. ToBmt'
      BY <2>1, <3>1, SettingUpLabels DEF ToBmt, Goal
    <3> QED
      BY <2>1, <3>1, <3>3, <3>4 DEF Fresh, Empty, HoldsNothing
  <2>6. CASE ErasePoolDone
    BY <2>6 DEF ErasePoolDone, Fresh
  <2>7. CASE UNCHANGED vars
    BY <1>1, <2>7 DEF vars, Fresh, Empty, HoldsNothing, ToBmt, Goal, At
  <2>8. CASE Refuse \/ Done
    BY <2>1, <2>8, SettingUpLabels DEF Refuse, Done
  <2>9. ~(FindBbtBlock \/ ProgramBbt \/ BuildTable \/ Scan \/ ScanFails)
    BY <2>1, SettingUpLabels DEF FindBbtBlock, ProgramBbt, BuildTable, Scan, ScanFails, SettingUp
  <2>10. ~(Relocate \/ CopyPage \/ CopyLast \/ NothingFound \/ Remap \/ PlaceBmt \/ EraseBmt
           \/ ProgramBmt \/ Mark)
    BY <2>1 DEF Relocate, CopyPage, CopyLast, NothingFound, Remap, PlaceBmt, EraseBmt,
                ProgramBmt, Mark, SettingUp
  <2>11. ~(ProgramUser \/ EraseUser \/ Request)
    <3>1. pc \notin {"program", "erase", "ready"}
      BY <2>1 DEF SettingUp
    <3>2. Request => pc = "ready"
      BY DEF Request, BeginErase, BeginWrite, UserRead
    <3> QED
      BY <3>1, <3>2 DEF ProgramUser, EraseUser
  <2> HIDE DEF device, tables, layout, control, history
  <2> QED
    BY <2>2, <2>3, <2>4, <2>5, <2>6, <2>7, <2>8, <2>9, <2>10, <2>11
    DEF Running, SetUp, Find, Update, Serve, Reading
<1> QED
  BY <1>2, <1>3

LEMMA BufferNext ==
  ASSUME Held, Running
  PROVE  Buffer'
<1> USE DEF device, tables, layout, control, history
<1>1. Stages /\ Buffer /\ Fresh /\ find.then \in FindReturns /\ CleanFailures
  BY HeldFacts DEF TypeOK
<1> DEFINE Filling == ToBmt \/ Goal = "programBbt"
<1>2. Buffer = (Filling => buf.data = IF ToBbt THEN [bbt |-> bbt] ELSE [bmt |-> bmt])
  BY DEF Buffer, Want, Copying, ToBmt, ToBbt
<1>3. Buffer' = (Filling' => buf'.data = IF ToBbt' THEN [bbt |-> bbt'] ELSE [bmt |-> bmt'])
  BY DEF Buffer, Want, Copying, ToBmt, ToBbt
<1>4. ASSUME Filling' => Filling /\ (ToBbt' <=> ToBbt) /\ UNCHANGED <<buf, bmt, bbt>>
      PROVE  Buffer'
  BY <1>1, <1>2, <1>3, <1>4
<1> USE GoalIs DEF ToBmt, ToBbt
<1>5. CASE Reading
  <2>1. pc' \in SettingUp \cup {"dead", "save"}
    BY <1>5, ReadingFinds, HeldFacts
  <2> QED
    BY <1>3, <2>1 DEF SettingUp
<1>6. CASE Save
  <2>1. \/ buf'.data = [bmt |-> bmt] /\ pc' = "writeBmt"
        \/ pc' = "saveBbt"
    BY <1>6 DEF Save
  <2>2. bmt' = bmt
    BY <1>6 DEF Save
  <2> QED
    BY <1>3, <2>1, <2>2
<1>7. CASE FindBbtBlock
  <2>1. CASE /\ buf' = [data |-> [bbt |-> bbt], oob |-> CleanOob]
             /\ FindThen(FALSE, "programBbt")
    <3>1. find'.then = "programBbt" /\ pc' \in {"scan", "erasePool"} /\ bbt' = bbt
      BY <1>7, <2>1, FindThenIs DEF FindBbtBlock
    <3> QED
      BY <1>3, <2>1, <3>1
  <2>2. CASE pc' = "build"
    BY <1>3, <2>2
  <2> QED
    BY <1>7, <2>1, <2>2 DEF FindBbtBlock
<1>8. CASE FindBmtBlock
  <2>1. pc = "writeBmt" /\ UNCHANGED <<buf, bmt, bbt>> /\ FindThen(TRUE, "placeBmt")
    BY <1>8 DEF FindBmtBlock
  <2>2. find'.then = "placeBmt" /\ pc' \in {"scan", "erasePool"}
    BY <2>1, FindThenIs
  <2> QED
    BY <1>4, <2>1, <2>2
<1>9. CASE Relocate
  <2>1. PICK then \in {"copy", "remap"} : FindThen(FALSE, then)
    BY <1>9 DEF Relocate
  <2>2. find'.then = then /\ pc' \in {"scan", "erasePool"}
    BY <2>1, FindThenIs
  <2> QED
    BY <1>3, <2>1, <2>2
<1>10. CASE ProgramBbt
  <2>1. pc' = "build" \/ (pc' = "mark" /\ mark'.then = "saveBbt")
    BY <1>10 DEF ProgramBbt, MarkThen
  <2> QED
    BY <1>3, <2>1
<1>11. CASE BuildTable
  BY <1>3, <1>11 DEF BuildTable
<1>12. CASE ErasePool
  BY <1>1, <1>4, <1>12, ErasesPass DEF ErasePool
<1>13. CASE ErasePoolDone
  BY <1>1, <1>4, <1>13 DEF ErasePoolDone
<1>14. CASE Scan \/ ScanFails
  BY <1>1, <1>4, <1>14 DEF Scan, ScanFails, FindReturns
<1>15. CASE CopyPage \/ CopyLast
  <2>1. \/ pc' \in {"copy", "remap"}
        \/ pc' = "mark" /\ mark'.then = "relocate"
    BY <1>15 DEF CopyPage, CopyLast, AfterCopy, MarkThen
  <2> QED
    BY <1>3, <2>1
<1>16. CASE NothingFound
  BY <1>3, <1>16 DEF NothingFound
<1>17. CASE Remap
  BY <1>3, <1>17 DEF Remap
<1>18. CASE PlaceBmt
  BY <1>4, <1>18 DEF PlaceBmt
<1>19. CASE EraseBmt
  BY <1>1, <1>4, <1>19, ErasesPass DEF EraseBmt
<1>20. CASE ProgramBmt
  <2>1. /\ pc = "programBmt" /\ UNCHANGED <<buf, bmt, bbt>>
        /\ \/ pc' = "mark" /\ mark'.then = "writeBmt"
           \/ pc' = "saveBbt"
           \/ pc' = "mark" /\ mark'.then = "done"
    BY <1>20 DEF ProgramBmt, MarkThen, Retire
  <2> QED
    BY <1>4, <2>1
<1>21. CASE Mark
  <2>1. pc = "mark" /\ pc' = mark.then /\ UNCHANGED <<buf, bmt, bbt>>
        /\ mark.then \in {"relocate", "writeBmt", "saveBbt", "done"}
    BY <1>1, <1>21 DEF Mark, Stages
  <2> QED
    BY <1>4, <2>1
<1>22. CASE ProgramUser \/ EraseUser
  BY <1>3, <1>22 DEF ProgramUser, EraseUser
<1>23. CASE Done \/ Refuse
  BY <1>3, <1>23 DEF Done, Refuse
<1>24. CASE Request
  <2>1. pc' \in {"program", "erase", "ready"}
    BY <1>24 DEF Request, BeginErase, BeginWrite, UserRead
  <2> QED
    BY <1>3, <2>1
<1>25. CASE UNCHANGED vars
  BY <1>4, <1>25 DEF vars, Goal, At
<1> HIDE GoalIs DEF ToBmt, ToBbt, device, tables, layout, control, history, Filling
<1> QED
  BY <1>5, <1>6, <1>7, <1>8, <1>9, <1>10, <1>11, <1>12, <1>13, <1>14, <1>15, <1>16, <1>17,
     <1>18, <1>19, <1>20, <1>21, <1>22, <1>23, <1>24, <1>25
  DEF Running, SetUp, Find, Update, Serve, Reading

-----------------------------------------------------------------------------
(***************************************************************************)
(* The numbering of the logical blocks, and the block of a request.        *)
(***************************************************************************)
(* Where the logical blocks are: at their own place or at a replacement.   *)
LEMMA PhysicalApart ==
  ASSUME Held, Up, NEW l \in Logical
  PROVE  /\ l \in Blocks /\ Physical(l) \in Blocks
         /\ pBbt[l] \in 0 .. sys - 1
         /\ \/ /\ Physical(l) = pBbt[l] /\ Physical(l) \notin Pool
               /\ \A m \in DOMAIN bmt : bmt[m].bad # pBbt[l]
            \/ /\ Physical(l) \in Pool
               /\ \E m \in DOMAIN bmt :
                    /\ bmt[m].bad = pBbt[l] /\ bmt[m].mapped = Physical(l)
                    /\ m = First({k \in DOMAIN bmt : bmt[k].bad = pBbt[l]})
<1>1. pBbt \in [Logical -> 0 .. sys - 1]
  <2>1. At \in Serving \/ req.op # "boot"
    BY DEF At, Serving, Up
  <2>2. Numbered
    BY HeldFacts DEF TypeInv
  <2> QED
    BY <2>1, <2>2 DEF Numbered
<1>2. /\ pBbt[l] \in 0 .. sys - 1 /\ pBbt[l] \in Blocks /\ l \in Blocks
  <2>1. sys \in Nat /\ sys <= NBlocks - 1 /\ Len(bbt) \in Nat /\ NBlocks \in Nat
    BY HeldFacts, ChipFacts DEF TypeOK, Blocks
  <2>2. l \in 0 .. sys - 1
    BY <2>1 DEF Logical, LogicalCount
  <2>3. pBbt[l] \in 0 .. sys - 1
    BY <1>1
  <2>4. 0 .. sys - 1 \subseteq Blocks
    BY <2>1 DEF Blocks
  <2> QED
    BY <2>2, <2>3, <2>4
<1>3. bmt \in Seq(Entry) /\ DOMAIN bmt \in SUBSET Nat
  <2>1. bmt \in Seq(Entry)
    BY HeldFacts DEF TypeOK
  <2> QED
    BY <2>1
<1>4. Physical(l) \in Blocks
  BY <1>2, <1>3, ByBmtType DEF Physical
<1> DEFINE hits == {k \in DOMAIN bmt : bmt[k].bad = pBbt[l]}
<1>5. CASE hits = {}
  <2>1. Physical(l) = pBbt[l]
    BY <1>5 DEF Physical, ByBmt
  <2>2. pBbt[l] \notin Pool
    BY <1>2, HeldFacts DEF Pool
  <2>3. \A m \in DOMAIN bmt : bmt[m].bad # pBbt[l]
    BY <1>5
  <2> HIDE DEF hits
  <2> QED
    BY <1>2, <1>4, <2>1, <2>2, <2>3
<1>6. CASE hits # {}
  <2>1. First(hits) \in hits
    <3>1. hits \in SUBSET Nat
      BY <1>3
    <3> HIDE DEF hits
    <3> QED
      BY <1>6, <3>1, FirstIs
  <2>2. Physical(l) = bmt[First(hits)].mapped
    BY <1>6 DEF Physical, ByBmt
  <2>3. Physical(l) \in Pool
    BY <2>1, <2>2, HeldFacts DEF Ranges
  <2>4. \E m \in DOMAIN bmt : /\ bmt[m].bad = pBbt[l] /\ bmt[m].mapped = Physical(l)
                              /\ m = First(hits)
    BY <2>1, <2>2
  <2> QED
    BY <1>2, <1>4, <2>3, <2>4
<1> QED
  BY <1>5, <1>6

LEMMA PhysicalInjective ==
  ASSUME Held, Up, NEW x \in Logical, NEW y \in Logical, Physical(x) = Physical(y)
  PROVE  x = y
<1>1. pBbt[x] = pBbt[y]
  <2>1. CASE Physical(x) \notin Pool
    BY <2>1, PhysicalApart
  <2>2. CASE Physical(x) \in Pool
    <3>1. PICK m \in DOMAIN bmt : bmt[m].bad = pBbt[x] /\ bmt[m].mapped = Physical(x)
      BY <2>2, PhysicalApart
    <3>2. PICK k \in DOMAIN bmt : bmt[k].bad = pBbt[y] /\ bmt[k].mapped = Physical(y)
      BY <2>2, PhysicalApart
    <3>3. m = k
      BY <3>1, <3>2, HeldFacts DEF Undisturbed, InUseApart
    <3> QED
      BY <3>1, <3>2, <3>3
  <2> QED
    BY <2>1, <2>2
<1> QED
  BY <1>1, HeldFacts DEF Numbers

(* Nobody's data are in a pool block that stands for no other. *)
LEMMA PhysicalIsNot ==
  ASSUME Held, Up, NEW l \in Logical, NEW b \in Pool, ~Mapped(b)
  PROVE  Physical(l) # b
<1>1. \A m \in DOMAIN bmt : bmt[m].mapped # b
  BY DEF Mapped, MappedTo
<1> QED
  BY <1>1, PhysicalApart

(* The block a request of the users works on. *)
LEMMA WritingIs ==
  ASSUME Held, req.op = "write"
  PROVE  /\ Up /\ req.log \in Logical /\ req.blk = req.phys
         /\ ack[req.log][req.page] = Unknown
         /\ \A q \in Pages : q > req.page => ack[req.log][q] = Erased
         /\ Goal = "program" \/ Copying =>
              req.phys = Physical(req.log) /\ flash[req.phys][req.page].data = Erased
         /\ Goal = "program" \/ Copying =>
              \A q \in Pages : q > req.page => flash[req.phys][q].data = Erased
<1>1. Up
  BY DEF Up
<1>2. req.blk = req.phys
  BY HeldFacts DEF Undisturbed, Targets
<1>3. /\ req.log \in Logical
      /\ ack[req.log][req.page] = Unknown
      /\ \A q \in Pages : q > req.page => ack[req.log][q] = Erased
      /\ Goal = "program" \/ Copying =>
           req.phys = Physical(req.log) /\ flash[req.phys][req.page].data = Erased
  BY HeldFacts DEF Writing
<1>4. Goal = "program" \/ Copying =>
        \A q \in Pages : q > req.page => flash[req.phys][q].data = Erased
  BY <1>1, <1>3, HeldFacts, BmtAssumption DEF Kept
<1> QED
  BY <1>1, <1>2, <1>3, <1>4

(* Neither the numbering, nor the request, nor what is promised changes.   *)
Same == UNCHANGED <<bmt, bbt, sys, pBbt, req, ack, ops>>

-----------------------------------------------------------------------------
(***************************************************************************)
(* What each step does to the chip and to the tables.                      *)
(***************************************************************************)
LEMMA ProgramBbtDoes ==
  ASSUME Held, ProgramBbt
  PROVE  /\ pc = "programBbt" /\ found # 0 /\ Vacant(found) /\ Fits(found)
         /\ Goal = "programBbt" /\ req.op = "boot"
         /\ Same /\ UNCHANGED <<bmtAt, find, found, i>>
         /\ \E r : /\ Wrote(found, 0, Want(0), r) /\ Want(0) = [bbt |-> bbt]
                   /\ \/ r = "ok" /\ bbtAt' = found /\ pc' = "build" /\ Goal' = "build"
                      \/ /\ r = "clean" /\ bbtAt' = 0 /\ pc' = "mark" /\ Goal' = "saveBbt"
                         /\ mark'.blk = found /\ mark'.page = 0 /\ mark'.then = "saveBbt"
<1>1. pc = "programBbt" /\ found # 0 /\ UNCHANGED <<bmt, bbt, sys, pBbt, req, ack, ops, bmtAt, find, found, i>>
  BY DEF ProgramBbt, layout, history
<1>2. Goal = "programBbt" /\ Vacant(found) /\ Fits(found) /\ req.op = "boot"
  BY <1>1, GoalIs, HeldFacts DEF Undisturbed, FoundFree, FindReturns, Vacant, Offered, Stages
<1>3. buf.data = Want(0) /\ Want(0) = [bbt |-> bbt]
  BY <1>2, HeldFacts DEF Buffer, Want, Copying, ToBbt
<1>4. PICK r \in Results("program", found) :
        /\ Write(found, 0, buf.data, buf.oob, r)
        /\ IF r = "ok" THEN bbtAt' = found /\ pc' = "build" /\ UNCHANGED mark
           ELSE MarkThen(found, 0, "later", "saveBbt") /\ bbtAt' = 0
  BY DEF ProgramBbt
<1>5. Wrote(found, 0, Want(0), r)
  BY <1>2, <1>3, <1>4, HeldFacts, WriteDoes DEF Fits
<1>6. \/ r = "ok" /\ bbtAt' = found /\ pc' = "build" /\ Goal' = "build"
      \/ /\ r = "clean" /\ bbtAt' = 0 /\ pc' = "mark" /\ Goal' = "saveBbt"
         /\ mark'.blk = found /\ mark'.page = 0 /\ mark'.then = "saveBbt"
  BY <1>4, <1>5, GoalIs DEF MarkThen, Wrote
<1> QED
  BY <1>1, <1>2, <1>3, <1>5, <1>6 DEF Same

LEMMA ProgramBmtDoes ==
  ASSUME Held, ProgramBmt
  PROVE  /\ pc = "programBmt" /\ bmtAt # 0 /\ bmtAt \in Pool /\ ~Mapped(bmtAt) /\ bmtAt # bbtAt
         /\ Goal = "programBmt" /\ Fits(bmtAt)
         /\ Same /\ UNCHANGED <<bbtAt, find, found, i>>
         /\ \E r : /\ Wrote(bmtAt, 0, Want(0), r) /\ Want(0) = [bmt |-> bmt]
                   /\ \/ /\ r = "clean" /\ bmtAt' = 0 /\ pc' = "mark" /\ Goal' = "writeBmt"
                         /\ mark'.blk = bmtAt /\ mark'.page = 0 /\ mark'.then = "writeBmt"
                      \/ /\ r = "ok" /\ req.op = "boot" /\ bmtAt' = bmtAt
                         /\ pc' = "saveBbt" /\ Goal' = "saveBbt"
                      \/ /\ r = "ok" /\ req.op # "boot" /\ bmtAt' = bmtAt
                         /\ pc' = "mark" /\ Goal' = "done" /\ mark'.then = "done"
                         /\ mark'.blk = req.blk /\ mark'.page = req.page
<1>1. pc = "programBmt" /\ UNCHANGED <<bmt, bbt, sys, pBbt, req, ack, ops, bbtAt, find, found, i>>
  BY DEF ProgramBmt, layout, history
<1>2. Goal = "programBmt" /\ bmtAt # 0 /\ bmtAt \in Pool /\ Fits(bmtAt)
  BY <1>1, GoalIs, HeldFacts DEF Undisturbed, Placed, Ranges, Offered
<1>3. ~Mapped(bmtAt) /\ bmtAt # bbtAt
  BY <1>2, HeldFacts DEF Undisturbed, InUseApart
<1>4. buf.data = Want(0) /\ Want(0) = [bmt |-> bmt]
  BY <1>2, HeldFacts DEF Buffer, Want, Copying, ToBbt, ToBmt
<1>5. PICK r \in Results("program", bmtAt) :
        /\ Write(bmtAt, 0, buf.data, buf.oob, r)
        /\ IF r # "ok"
           THEN MarkThen(bmtAt, 0, "later", "writeBmt") /\ bmtAt' = 0
           ELSE /\ UNCHANGED bmtAt
                /\ IF req.op = "boot" THEN pc' = "saveBbt" /\ UNCHANGED mark ELSE Retire
  BY DEF ProgramBmt
<1>6. Wrote(bmtAt, 0, Want(0), r)
  BY <1>2, <1>4, <1>5, HeldFacts, WriteDoes DEF Fits
<1>7. \/ /\ r = "clean" /\ bmtAt' = 0 /\ pc' = "mark" /\ Goal' = "writeBmt"
         /\ mark'.blk = bmtAt /\ mark'.page = 0 /\ mark'.then = "writeBmt"
      \/ /\ r = "ok" /\ req.op = "boot" /\ bmtAt' = bmtAt
         /\ pc' = "saveBbt" /\ Goal' = "saveBbt"
      \/ /\ r = "ok" /\ req.op # "boot" /\ bmtAt' = bmtAt
         /\ pc' = "mark" /\ Goal' = "done" /\ mark'.then = "done"
         /\ mark'.blk = req.blk /\ mark'.page = req.page
  <2>1. CASE r = "clean"
    <3>1. MarkThen(bmtAt, 0, "later", "writeBmt") /\ bmtAt' = 0
      BY <1>5, <2>1
    <3> QED
      BY <2>1, <3>1, GoalIs DEF MarkThen
  <2>2. CASE r = "ok" /\ req.op = "boot"
    BY <1>5, <2>2, GoalIs
  <2>3. CASE r = "ok" /\ req.op # "boot"
    <3>1. Retire /\ bmtAt' = bmtAt
      BY <1>5, <2>3
    <3> QED
      BY <2>3, <3>1, GoalIs DEF MarkThen, Retire
  <2> QED
    BY <1>6, <2>1, <2>2, <2>3 DEF Wrote
<1> QED
  BY <1>1, <1>2, <1>3, <1>4, <1>6, <1>7 DEF Same

LEMMA CopyDoes ==
  ASSUME Held, CopyPage \/ CopyLast
  PROVE  /\ pc = "copy" /\ found # 0 /\ Vacant(found) /\ Fits(found) /\ found # req.blk
         /\ Copying /\ req.op = "write" /\ i \in Pages
         /\ Same /\ UNCHANGED <<bmtAt, bbtAt, find, found>>
         /\ \E r : /\ Wrote(found, i, Want(i), r) /\ i <= req.page
                   /\ \/ /\ r = "ok" /\ i < req.page /\ i' = i + 1
                         /\ pc' = "copy" /\ Goal' = "copy"
                      \/ r = "ok" /\ i = req.page /\ pc' = "remap" /\ Goal' = "remap"
                      \/ /\ r = "clean" /\ pc' = "mark" /\ Goal' = "relocate"
                         /\ mark'.blk = found /\ mark'.page = 0 /\ mark'.then = "relocate"
<1>1. /\ pc = "copy" /\ found # 0 /\ UNCHANGED <<bmt, bbt, sys, pBbt, req, ack, ops, bmtAt, bbtAt, find, found>>
  BY DEF CopyPage, CopyLast, tables, layout, history
<1>2. /\ Goal = "copy" /\ Copying /\ Vacant(found) /\ Fits(found) /\ req.op = "write"
  BY <1>1, GoalIs, HeldFacts DEF Undisturbed, FoundFree, FindReturns, Vacant, Offered, Stages, Copying
<1>3. /\ req.log \in Logical /\ Up /\ req.blk = req.phys /\ req.phys = Physical(req.log)
  BY <1>2, WritingIs
<1>4. found # req.blk
  BY <1>2, <1>3, PhysicalIsNot DEF Vacant
<1>5. i \in Pages /\ i <= req.page
  <2>1. i >= 0 /\ i \in Int
    BY <1>1, HeldFacts DEF TypeInv, TypeOK, Counters, At
  <2>2. i <= req.page
    BY <1>1, <1>2, HeldFacts DEF Filled
  <2> QED
    BY <2>1, <2>2, HeldFacts, ChipFacts DEF Pages
<1>6. CASE CopyPage
  <2> DEFINE c  == Read(flash, cache, req.blk, i)
             b2 == IF ReadOk(flash, cache, req.blk, i)
                   THEN [data |-> c.data, oob |-> WithIndex(c.map)]
                   ELSE [buf EXCEPT !.oob = WithIndex(@)]
             w  == Overlay(Read(flash, c, found, i), b2.data, b2.oob)
  <2>1. i < req.page
    BY <1>6 DEF CopyPage
  <2>2. Want(i) = flash[req.blk][i].data /\ Want(i) # Garbage /\ flash[found][i].data # Garbage
    BY <1>2, <1>5, <2>1, HeldFacts DEF Want, NoGarbage
  <2>3. c.page = <<req.blk, i>> /\ c.data = Want(i) /\ ReadOk(flash, cache, req.blk, i)
    <3>1. Trusted(req.log, i)
      BY <1>2, <2>1, HeldFacts DEF Trusted
    <3>2. cache.page = <<req.blk, i>> => cache.data = flash[req.blk][i].data
      BY <1>3, <1>5, <3>1, HeldFacts DEF Coherent
    <3> QED
      BY <2>2, <3>2, ReadIs
  <2>4. b2.data = Want(i)
    BY <2>3
  <2>5. c.page # <<found, i>>
    BY <1>4, <2>3
  <2>6. Read(flash, c, found, i) = [page |-> <<found, i>>, data |-> flash[found][i].data,
                                    oob |-> flash[found][i].oob, map |-> flash[found][i].oob]
    BY <2>2, <2>5 DEF Read
  <2> HIDE DEF c, b2
  <2>7. /\ w.page = <<found, i>> /\ w.data = Want(i) /\ w.map = flash[found][i].oob
    <3> DEFINE rd == [page |-> <<found, i>>, data |-> flash[found][i].data,
                      oob |-> flash[found][i].oob, map |-> flash[found][i].oob]
    <3>1. w = Overlay(rd, Want(i), b2.oob)
      BY <2>4, <2>6
    <3> QED
      BY <3>1 DEF Overlay
  <2> HIDE DEF w
  <2>8. PICK r \in Results("program", found) :
          /\ cache' = w
          /\ flash' = [flash EXCEPT ![found][i] = AfterProgram(flash[found][i], w.data, w.oob, r)]
          /\ AfterCopy(r, i' = i + 1 /\ UNCHANGED <<pc, mark>>)
    BY <1>6 DEF CopyPage, c, b2, w
  <2>9. Wrote(found, i, Want(i), r)
    <3>1. r \in {"ok", "clean"}
      BY HeldFacts, CleanResults
    <3>2. i = 0 => IF MarkedBad(cache') THEN ~Unmarked(found) ELSE Unmarked(found) \/ Stale(found)
      BY <2>7, <2>8 DEF MarkedBad, Unmarked
    <3>3. CASE r = "clean"
      <4>1. flash' = [flash EXCEPT ![found][i] = flash[found][i]]
        BY <2>8, <3>3 DEF AfterProgram
      <4>2. flash' = flash
        BY <4>1, HeldFacts DEF Flash
      <4>3. ~Unmarked(found) => flash'[found][0].oob.raw \/ flash'[found][0].oob.later
        BY <4>2 DEF Unmarked
      <4> QED
        BY <2>7, <2>8, <3>1, <3>2, <3>3, <4>2, <4>3 DEF Wrote
    <3>4. CASE r = "ok"
      <4> DEFINE new == Programmed(flash[found][i], w.data, w.oob)
      <4>1. flash' = [flash EXCEPT ![found][i] = new]
        BY <2>8, <3>4 DEF AfterProgram
      <4>2. flash[found][i].data \in {Erased, Want(i)}
        BY <1>2, <1>5 DEF Fits
      <4>3. new.data = IF Want(i) = Erased THEN flash[found][i].data ELSE Want(i)
        BY <2>7, <4>2 DEF Programmed
      <4>4. /\ flash[found][i].oob.raw => new.oob.raw
            /\ flash[found][i].oob.later => new.oob.later
        BY DEF Programmed, AndOob
      <4> HIDE DEF new
      <4>5. /\ flash'[found][i] = new
            /\ \A x \in Blocks, q \in Pages : x # found \/ q # i => flash'[x][q] = flash[x][q]
        BY <1>5, <4>1, HeldFacts DEF Flash
      <4>6. ~Unmarked(found) => flash'[found][0].oob.raw \/ flash'[found][0].oob.later
        <5>1. 0 \in Pages /\ found \in Blocks
          BY HeldFacts
        <5> QED
          BY <1>5, <4>4, <4>5, <5>1 DEF Unmarked
      <4> QED
        BY <2>7, <2>8, <3>1, <3>2, <3>4, <4>3, <4>5, <4>6 DEF Wrote
    <3> QED
      BY <3>1, <3>3, <3>4
  <2>10. \/ r = "ok" /\ i' = i + 1 /\ pc' = "copy" /\ Goal' = "copy"
         \/ /\ r = "clean" /\ pc' = "mark" /\ Goal' = "relocate"
            /\ mark'.blk = found /\ mark'.page = 0 /\ mark'.then = "relocate"
    BY <1>1, <2>8, <2>9, GoalIs DEF AfterCopy, MarkThen, Wrote
  <2> QED
    BY <1>1, <1>2, <1>4, <1>5, <2>1, <2>9, <2>10 DEF Same
<1>7. CASE CopyLast
  <2>1. i = req.page
    BY <1>7 DEF CopyLast
  <2>2. Want(i) = req.data
    BY <1>2, <1>5, <2>1, HeldFacts DEF Want
  <2>3. PICK r \in Results("program", found) :
          /\ Write(found, req.page, req.data, buf'.oob, r)
          /\ AfterCopy(r, pc' = "remap" /\ UNCHANGED <<i, mark>>)
    BY <1>7 DEF CopyLast
  <2>4. Wrote(found, i, Want(i), r)
    BY <1>2, <1>5, <2>1, <2>2, <2>3, HeldFacts, WriteDoes DEF Fits
  <2>5. \/ r = "ok" /\ pc' = "remap" /\ Goal' = "remap"
        \/ /\ r = "clean" /\ pc' = "mark" /\ Goal' = "relocate"
           /\ mark'.blk = found /\ mark'.page = 0 /\ mark'.then = "relocate"
    BY <1>1, <2>3, <2>4, GoalIs DEF AfterCopy, MarkThen, Wrote
  <2> QED
    BY <1>1, <1>2, <1>4, <1>5, <2>1, <2>4, <2>5 DEF Same
<1> QED
  BY <1>6, <1>7

(* A mark changes no data, unless it is that of the block being filled. *)
LEMMA MarkDoes ==
  ASSUME Held, Mark
  PROVE  /\ pc = "mark" /\ pc' = mark.then /\ Goal = mark.then /\ Goal' = mark.then
         /\ mark.then \in {"relocate", "writeBmt", "saveBbt", "done"}
         /\ Same /\ UNCHANGED <<bmtAt, bbtAt, find, found, i, mark>>
         /\ mark.then # "done" => Vacant(mark.blk) /\ Fits(mark.blk) /\ mark.page = 0
         /\ mark.then = "done" => req.op = "write" /\ mark.blk = req.blk /\ mark.page = req.page
         /\ \E r, d : /\ Wrote(mark.blk, mark.page, d, r)
                      /\ mark.then # "done" => d \in {Erased, Want(0)}
                      /\ mark.then = "done" => d = flash[mark.blk][mark.page].data
                      /\ r = "ok" /\ mark.page = 0 => flash'[mark.blk][0].oob.raw \/ flash'[mark.blk][0].oob.later
<1>1. pc = "mark" /\ pc' = mark.then /\ UNCHANGED <<bmt, bbt, sys, pBbt, req, ack, ops, bmtAt, bbtAt, find, found, i, mark>>
  BY DEF Mark, tables, layout, control, history
<1>2. mark.then \in {"relocate", "writeBmt", "saveBbt", "done"} /\ Goal = mark.then /\ Goal' = mark.then
  BY <1>1, GoalIs, HeldFacts DEF Stages
<1>3. mark.then # "done" => /\ Vacant(mark.blk) /\ Fits(mark.blk) /\ mark.page = 0
                            /\ cache.page = <<mark.blk, 0>> => cache.data \in {Erased, Want(0)}
  BY <1>1, HeldFacts DEF Marking
<1>4. mark.then = "done" => /\ req.op = "write" /\ mark.blk = req.blk /\ mark.page = req.page
                            /\ cache.page = <<mark.blk, mark.page>> => cache.data = flash[mark.blk][mark.page].data
  <2> SUFFICES ASSUME mark.then = "done"
               PROVE  /\ req.op = "write" /\ mark.blk = req.blk /\ mark.page = req.page
                      /\ cache.page = <<mark.blk, mark.page>> => cache.data = flash[mark.blk][mark.page].data
    OBVIOUS
  <2>1. req.op = "write" /\ cache.page = <<bmtAt, 0>> /\ cache.data = flash[bmtAt][0].data
    BY <1>1, HeldFacts DEF Stages, CachePlace
  <2>2. mark.blk = req.blk /\ mark.page = req.page
    BY <1>1, <2>1, HeldFacts DEF Writing
  <2> QED
    BY <2>1, <2>2
<1> DEFINE d == Read(flash, cache, mark.blk, mark.page).data
<1>5. PICK r \in Results("program", mark.blk) :
        Write(mark.blk, mark.page, d, MarkOob(mark.kind), r)
  BY DEF Mark
<1>6. /\ flash[mark.blk][mark.page].data # Garbage
      /\ d = flash[mark.blk][mark.page].data
         \/ (cache.page = <<mark.blk, mark.page>> /\ d = cache.data)
  BY HeldFacts, ReadIs DEF NoGarbage
<1> HIDE DEF d
<1>7. /\ mark.then # "done" => d \in {Erased, Want(0)} /\ flash[mark.blk][0].data \in {Erased, Want(0)}
      /\ mark.then = "done" => d = flash[mark.blk][mark.page].data
  BY <1>3, <1>4, <1>6, HeldFacts DEF Fits
<1>8. Wrote(mark.blk, mark.page, d, r)
  BY <1>3, <1>5, <1>7, HeldFacts, WriteDoes
<1>9. r = "ok" /\ mark.page = 0 => flash'[mark.blk][0].oob.raw \/ flash'[mark.blk][0].oob.later
  <2> SUFFICES ASSUME r = "ok", mark.page = 0 PROVE flash'[mark.blk][0].oob.raw \/ flash'[mark.blk][0].oob.later
    OBVIOUS
  <2>1. /\ cache'.oob = AndOob(Read(flash, cache, mark.blk, 0).oob, MarkOob(mark.kind))
        /\ flash' = [flash EXCEPT ![mark.blk][0] = Programmed(flash[mark.blk][0], d, cache'.oob)]
    BY <1>5, <1>6, HeldFacts, WriteIs
  <2>2. mark.kind \in MarkKinds
    BY HeldFacts DEF TypeOK
  <2>3. MarkOob(mark.kind).raw \/ MarkOob(mark.kind).later
    BY <2>2 DEF MarkOob, MarkKinds, CleanOob
  <2>4. flash'[mark.blk][0] = Programmed(flash[mark.blk][0], d, cache'.oob)
    BY <2>1, HeldFacts DEF Flash
  <2>5. cache'.oob.raw \/ cache'.oob.later
    BY <2>1, <2>3, AndKeeps
  <2>6. Programmed(flash[mark.blk][0], d, cache'.oob).oob = AndOob(flash[mark.blk][0].oob, cache'.oob)
    BY DEF Programmed
  <2> QED
    BY <2>4, <2>5, <2>6, AndKeeps
<1> QED
  BY <1>1, <1>2, <1>3, <1>4, <1>7, <1>8, <1>9 DEF Same

LEMMA ProgramUserDoes ==
  ASSUME Held, ProgramUser
  PROVE  /\ pc = "program" /\ Goal = "program" /\ req.op = "write"
         /\ Same /\ UNCHANGED <<bmtAt, bbtAt, find, found, i, mark>>
         /\ flash[req.phys][req.page].data = Erased
         /\ \E r : /\ Wrote(req.phys, req.page, req.data, r)
                   /\ \/ r = "ok" /\ pc' = "done" /\ Goal' = "done"
                      \/ r = "clean" /\ pc' = "relocate" /\ Goal' = "relocate"
<1>1. pc = "program" /\ UNCHANGED <<bmt, bbt, sys, pBbt, req, ack, ops, bmtAt, bbtAt, find, found, i, mark>>
  BY DEF ProgramUser, tables, layout, control, history
<1>2. Goal = "program" /\ req.op = "write"
  BY <1>1, GoalIs, HeldFacts DEF Stages
<1>3. flash[req.phys][req.page].data = Erased
  BY <1>2, WritingIs
<1>4. PICK r \in Results("program", req.phys) :
        /\ Write(req.phys, req.page, req.data, req.oob, r)
        /\ pc' = IF r = "ok" THEN "done" ELSE "relocate"
  BY DEF ProgramUser
<1>5. Wrote(req.phys, req.page, req.data, r)
  BY <1>3, <1>4, HeldFacts, WriteDoes
<1>6. \/ r = "ok" /\ pc' = "done" /\ Goal' = "done"
      \/ r = "clean" /\ pc' = "relocate" /\ Goal' = "relocate"
  BY <1>4, <1>5, GoalIs DEF Wrote
<1> QED
  BY <1>1, <1>2, <1>3, <1>5, <1>6 DEF Same

LEMMA ScanDoes ==
  ASSUME Held, Scan
  PROVE  /\ pc = "scan" /\ i \in Pool /\ flash' = flash
         /\ Goal = find.then /\ Goal' = Goal /\ Goal \in {"copy", "placeBmt", "programBbt"}
         /\ Same /\ UNCHANGED <<bmtAt, bbtAt, find, mark>>
         /\ IF Holds(i) THEN cache' = cache ELSE Reads(i, 0)
         /\ \/ /\ pc' = "scan" /\ found' = found
               /\ i' = IF find.fromEnd THEN i - 1 ELSE i + 1
               /\ Holds(i) \/ Mapped(i) \/ MarkedBad(cache')
            \/ /\ pc' = find.then /\ found' = i /\ i' = 0
               /\ Vacant(i) /\ ~MarkedBad(cache')
<1>1. /\ pc = "scan" /\ i \in Pool /\ flash' = flash
      /\ UNCHANGED <<bmt, bbt, sys, pBbt, req, ack, ops, bmtAt, bbtAt, find, mark>>
  BY DEF Scan, tables, layout, history
<1>2. Goal = find.then /\ Goal \in {"copy", "placeBmt", "programBbt"}
  BY <1>1, GoalIs, HeldFacts DEF Stages, TypeOK, FindReturns
<1>3. IF Holds(i) THEN cache' = cache ELSE Reads(i, 0)
  BY <1>1, HeldFacts, LoadDoes DEF Scan
<1>4. CASE Holds(i) \/ Unusable(cache', i)
  <2>1. /\ pc' = "scan" /\ found' = found
        /\ i' = IF find.fromEnd THEN i - 1 ELSE i + 1
    BY <1>1, <1>4 DEF Scan
  <2>2. Goal' = Goal
    BY <1>1, <1>2, <2>1, GoalIs
  <2>3. Holds(i) \/ Mapped(i) \/ MarkedBad(cache')
    BY <1>4 DEF Unusable
  <2> QED
    BY <1>1, <1>2, <1>3, <2>1, <2>2, <2>3 DEF Same
<1>5. CASE ~(Holds(i) \/ Unusable(cache', i))
  <2>1. pc' = find.then /\ found' = i /\ i' = 0
    BY <1>1, <1>5 DEF Scan
  <2>2. Goal' = Goal
    BY <1>1, <1>2, <2>1, GoalIs
  <2>3. Vacant(i) /\ ~MarkedBad(cache')
    BY <1>1, <1>5 DEF Unusable, Vacant
  <2> QED
    BY <1>1, <1>2, <1>3, <2>1, <2>2, <2>3 DEF Same
<1> QED
  BY <1>4, <1>5

Wiped(b) == flash' = [flash EXCEPT ![b] = [p \in Pages |-> Blank]]

LEMMA WipedFacts ==
  ASSUME flash \in Flash, NEW b \in Blocks, Wiped(b)
  PROVE  /\ \A p \in Pages : flash'[b][p] = Blank
         /\ \A x \in Blocks : x # b => flash'[x] = flash[x]
  BY DEF Wiped, Flash

LEMMA ErasePoolDoes ==
  ASSUME Held, ErasePool
  PROVE  /\ pc = "erasePool" /\ pc' = "erasePool" /\ i \in Blocks /\ ~poolErased
         /\ req.op = "boot" /\ ToBmt /\ Goal' = Goal
         /\ Same /\ UNCHANGED <<bmtAt, bbtAt, find, found, mark>>
         /\ cache' = cache \/ Reads(i, 0)
         /\ flash' = flash \/ (Wiped(i) /\ Reads(i, 0) /\ ~MarkedBad(cache'))
<1>1. /\ pc = "erasePool" /\ i < NBlocks
      /\ UNCHANGED <<bmt, bbt, sys, pBbt, req, ack, ops, bmtAt, bbtAt, find, found>>
  BY DEF ErasePool, tables, layout, history
<1>2. pc' = "erasePool" /\ mark' = mark
  BY HeldFacts, ErasesPass
<1>3. i \in Blocks
  BY <1>1, HeldFacts, ChipFacts DEF TypeInv, TypeOK, Counters, At, Blocks
<1>4. ~poolErased
  BY <1>1, HeldFacts DEF Stages
<1>5. req.op = "boot" /\ ToBmt
  BY <1>1, <1>4, HeldFacts DEF Fresh, SettingUp
<1>6. Goal' = Goal
  BY <1>1, <1>2, GoalIs
<1>7. CASE Holds(i)
  <2>1. cache' = cache /\ flash' = flash
    BY <1>7 DEF ErasePool, device
  <2> QED
    BY <1>1, <1>2, <1>3, <1>4, <1>5, <1>6, <2>1 DEF Same
<1>8. CASE ~Holds(i)
  <2>1. Load(i, 0)
    BY <1>8 DEF ErasePool
  <2>2. Reads(i, 0)
    BY <1>3, <2>1, HeldFacts, LoadDoes
  <2>3. flash' = flash \/ (~MarkedBad(cache') /\ \E r \in Results("erase", i) : Erase(i, r))
    BY <1>8 DEF ErasePool, Unusable
  <2>4. flash' = flash \/ (~MarkedBad(cache') /\ Wiped(i))
    BY <1>3, <2>3, HeldFacts, CleanErase DEF Wiped
  <2> QED
    BY <1>1, <1>2, <1>3, <1>4, <1>5, <1>6, <2>2, <2>4 DEF Same
<1> QED
  BY <1>7, <1>8

LEMMA EraseBmtDoes ==
  ASSUME Held, EraseBmt
  PROVE  /\ pc = "writeBmt" /\ pc' = "programBmt" /\ Goal = "writeBmt" /\ Goal' = "programBmt"
         /\ bmtAt # 0 /\ bmtAt \in Pool /\ ~Mapped(bmtAt) /\ Wiped(bmtAt)
         /\ cache' = cache /\ Same /\ UNCHANGED <<bmtAt, bbtAt, find, found, mark>>
<1>1. /\ pc = "writeBmt" /\ bmtAt # 0 /\ cache' = cache
      /\ UNCHANGED <<bmt, bbt, sys, pBbt, req, ack, ops, bbtAt, find, found>>
  BY DEF EraseBmt, layout, history
<1>2. pc' = "programBmt" /\ UNCHANGED <<bmtAt, mark>>
  BY HeldFacts, ErasesPass
<1>3. Goal = "writeBmt" /\ Goal' = "programBmt"
  BY <1>1, <1>2, GoalIs
<1>4. bmtAt \in Pool /\ ~Mapped(bmtAt)
  BY <1>1, HeldFacts DEF Ranges, Undisturbed, InUseApart
<1>5. \E r \in Results("erase", bmtAt) : Erase(bmtAt, r)
  BY DEF EraseBmt
<1>6. Wiped(bmtAt)
  BY <1>5, HeldFacts, CleanErase DEF Wiped
<1> QED
  BY <1>1, <1>2, <1>3, <1>4, <1>6 DEF Same

LEMMA EraseUserDoes ==
  ASSUME Held, EraseUser
  PROVE  /\ pc = "erase" /\ pc' = "done" /\ Goal = "erase" /\ Goal' = "done" /\ req.op = "erase"
         /\ Up /\ req.log \in Logical /\ req.phys = Physical(req.log) /\ Wiped(req.phys)
         /\ cache' = cache /\ cache.page = NoPage
         /\ Same /\ UNCHANGED <<bmtAt, bbtAt, find, found, mark>>
<1>1. /\ pc = "erase" /\ cache' = cache
      /\ UNCHANGED <<bmt, bbt, sys, pBbt, req, ack, ops, bmtAt, bbtAt, find, found, mark>>
  BY DEF EraseUser, tables, layout, control, history
<1>2. pc' = "done"
  BY HeldFacts, ErasesPass
<1>3. Goal = "erase" /\ Goal' = "done"
  BY <1>1, <1>2, GoalIs
<1>4. req.op = "erase"
  BY <1>3, HeldFacts DEF Stages
<1>5. cache.page = NoPage /\ Up /\ req.log \in Logical /\ req.phys = Physical(req.log)
  BY <1>4, HeldFacts DEF CachePlace, Erasing, Up
<1>6. \E r \in Results("erase", req.phys) : Erase(req.phys, r)
  BY DEF EraseUser
<1>7. Wiped(req.phys)
  BY <1>6, HeldFacts, CleanErase DEF Wiped
<1> QED
  BY <1>1, <1>2, <1>3, <1>4, <1>5, <1>7 DEF Same

LEMMA WantGood ==
  ASSUME Held, NEW p \in Pages
  PROVE  Want(p) # Garbage
<1>1. Erased # Garbage
  BY NandAssumption
<1>2. req.data # Garbage
  BY HeldFacts, NandAssumption DEF TypeOK, Requests
<1>3. \A b \in Blocks : flash[b][p].data # Garbage
  BY HeldFacts DEF NoGarbage
<1>4. [bmt |-> bmt] # Garbage /\ [bbt |-> bbt] # Garbage
  <2>1. [bmt |-> bmt] \in BmtPage /\ [bbt |-> bbt] \in BbtPage
    BY HeldFacts DEF TypeOK, BmtPage, BbtPage
  <2> QED
    BY <2>1, ErasedAssumption
<1> QED
  BY <1>1, <1>2, <1>3, <1>4, HeldFacts DEF Want

(* A step writes a page, erases a block, reads a page, forgets the one     *)
(* that is cached, or leaves the chip alone.                               *)
LEMMA Touches ==
  ASSUME Held, Running
  PROVE  \/ flash' = flash /\ (cache' = cache \/ cache'.page = NoPage)
         \/ flash' = flash /\ \E b \in Blocks, p \in Pages : Reads(b, p)
         \/ \E b \in Blocks, p \in Pages : \E r, d : d # Garbage /\ Wrote(b, p, d, r)
         \/ \E b \in Blocks : /\ Wiped(b)
                              /\ \/ Reads(b, 0) /\ ~MarkedBad(cache')
                                 \/ cache' = cache /\ cache.page # <<b, 0>>
<1> DEFINE Touch == \/ flash' = flash /\ (cache' = cache \/ cache'.page = NoPage)
                    \/ flash' = flash /\ \E b \in Blocks, p \in Pages : Reads(b, p)
                    \/ \E b \in Blocks, p \in Pages : \E r, d : d # Garbage /\ Wrote(b, p, d, r)
                    \/ \E b \in Blocks : /\ Wiped(b)
                                         /\ \/ Reads(b, 0) /\ ~MarkedBad(cache')
                                            \/ cache' = cache /\ cache.page # <<b, 0>>
<1>1. CASE Reading
  <2>1. /\ flash' = flash
        /\ cache' = cache \/ \E b \in Blocks : cache' = Read(flash, cache, b, 0)
    BY <1>1, ReadingFinds, HeldFacts
  <2>2. cache' = cache \/ \E b \in Blocks : Reads(b, 0)
    BY <2>1, HeldFacts, LoadDoes DEF Load
  <2> QED
    BY <2>1, <2>2, HeldFacts
<1>2. CASE Save \/ FindBbtBlock \/ BuildTable \/ ErasePoolDone \/ ScanFails
           \/ Relocate \/ NothingFound \/ Remap \/ FindBmtBlock \/ PlaceBmt
  <2>1. UNCHANGED <<flash, cache>>
    BY <1>2 DEF Save, FindBbtBlock, BuildTable, ErasePoolDone, ScanFails,
       Relocate, NothingFound, Remap, FindBmtBlock, PlaceBmt, device
  <2> QED
    BY <2>1
<1>3. CASE Done \/ Refuse \/ UNCHANGED vars
  BY <1>3 DEF Done, Refuse, vars, device
<1>4. CASE Scan
  <2>1. flash' = flash /\ (cache' = cache \/ Reads(i, 0)) /\ i \in Blocks /\ 0 \in Pages
    BY <1>4, ScanDoes, HeldFacts
  <2> QED
    BY <2>1
<1>5. CASE Request
  <2>1. CASE \E l \in Logical : BeginErase(l)
    BY <2>1 DEF BeginErase, ClearCache
  <2>2. CASE \E l \in Logical, p \in Pages, v \in Values : BeginWrite(l, p, v)
    BY <2>2 DEF BeginWrite, ClearCache
  <2>3. CASE \E l \in Logical, p \in Pages : UserRead(l, p)
    <3>1. PICK l \in Logical, p \in Pages : UserRead(l, p)
      BY <2>3
    <3>2. Physical(l) \in Blocks /\ Load(Physical(l), p) /\ flash' = flash
      BY <3>1, HeldFacts, PhysicalType DEF UserRead
    <3>3. Reads(Physical(l), p)
      BY <3>2, HeldFacts, LoadDoes
    <3> QED
      BY <3>2, <3>3
  <2> QED
    BY <1>5, <2>1, <2>2, <2>3 DEF Request
<1>6. CASE ErasePool
  <2>1. /\ i \in Blocks /\ 0 \in Pages /\ (cache' = cache \/ Reads(i, 0))
        /\ flash' = flash \/ (Wiped(i) /\ Reads(i, 0) /\ ~MarkedBad(cache'))
    BY <1>6, ErasePoolDoes, HeldFacts
  <2> QED
    BY <2>1
<1>7. CASE EraseBmt
  <2>1. bmtAt \in Blocks /\ Wiped(bmtAt) /\ cache' = cache /\ pc = "writeBmt" /\ bmtAt # 0
    BY <1>7, EraseBmtDoes, HeldFacts
  <2>2. cache.page # <<bmtAt, 0>>
    BY <2>1, HeldFacts DEF CachePlace
  <2> QED
    BY <2>1, <2>2
<1>8. CASE EraseUser
  <2>1. req.phys \in Blocks /\ Wiped(req.phys) /\ cache' = cache /\ cache.page = <<>>
    BY <1>8, EraseUserDoes, HeldFacts DEF NoPage
  <2>2. <<req.phys, 0>> # <<>>
    OBVIOUS
  <2> QED
    BY <2>1, <2>2
<1>9. CASE ProgramBbt
  <2>1. \E r : found \in Blocks /\ 0 \in Pages /\ Wrote(found, 0, Want(0), r)
    BY <1>9, ProgramBbtDoes, HeldFacts
  <2> QED
    BY <2>1, WantGood
<1>10. CASE ProgramBmt
  <2>1. \E r : bmtAt \in Blocks /\ 0 \in Pages /\ Wrote(bmtAt, 0, Want(0), r)
    BY <1>10, ProgramBmtDoes, HeldFacts
  <2> QED
    BY <2>1, WantGood
<1>11. CASE CopyPage \/ CopyLast
  <2>1. \E r : found \in Blocks /\ i \in Pages /\ Wrote(found, i, Want(i), r)
    BY <1>11, CopyDoes, HeldFacts
  <2> QED
    BY <2>1, WantGood
<1>12. CASE Mark
  <2>1. PICK r, d : /\ Wrote(mark.blk, mark.page, d, r)
                    /\ d \in {Erased, Want(0), flash[mark.blk][mark.page].data}
    BY <1>12, MarkDoes
  <2>2. d # Garbage
    BY <2>1, WantGood, HeldFacts, NandAssumption DEF NoGarbage
  <2> QED
    BY <2>1, <2>2, HeldFacts
<1>13. CASE ProgramUser
  <2>1. \E r : Wrote(req.phys, req.page, req.data, r)
    BY <1>13, ProgramUserDoes
  <2>2. req.data # Garbage
    BY HeldFacts, NandAssumption DEF TypeOK, Requests
  <2> QED
    BY <2>1, <2>2, HeldFacts
<1> HIDE DEF Touch
<1> QED
  BY <1>1, <1>2, <1>3, <1>4, <1>5, <1>6, <1>7, <1>8, <1>9, <1>10, <1>11, <1>12, <1>13
  DEF Running, SetUp, Find, Update, Serve, Reading, Touch

LEMMA PagesNext ==
  ASSUME Held, Running
  PROVE  NoGarbage' /\ CacheMarks'
<1>0. /\ flash \in Flash /\ cache \in Cache /\ NoGarbage /\ CacheMarks
      /\ 0 \in Pages
  BY HeldFacts
<1>1. CASE flash' = flash /\ (cache' = cache \/ cache'.page = NoPage)
  <2>1. NoGarbage'
    BY <1>0, <1>1 DEF NoGarbage
  <2>2. \A b \in Blocks : NoPage # <<b, 0>>
    BY DEF NoPage
  <2>3. CacheMarks'
    BY <1>0, <1>1, <2>2 DEF CacheMarks, MarkedBad, Unmarked
  <2> QED
    BY <2>1, <2>3
<1>2. CASE flash' = flash /\ \E b \in Blocks, p \in Pages : Reads(b, p)
  <2>1. NoGarbage'
    BY <1>0, <1>2 DEF NoGarbage
  <2>2. CacheMarks'
    <3> SUFFICES ASSUME NEW b \in Blocks, cache'.page = <<b, 0>>, MarkedBad(cache')
                 PROVE  ~Unmarked(b)'
      BY DEF CacheMarks
    <3>1. Reads(b, 0)
      BY <1>2 DEF Reads
    <3>2. ~Unmarked(b)
      BY <3>1 DEF Reads
    <3> QED
      BY <1>2, <3>2 DEF Unmarked
  <2> QED
    BY <2>1, <2>2
<1>3. CASE \E b \in Blocks, p \in Pages : \E r, d : d # Garbage /\ Wrote(b, p, d, r)
  <2>1. PICK b \in Blocks, p \in Pages : \E r, d : d # Garbage /\ Wrote(b, p, d, r)
    BY <1>3
  <2>2. PICK r, d : d # Garbage /\ Wrote(b, p, d, r)
    BY <2>1
  <2>3. NoGarbage'
    BY <1>0, <2>2, NandAssumption DEF NoGarbage, Wrote
  <2>4. CacheMarks'
    <3> SUFFICES ASSUME NEW x \in Blocks, cache'.page = <<x, 0>>, MarkedBad(cache')
                 PROVE  ~Unmarked(x)'
      BY DEF CacheMarks
    <3>1. x = b /\ p = 0
      BY <2>2 DEF Wrote
    <3>2. ~Unmarked(b)
      BY <2>2, <3>1 DEF Wrote
    <3>3. flash'[x][0].oob.raw \/ flash'[x][0].oob.later
      BY <2>2, <3>1, <3>2 DEF Wrote
    <3> QED
      BY <3>3 DEF Unmarked
  <2> QED
    BY <2>3, <2>4
<1>4. CASE \E b \in Blocks : /\ Wiped(b)
                             /\ \/ Reads(b, 0) /\ ~MarkedBad(cache')
                                \/ cache' = cache /\ cache.page # <<b, 0>>
  <2>1. PICK b \in Blocks : /\ Wiped(b)
                            /\ \/ Reads(b, 0) /\ ~MarkedBad(cache')
                               \/ cache' = cache /\ cache.page # <<b, 0>>
    BY <1>4
  <2>2. /\ \A p \in Pages : flash'[b][p] = Blank
        /\ \A x \in Blocks : x # b => flash'[x] = flash[x]
    BY <1>0, <2>1, WipedFacts
  <2>3. NoGarbage'
    BY <1>0, <2>2, NandAssumption DEF NoGarbage, Blank
  <2>4. CacheMarks'
    <3> SUFFICES ASSUME NEW x \in Blocks, cache'.page = <<x, 0>>, MarkedBad(cache')
                 PROVE  ~Unmarked(x)'
      BY DEF CacheMarks
    <3>1. x # b /\ cache' = cache
      BY <2>1 DEF Reads
    <3>2. ~Unmarked(x)
      BY <1>0, <3>1 DEF CacheMarks
    <3> QED
      BY <2>2, <3>1, <3>2 DEF Unmarked
  <2> QED
    BY <2>3, <2>4
<1> QED
  BY <1>1, <1>2, <1>3, <1>4, Touches

(* The chip and the page cached are left alone.                            *)
Idle == UNCHANGED <<flash, cache>>

LEMMA SaveDoes ==
  ASSUME Held, Save
  PROVE  /\ pc = "save" /\ Goal = "save" /\ pc' = "writeBmt" /\ Goal' = "writeBmt"
         /\ ~poolErased /\ req.op = "boot" /\ bmtAt = 0 /\ bbtAt = 0
         /\ Idle /\ Same /\ UNCHANGED <<bmtAt, bbtAt, found>>
<1>1. /\ pc = "save" /\ Goal = "save"
      /\ UNCHANGED <<flash, cache, bmt, bbt, sys, pBbt, req, ack, ops, bmtAt, bbtAt, found>>
  BY GoalIs DEF Save, device, tables, layout, control, history
<1>2. needBmt /\ ~poolErased
  BY <1>1, HeldFacts DEF Stages
<1>3. pc' = "writeBmt"
  BY <1>2 DEF Save
<1>4. req.op = "boot" /\ bmtAt = 0 /\ bbtAt = 0
  BY <1>2, HeldFacts DEF Fresh
<1> QED
  BY <1>1, <1>2, <1>3, <1>4, GoalIs DEF Idle, Same

LEMMA FindBbtBlockDoes ==
  ASSUME Held, FindBbtBlock
  PROVE  /\ pc = "saveBbt" /\ Goal = "saveBbt" /\ req.op = "boot"
         /\ \/ pc' = "scan" /\ Goal' = "programBbt"
            \/ pc' = "build" /\ Goal' = "build"
         /\ Idle /\ Same /\ UNCHANGED <<bmtAt, bbtAt, found>>
<1>1. /\ pc = "saveBbt" /\ Goal = "saveBbt"
      /\ UNCHANGED <<flash, cache, bmt, bbt, sys, pBbt, req, ack, ops, bmtAt, bbtAt, found>>
  BY GoalIs DEF FindBbtBlock, device, tables, layout, history
<1>2. req.op = "boot" /\ poolErased
  BY <1>1, HeldFacts DEF Stages, Fresh, SettingUp
<1>3. pc' = "build" \/ FindThen(FALSE, "programBbt")
  BY DEF FindBbtBlock
<1>4. CASE pc' = "build"
  BY <1>1, <1>2, <1>4, GoalIs DEF Idle, Same
<1>5. CASE FindThen(FALSE, "programBbt")
  <2>1. pc' = "scan" /\ find'.then = "programBbt"
    BY <1>2, <1>5, FindThenIs
  <2> QED
    BY <1>1, <1>2, <2>1, GoalIs DEF Idle, Same
<1> QED
  BY <1>3, <1>4, <1>5

LEMMA FindBmtBlockDoes ==
  ASSUME Held, FindBmtBlock
  PROVE  /\ pc = "writeBmt" /\ Goal = "writeBmt" /\ bmtAt = 0
         /\ pc' \in {"scan", "erasePool"} /\ Goal' = "placeBmt"
         /\ Idle /\ Same /\ UNCHANGED <<bmtAt, bbtAt, found>>
<1>1. /\ pc = "writeBmt" /\ Goal = "writeBmt" /\ bmtAt = 0 /\ FindThen(TRUE, "placeBmt")
      /\ UNCHANGED <<flash, cache, bmt, bbt, sys, pBbt, req, ack, ops, bmtAt, bbtAt, found>>
  BY GoalIs DEF FindBmtBlock, device, tables, layout, history
<1>2. pc' \in {"scan", "erasePool"} /\ find'.then = "placeBmt"
  BY <1>1, FindThenIs
<1> QED
  BY <1>1, <1>2, GoalIs DEF Idle, Same

LEMMA RelocateDoes ==
  ASSUME Held, Relocate
  PROVE  /\ pc = "relocate" /\ Goal = "relocate" /\ req.op = "write"
         /\ pc' = "scan" /\ Goal' = "copy" /\ ~find'.fromEnd /\ i' = sys
         /\ Idle /\ Same /\ UNCHANGED <<bmtAt, bbtAt, found>>
<1>1. /\ pc = "relocate" /\ Goal = "relocate"
      /\ UNCHANGED <<flash, cache, bmt, bbt, sys, pBbt, req, ack, ops, bmtAt, bbtAt, found>>
  BY GoalIs DEF Relocate, device, tables, layout, history
<1>2. req.op = "write" /\ poolErased
  BY <1>1, HeldFacts DEF Stages, Fresh, SettingUp
<1>3. FindThen(FALSE, "copy")
  BY <1>2 DEF Relocate
<1>4. pc' = "scan" /\ find'.then = "copy" /\ find'.fromEnd = FALSE /\ i' = Start(FALSE)
  BY <1>2, <1>3, FindThenIs
<1>5. i' = sys
  BY <1>4 DEF Start
<1> QED
  BY <1>1, <1>2, <1>4, <1>5, GoalIs DEF Idle, Same

LEMMA ErasePoolDoneDoes ==
  ASSUME Held, ErasePoolDone
  PROVE  /\ pc = "erasePool" /\ pc' = "scan" /\ Goal' = Goal /\ ToBmt /\ ~poolErased
         /\ req.op = "boot" /\ Idle /\ Same /\ UNCHANGED <<bmtAt, bbtAt, found, find>>
<1>1. /\ pc = "erasePool" /\ pc' = "scan"
      /\ UNCHANGED <<flash, cache, bmt, bbt, sys, pBbt, req, ack, ops, bmtAt, bbtAt, found, find>>
  BY DEF ErasePoolDone, device, tables, history
<1>2. ~poolErased
  BY <1>1, HeldFacts DEF Stages
<1>3. req.op = "boot" /\ ToBmt
  BY <1>1, <1>2, HeldFacts DEF Fresh, SettingUp
<1> QED
  BY <1>1, <1>2, <1>3, GoalIs DEF Idle, Same

LEMMA ScanFailsDoes ==
  ASSUME Held, ScanFails
  PROVE  /\ pc = "scan" /\ i \notin Pool /\ found' = 0 /\ i' = 0
         /\ pc' = find.then /\ Goal = find.then /\ Goal' = Goal
         /\ Goal \in {"copy", "placeBmt", "programBbt"}
         /\ Idle /\ Same /\ UNCHANGED <<bmtAt, bbtAt, find>>
<1>1. /\ pc = "scan" /\ i \notin Pool /\ found' = 0 /\ i' = 0 /\ pc' = find.then
      /\ UNCHANGED <<flash, cache, bmt, bbt, sys, pBbt, req, ack, ops, bmtAt, bbtAt, find>>
  BY DEF ScanFails, device, tables, layout, history
<1>2. Goal = find.then /\ Goal \in {"copy", "placeBmt", "programBbt"}
  BY <1>1, GoalIs, HeldFacts DEF Stages, TypeOK, FindReturns
<1>3. Goal' = Goal
  BY <1>1, <1>2, GoalIs
<1> QED
  BY <1>1, <1>2, <1>3 DEF Idle, Same

LEMMA RemapDoes ==
  ASSUME Held, Remap
  PROVE  /\ pc = "remap" /\ Goal = "remap" /\ Copying /\ req.op = "write"
         /\ found # 0 /\ Vacant(found) /\ cache.page = <<found, req.page>>
         /\ pc' = "writeBmt" /\ Goal' = "writeBmt"
         /\ Idle /\ UNCHANGED <<bbt, sys, pBbt, req, ack, ops, bmtAt, bbtAt, found>>
<1>1. /\ pc = "remap" /\ found # 0 /\ pc' = "writeBmt"
      /\ UNCHANGED <<flash, cache, bbt, sys, pBbt, req, ack, ops, bmtAt, bbtAt, found>>
  BY DEF Remap, device, layout, control, history
<1>2. Goal = "remap" /\ Goal' = "writeBmt"
  BY <1>1, GoalIs
<1>3. req.op = "write" /\ Vacant(found) /\ cache.page = <<found, req.page>>
  BY <1>1, <1>2, HeldFacts DEF Stages, Undisturbed, FoundFree, FindReturns, Vacant, CachePlace
<1> QED
  BY <1>1, <1>2, <1>3 DEF Idle, Copying

LEMMA PlaceBmtDoes ==
  ASSUME Held, PlaceBmt
  PROVE  /\ pc = "placeBmt" /\ Goal = "placeBmt" /\ found # 0 /\ Vacant(found) /\ Fits(found)
         /\ bmtAt = 0 /\ bmtAt' = found /\ pc' = "programBmt" /\ Goal' = "programBmt"
         /\ Idle /\ Same /\ UNCHANGED <<bbtAt, found>>
<1>1. /\ pc = "placeBmt" /\ found # 0 /\ pc' = "programBmt" /\ bmtAt' = found
      /\ UNCHANGED <<flash, cache, bmt, bbt, sys, pBbt, req, ack, ops, bbtAt, found>>
  BY DEF PlaceBmt, device, layout, control, history
<1>2. Goal = "placeBmt" /\ Goal' = "programBmt"
  BY <1>1, GoalIs
<1>3. bmtAt = 0 /\ Vacant(found) /\ Fits(found)
  BY <1>1, <1>2, HeldFacts DEF Homeless, Undisturbed, FoundFree, FindReturns, Vacant, Offered
<1> QED
  BY <1>1, <1>2, <1>3 DEF Idle, Same

LEMMA NothingFoundDoes ==
  ASSUME Held, NothingFound
  PROVE  /\ pc \in {"copy", "remap", "placeBmt", "programBbt"} /\ found = 0
         /\ pc' = "refused" /\ Goal' = "refused"
         /\ Idle /\ Same /\ UNCHANGED <<bmtAt, bbtAt, found>>
  BY GoalIs DEF NothingFound, device, tables, layout, control, history, Idle, Same

LEMMA BuildTableDoes ==
  ASSUME Held, BuildTable
  PROVE  /\ pc = "build" /\ Goal = "build" /\ pc' = "ready" /\ Goal' = "ready" /\ req.op = "boot"
         /\ pBbt' = TableBuilt(sys, bbt)
         /\ Idle /\ UNCHANGED <<bmt, bbt, sys, req, ack, bmtAt, bbtAt, found>>
<1>1. Goal = "build" /\ Goal' = "ready"
  BY GoalIs DEF BuildTable
<1> QED
  BY <1>1, HeldFacts DEF BuildTable, device, tables, layout, control, history, Idle, Stages

(* The steps that are not the driver's own. *)
LEMMA RequestDoes ==
  ASSUME Held, Request
  PROVE  /\ pc = "ready" /\ Goal = "ready" /\ req.op = "boot" /\ Up
         /\ pc' \in {"ready", "program", "erase"} /\ Goal' = pc' /\ flash' = flash
         /\ UNCHANGED <<bmt, bbt, sys, pBbt, bmtAt, bbtAt, found>>
<1>1. /\ pc = "ready" /\ pc' \in {"ready", "program", "erase"} /\ flash' = flash
      /\ UNCHANGED <<bmt, bbt, sys, pBbt, bmtAt, bbtAt, found>>
  <2>1. ASSUME NEW l \in Logical, BeginErase(l)
        PROVE  /\ pc = "ready" /\ pc' \in {"ready", "program", "erase"} /\ flash' = flash
               /\ UNCHANGED <<bmt, bbt, sys, pBbt, bmtAt, bbtAt, found>>
    BY <2>1 DEF BeginErase, tables, layout, control
  <2>2. ASSUME NEW l \in Logical, NEW p \in Pages, NEW v \in Values, BeginWrite(l, p, v)
        PROVE  /\ pc = "ready" /\ pc' \in {"ready", "program", "erase"} /\ flash' = flash
               /\ UNCHANGED <<bmt, bbt, sys, pBbt, bmtAt, bbtAt, found>>
    BY <2>2 DEF BeginWrite, tables, layout, control
  <2>3. ASSUME NEW l \in Logical, NEW p \in Pages, UserRead(l, p)
        PROVE  /\ pc = "ready" /\ pc' \in {"ready", "program", "erase"} /\ flash' = flash
               /\ UNCHANGED <<bmt, bbt, sys, pBbt, bmtAt, bbtAt, found>>
    BY <2>3 DEF UserRead, tables, layout, control
  <2> QED
    BY <2>1, <2>2, <2>3 DEF Request
<1>2. Goal = "ready" /\ Goal' = pc'
  BY <1>1, GoalIs
<1> QED
  BY <1>1, <1>2, HeldFacts DEF Stages, Up

LEMMA DoneDoes ==
  ASSUME Held, Done \/ Refuse
  PROVE  /\ pc \in {"done", "refused"} /\ pc' \in {"ready", "dead"} /\ Goal' = pc' /\ Goal = pc
         /\ Done => req.op # "boot" /\ pc' = "ready" /\ pc = "done"
         /\ Refuse => ack' = ack /\ pc' = (IF req.op = "boot" THEN "dead" ELSE "ready")
         /\ req'.op = "boot"
         /\ Idle /\ UNCHANGED <<bmt, bbt, sys, pBbt, bmtAt, bbtAt, found>>
<1>1. /\ pc \in {"done", "refused"} /\ pc' \in {"ready", "dead"}
      /\ Done => pc' = "ready" /\ pc = "done"
      /\ Refuse => ack' = ack /\ pc' = (IF req.op = "boot" THEN "dead" ELSE "ready")
      /\ req'.op = "boot"
      /\ UNCHANGED <<flash, cache, bmt, bbt, sys, pBbt, bmtAt, bbtAt, found>>
  <2>1. CASE Done
    BY <2>1 DEF Done, Refuse, None, device, tables, layout, control, history
  <2>2. CASE Refuse
    BY <2>2 DEF Done, Refuse, None, device, tables, layout, control, history
  <2> QED
    BY <2>1, <2>2
<1>2. Goal' = pc' /\ Goal = pc
  BY <1>1, GoalIs
<1> QED
  BY <1>1, <1>2, HeldFacts DEF Stages, Idle

LEMMA CachePlaceNext ==
  ASSUME Held, Running
  PROVE  CachePlace'
<1>1. /\ Stages /\ CachePlace /\ Homeless /\ cache \in Cache
      /\ pc \notin {"erase", "done"} => req.op # "erase"
  BY HeldFacts DEF Stages
<1>2. ASSUME pc' \notin {"remap", "writeBmt", "mark"}, req'.op # "erase"
      PROVE  CachePlace'
  BY <1>2 DEF CachePlace
<1>3. CASE Reading
  BY <1>2, <1>3, ReadingFinds, HeldFacts DEF SettingUp
<1>4. CASE FindBbtBlock \/ FindBmtBlock \/ Relocate
  BY <1>1, <1>2, <1>4, FindBbtBlockDoes, FindBmtBlockDoes, RelocateDoes DEF Same
<1>5. CASE ErasePool \/ ErasePoolDone \/ Scan \/ ScanFails
  <2>1. pc' \in {"erasePool", "scan", "copy", "placeBmt", "programBbt"}
    BY <1>5, ErasePoolDoes, ErasePoolDoneDoes, ScanDoes, ScanFailsDoes
  <2>2. pc \in {"erasePool", "scan"} /\ req' = req
    BY <1>5, ErasePoolDoes, ErasePoolDoneDoes, ScanDoes, ScanFailsDoes DEF Same
  <2> QED
    BY <1>1, <1>2, <2>1, <2>2
<1>6. CASE NothingFound \/ PlaceBmt \/ EraseBmt \/ BuildTable
  <2>1. /\ pc' \in {"refused", "programBmt", "ready"} /\ req' = req
        /\ pc \in {"copy", "remap", "placeBmt", "programBbt", "writeBmt", "build"}
    BY <1>6, NothingFoundDoes, PlaceBmtDoes, EraseBmtDoes, BuildTableDoes DEF Same
  <2> QED
    BY <1>1, <1>2, <2>1
<1>7. CASE ProgramUser \/ Done \/ Refuse
  BY <1>2, <1>7, ProgramUserDoes, DoneDoes DEF Same
<1>8. CASE Save
  BY <1>8, SaveDoes DEF CachePlace, Same
<1>9. CASE CopyPage \/ CopyLast
  <2>1. /\ req' = req /\ bmtAt' = bmtAt /\ found' = found /\ req.op = "write"
        /\ found # 0 /\ found # bmtAt
        /\ \/ pc' = "copy"
           \/ pc' = "remap" /\ cache'.page = <<found, req.page>>
           \/ pc' = "mark" /\ mark'.then = "relocate"
    BY <1>9, CopyDoes DEF Same, Vacant, Holds, Wrote
  <2> QED
    BY <2>1 DEF CachePlace
<1>10. CASE Remap
  BY <1>10, RemapDoes DEF CachePlace, Idle, Vacant, Holds
<1>11. CASE ProgramBbt
  BY <1>11, ProgramBbtDoes DEF CachePlace, Same
<1>12. CASE ProgramBmt
  <2>1. /\ req' = req /\ pc = "programBmt"
        /\ \/ pc' = "mark" /\ mark'.then = "writeBmt"
           \/ pc' = "saveBbt"
           \/ /\ pc' = "mark" /\ bmtAt' = bmtAt /\ bmtAt # 0
              /\ Wrote(bmtAt, 0, Want(0), "ok") /\ Want(0) = [bmt |-> bmt]
    BY <1>12, ProgramBmtDoes DEF Same
  <2>2. [bmt |-> bmt] # Erased
    BY ErasedAssumption, HeldFacts DEF TypeOK, BmtPage
  <2>3. Wrote(bmtAt, 0, Want(0), "ok") /\ Want(0) = [bmt |-> bmt] =>
          cache'.page = <<bmtAt, 0>> /\ cache'.data = flash'[bmtAt][0].data
    BY <2>2 DEF Wrote
  <2> QED
    BY <1>1, <2>1, <2>3 DEF CachePlace
<1>13. CASE Mark
  <2>1. /\ pc = "mark" /\ pc' = mark.then /\ req' = req /\ bmtAt' = bmtAt
        /\ mark.then \in {"relocate", "writeBmt", "saveBbt", "done"}
    BY <1>13, MarkDoes DEF Same
  <2>2. mark.then = "writeBmt" => bmtAt = 0
    BY <1>1, <2>1 DEF Homeless
  <2> QED
    BY <1>1, <2>1, <2>2 DEF CachePlace
<1>14. CASE EraseUser
  BY <1>14, EraseUserDoes DEF CachePlace
<1>15. CASE Request
  <2>1. ASSUME NEW l \in Logical, BeginErase(l)
        PROVE  CachePlace'
    BY <1>1, <2>1 DEF BeginErase, ClearCache, Cache, CachePlace
  <2>2. ASSUME NEW l \in Logical, NEW p \in Pages, NEW v \in Values, BeginWrite(l, p, v)
        PROVE  CachePlace'
    BY <1>2, <2>2 DEF BeginWrite
  <2>3. ASSUME NEW l \in Logical, NEW p \in Pages, UserRead(l, p)
        PROVE  CachePlace'
    BY <1>1, <1>2, <2>3 DEF UserRead, history
  <2> QED
    BY <1>15, <2>1, <2>2, <2>3 DEF Request
<1>16. CASE UNCHANGED vars
  BY <1>1, <1>16 DEF vars, device, tables, layout, control, history, CachePlace
<1> QED
  BY <1>3, <1>4, <1>5, <1>6, <1>7, <1>8, <1>9, <1>10, <1>11, <1>12, <1>13, <1>14, <1>15, <1>16
  DEF Running, SetUp, Find, Update, Serve, Reading

-----------------------------------------------------------------------------
(***************************************************************************)
(* Vacancies: the free blocks of the pool hold nothing but what is being   *)
(* copied, or a table being written.                                       *)
(***************************************************************************)
LEMMA WantSame ==
  ASSUME Held, Copying' <=> Copying, ToBbt' <=> ToBbt, UNCHANGED <<req, bmt, bbt>>,
         Copying => \A q \in Pages : flash'[req.blk][q].data = flash[req.blk][q].data
  PROVE  \A p \in Pages : Want(p)' = Want(p)
<1> SUFFICES ASSUME NEW p \in Pages PROVE Want(p)' = Want(p)
  OBVIOUS
<1>1. CASE Copying
  <2>1. flash'[req.blk][p].data = flash[req.blk][p].data
    BY <1>1
  <2> QED
    BY <1>1, <2>1 DEF Want
<1>2. CASE ~Copying
  BY <1>2 DEF Want
<1> QED
  BY <1>1, <1>2

(* A write leaves no copy but its own, and marks nothing as good. *)
LEMMA MarksStay ==
  ASSUME Held, NEW b \in Blocks, NEW p \in Pages, NEW d, NEW r, Wrote(b, p, d, r)
  PROVE  /\ \A x \in Blocks : Stale(x)' => x = b /\ p = 0 /\ (Unmarked(b) \/ Stale(b))
         /\ \A x \in Blocks : ~Unmarked(x) => ~Unmarked(x)'
         /\ \A x \in Blocks : ~Unmarked(x) /\ ~Stale(x) => ~Unmarked(x)' /\ ~Stale(x)'
<1>1. \A x \in Blocks : Stale(x)' => x = b /\ p = 0 /\ (Unmarked(b) \/ Stale(b))
  BY DEF Stale, Wrote
<1>2. \A x \in Blocks : ~Unmarked(x) => ~Unmarked(x)'
  <2> SUFFICES ASSUME NEW x \in Blocks, ~Unmarked(x) PROVE ~Unmarked(x)'
    OBVIOUS
  <2>1. CASE x = b
    BY <2>1 DEF Wrote, Unmarked
  <2>2. CASE x # b
    BY <2>2, HeldFacts DEF Wrote, Unmarked
  <2> QED
    BY <2>1, <2>2
<1> QED
  BY <1>1, <1>2

LEMMA ReadsMarks ==
  ASSUME Held, NEW b \in Blocks, Reads(b, 0), flash' = flash
  PROVE  /\ \A x \in Blocks : Stale(x)' => x = b /\ (Unmarked(b) \/ Stale(b))
         /\ MarkedBad(cache') => ~Unmarked(b) /\ ~Stale(b)'
         /\ ~MarkedBad(cache') => Unmarked(b) \/ Stale(b)
         /\ \A x \in Blocks : ~Unmarked(x) /\ ~Stale(x) => ~Unmarked(x)' /\ ~Stale(x)'
<1>1. \A x \in Blocks : Stale(x)' => x = b /\ (Unmarked(b) \/ Stale(b))
  BY DEF Stale, Reads
<1>2. /\ MarkedBad(cache') => ~Unmarked(b) /\ ~Stale(b)'
      /\ ~MarkedBad(cache') => Unmarked(b) \/ Stale(b)
  BY DEF Stale, Reads
<1>3. \A x \in Blocks : Unmarked(x)' <=> Unmarked(x)
  BY DEF Unmarked
<1> QED
  BY <1>1, <1>2, <1>3

(* Pool blocks in use or free stay so while the tables do. *)
LEMMA VacantSame ==
  ASSUME UNCHANGED <<bmt, sys, bmtAt, bbtAt>>
  PROVE  \A b : /\ Vacant(b)' <=> Vacant(b)
                /\ Holds(b)' <=> Holds(b)
                /\ Mapped(b)' <=> Mapped(b)
                /\ b \in Pool' <=> b \in Pool
  BY DEF Vacant, Holds, Mapped, MappedTo, Pool

LEMMA DirtySame ==
  ASSUME Held, NEW d \in Blocks, Vacant(d)' => Vacant(d),
         \A q \in Pages : flash'[d][q] = flash[d][q], Dirty(d)'
  PROVE  Dirty(d)
<1>1. flash'[d][0] = flash[d][0]
  BY HeldFacts
<1>2. Unmarked(d)' <=> Unmarked(d)
  BY <1>1 DEF Unmarked
<1>3. Empty(d)' <=> Empty(d)
  BY DEF Empty, HoldsNothing
<1> QED
  BY <1>2, <1>3 DEF Dirty

(* With no block half filled a step keeps Vacancies if it leaves none.     *)
LEMMA NoneDirty ==
  ASSUME ~Copying', \A d \in Blocks : ~Dirty(d)',
         pc' \notin FindReturns \cup {"programBmt"},
         ToBmt' \/ ToBbt' => \A b \in Blocks : Vacant(b)' /\ Stale(b)' => Fits(b)',
         Marking'
  PROVE  Vacancies'
<1>1. Dirt'
  BY DEF Dirt
<1>2. Line'
  <2>1. pc' \notin {"copy", "remap"}
    BY DEF FindReturns
  <2>2. ~(pc' = "mark" /\ mark'.then = "relocate")
    BY DEF Copying, Goal, At
  <2> QED
    BY <2>1, <2>2 DEF Line
<1>3. Offered'
  BY DEF Offered
<1> QED
  BY <1>1, <1>2, <1>3 DEF Vacancies

(* Marking speaks of a mark under way. *)
LEMMA NoMarking ==
  ASSUME pc' # "mark" \/ mark'.then = "done"
  PROVE  Marking'
  BY DEF Marking

LEMMA NotCopying ==
  ASSUME Held, ~Copying
  PROVE  \A d \in Blocks : ~Dirty(d)
  BY HeldFacts DEF Dirt

(* While a search looks for a block, what it has passed stays passed. *)
LEMMA ScanVacancies ==
  ASSUME Held, Scan
  PROVE  Vacancies'
<1>1. /\ pc = "scan" /\ i \in Pool /\ i \in Blocks /\ flash' = flash
      /\ Goal = find.then /\ Goal' = Goal /\ Goal \in {"copy", "placeBmt", "programBbt"}
      /\ UNCHANGED <<bmt, bbt, sys, req, bmtAt, bbtAt, find>>
      /\ IF Holds(i) THEN cache' = cache ELSE Reads(i, 0)
      /\ \/ /\ pc' = "scan" /\ found' = found
            /\ i' = IF find.fromEnd THEN i - 1 ELSE i + 1
            /\ Holds(i) \/ Mapped(i) \/ MarkedBad(cache')
         \/ /\ pc' = find.then /\ found' = i /\ i' = 0
            /\ Vacant(i) /\ ~MarkedBad(cache')
  BY ScanDoes, HeldFacts DEF Same
<1>2. /\ Copying' <=> Copying
      /\ ToBbt' <=> ToBbt
      /\ Copying \/ ToBmt \/ ToBbt
      /\ Copying => Goal = "copy"
  BY <1>1 DEF Copying, ToBmt, ToBbt
<1>3. \A p \in Pages : Want(p)' = Want(p)
  BY <1>1, <1>2, WantSame
<1>4. \A b : /\ Vacant(b)' <=> Vacant(b)
             /\ Holds(b)' <=> Holds(b)
             /\ Mapped(b)' <=> Mapped(b)
             /\ b \in Pool' <=> b \in Pool
  BY <1>1, VacantSame
<1>5. \A b \in Blocks : Fits(b)' <=> Fits(b)
  BY <1>1, <1>3 DEF Fits
<1>6. /\ \A x \in Blocks : Stale(x)' => Stale(x) \/ (x = i /\ (Unmarked(i) \/ Stale(i)))
      /\ \A x \in Blocks : ~Unmarked(x) /\ ~Stale(x) => ~Unmarked(x)' /\ ~Stale(x)'
  <2>1. CASE Holds(i)
    BY <1>1, <2>1 DEF Stale, Unmarked
  <2>2. CASE ~Holds(i)
    BY <1>1, <2>2, ReadsMarks
  <2> QED
    BY <2>1, <2>2
<1>7. \A d \in Blocks : InLine(d) => InLine(d)'
  <2>1. \A b \in Pool : Passed(b) => Passed(b)'
    BY <1>4, <1>6, HeldFacts DEF Passed
  <2> QED
    BY <1>4, <2>1 DEF InLine
<1>8. \A d \in Blocks : Dirty(d)' => Dirty(d)
  BY <1>1, <1>4, DirtySame
<1>9. pc' # "scan" => Unmarked(i) \/ Stale(i)
  BY <1>1, ReadsMarks DEF Vacant
<1>10. Fits(i) \/ pc' = "scan"
  <2> SUFFICES ASSUME pc' # "scan" PROVE Fits(i)
    OBVIOUS
  <2>1. CASE Stale(i)
    BY <1>1, <1>2, <2>1, HeldFacts DEF Offered
  <2>2. CASE Unmarked(i) /\ ~Empty(i)
    BY <1>1, <2>2, HeldFacts DEF Dirty, Dirt
  <2>3. CASE Empty(i)
    BY <2>3 DEF Empty, HoldsNothing, Fits
  <2> QED
    BY <1>9, <2>1, <2>2, <2>3
<1>11. Dirt'
  <2> SUFFICES ASSUME NEW d \in Blocks, Dirty(d)'
               PROVE  /\ Copying' /\ Fits(d)' /\ InLine(d)'
                      /\ pc' \in {"copy", "remap", "mark"} => d = found'
    BY DEF Dirt
  <2>1. Dirty(d) /\ Copying /\ Fits(d) /\ InLine(d)
    BY <1>8, HeldFacts DEF Dirt
  <2>2. ASSUME pc' # "scan" PROVE d = i
    <3>1. InLine(i)
      BY <1>1, <2>1, HeldFacts DEF Line
    <3>2. ~(d < i)
      <4>1. ~Passed(d) /\ d \in Pool
        BY <2>1 DEF Dirty, Vacant, Passed
      <4> QED
        BY <3>1, <4>1 DEF InLine
    <3>3. ~(i < d)
      <4>1. ~Passed(i)
        BY <1>1, <1>9, <2>2 DEF Vacant, Passed
      <4> QED
        BY <1>1, <2>1, <4>1 DEF InLine
    <3> QED
      BY <1>1, <3>2, <3>3, HeldFacts
  <2>3. pc' \in {"copy", "remap", "mark"} => d = found'
    BY <1>1, <2>2
  <2> QED
    BY <1>2, <1>5, <1>7, <2>1, <2>3
<1>12. ASSUME Copying, pc' = "scan"
       PROVE  ~find'.fromEnd /\ InLine(i)' /\ i' >= sys'
  <2>1. ~find.fromEnd /\ InLine(i) /\ i >= sys
    BY <1>1, <1>12, HeldFacts DEF Line
  <2>2. i' = i + 1 /\ (Holds(i) \/ Mapped(i) \/ MarkedBad(cache'))
    BY <1>1, <1>12, <2>1, HeldFacts DEF FindReturns
  <2>3. ASSUME NEW x \in Pool, x = i
        PROVE  Passed(x)'
    <3>1. CASE Holds(x) \/ Mapped(x)
      BY <1>4, <3>1 DEF Passed
    <3>2. CASE ~Holds(x) /\ MarkedBad(cache')
      BY <1>1, <2>3, <3>2, ReadsMarks DEF Passed, Unmarked
    <3> QED
      BY <2>2, <2>3, <3>1, <3>2
  <2>4. \A b \in Pool : b < i => Passed(b)'
    <3>1. InLine(i)
      BY <2>1
    <3> QED
      BY <1>4, <1>6, <3>1, HeldFacts DEF InLine, Passed
  <2>5. \A b \in Pool : b < i + 1 => Passed(b)'
    BY <1>1, <2>3, <2>4, HeldFacts
  <2>6. InLine(i)'
    BY <1>4, <2>2, <2>5 DEF InLine
  <2> QED
    BY <1>1, <2>1, <2>2, <2>6, HeldFacts
<1>13. ASSUME pc' \in {"copy", "remap"}
       PROVE  InLine(found)'
  <2>1. pc' = "copy" /\ found' = i /\ Copying
    BY <1>1, <1>13 DEF Copying
  <2>2. InLine(i)
    BY <1>1, <2>1, HeldFacts DEF Line
  <2>3. \A b \in Pool : b < i => Passed(b)'
    BY <1>4, <1>6, <2>2, HeldFacts DEF InLine, Passed
  <2> QED
    BY <1>4, <2>1, <2>3 DEF InLine
<1>14. pc' \in {"scan", "copy", "placeBmt", "programBbt"}
  BY <1>1
<1>15. Line'
  BY <1>2, <1>12, <1>13, <1>14 DEF Line
<1>16. Offered'
  <2>1. \A b \in Blocks : Vacant(b)' /\ Stale(b)' => Fits(b)'
    <3> SUFFICES ASSUME NEW b \in Blocks, Vacant(b)', Stale(b)'
                 PROVE  Fits(b)
      BY <1>5
    <3>1. CASE Stale(b)
      BY <1>2, <1>4, <3>1, HeldFacts DEF Offered
    <3>2. CASE Unmarked(b) /\ ~Empty(b)
      BY <1>4, <3>2, HeldFacts DEF Dirty, Dirt
    <3>3. CASE Empty(b)
      BY <3>3 DEF Empty, HoldsNothing, Fits
    <3> QED
      BY <1>6, <3>1, <3>2, <3>3
  <2>2. ASSUME pc' \in FindReturns PROVE Fits(found)'
    <3>1. found' = i /\ Fits(i)
      BY <1>1, <1>10, <2>2 DEF FindReturns
    <3>2. \A p \in Pages : flash[i][p].data \in {Erased, Want(p)}
      BY <3>1 DEF Fits
    <3> QED
      BY <1>1, <1>3, <3>1, <3>2 DEF Fits
  <2> QED
    BY <1>14, <2>1, <2>2 DEF Offered
<1>17. Marking'
  BY <1>14, NoMarking
<1> QED
  BY <1>11, <1>15, <1>16, <1>17 DEF Vacancies

(* The block a copy fills is the only one half filled. *)
LEMMA CopyVacancies ==
  ASSUME Held, CopyPage \/ CopyLast
  PROVE  Vacancies'
<1>1. /\ pc = "copy" /\ found # 0 /\ Vacant(found) /\ Fits(found) /\ found # req.blk
      /\ Copying /\ req.op = "write" /\ i \in Pages /\ found \in Pool
      /\ UNCHANGED <<bmt, bbt, sys, req, bmtAt, bbtAt, found>>
  BY CopyDoes DEF Same, Vacant
<1>2. PICK r : /\ Wrote(found, i, Want(i), r)
               /\ \/ pc' = "copy" /\ Goal' = "copy"
                  \/ pc' = "remap" /\ Goal' = "remap"
                  \/ /\ pc' = "mark" /\ Goal' = "relocate"
                     /\ mark'.blk = found /\ mark'.page = 0 /\ mark'.then = "relocate"
  BY CopyDoes
<1>3. Copying' /\ ~ToBbt /\ ~ToBbt'
  BY <1>1, <1>2 DEF Copying, ToBbt
<1>4. \A x \in Blocks, q \in Pages : x # found \/ q # i => flash'[x][q] = flash[x][q]
  BY <1>2 DEF Wrote
<1>5. \A p \in Pages : Want(p)' = Want(p)
  BY <1>1, <1>3, <1>4, WantSame, HeldFacts
<1>6. \A b : /\ Vacant(b)' <=> Vacant(b)
             /\ Holds(b)' <=> Holds(b)
             /\ Mapped(b)' <=> Mapped(b)
             /\ b \in Pool' <=> b \in Pool
  BY <1>1, VacantSame
<1>7. \A p \in Pages : flash'[found][p].data \in {Erased, Want(p)}
  <2> SUFFICES ASSUME NEW p \in Pages PROVE flash'[found][p].data \in {Erased, Want(p)}
    OBVIOUS
  <2>1. flash[found][p].data \in {Erased, Want(p)}
    BY <1>1 DEF Fits
  <2>2. CASE p # i
    BY <1>4, <2>1, <2>2, HeldFacts
  <2>3. CASE p = i
    BY <1>2, <2>1, <2>3 DEF Wrote
  <2> QED
    BY <2>2, <2>3
<1>8. Fits(found)'
  BY <1>1, <1>5, <1>7 DEF Fits
<1>9. /\ \A x \in Blocks : Stale(x)' => x = found /\ i = 0
      /\ \A x \in Blocks : ~Unmarked(x) /\ ~Stale(x) => ~Unmarked(x)' /\ ~Stale(x)'
  BY <1>1, <1>2, MarksStay, HeldFacts
<1>10. InLine(found)'
  <2>1. InLine(found)
    BY <1>1, HeldFacts DEF Line
  <2>2. \A b \in Pool : b < found => Passed(b)'
    BY <1>6, <1>9, <2>1, HeldFacts DEF InLine, Passed
  <2> QED
    BY <1>1, <1>6, <2>2 DEF InLine
<1>11. \A d \in Blocks : Dirty(d)' => d = found
  <2> SUFFICES ASSUME NEW d \in Blocks, Dirty(d)', d # found PROVE FALSE
    OBVIOUS
  <2>1. Dirty(d)
    BY <1>4, <1>6, DirtySame
  <2> QED
    BY <1>1, <2>1, HeldFacts DEF Dirt
<1>12. Dirt'
  BY <1>1, <1>3, <1>8, <1>10, <1>11 DEF Dirt
<1>13. Line'
  BY <1>2, <1>10 DEF Line
<1>14. Offered'
  BY <1>1, <1>2, <1>8, <1>9 DEF Offered
<1>15. Marking'
  <2>1. ASSUME pc' = "mark"
        PROVE  /\ mark'.blk = found' /\ mark'.page = 0 /\ mark'.then = "relocate"
               /\ Vacant(found)' /\ Fits(found)'
               /\ cache'.page = <<found', 0>> => cache'.data \in {Erased, Want(0)'}
    <3>1. cache'.page = <<found, 0>> => cache'.data = Want(0)
      BY <1>2 DEF Wrote
    <3>2. Vacant(found)'
      BY <1>1, <1>6 DEF Vacant, Pool, Mapped, MappedTo, Holds
    <3> QED
      BY <1>1, <1>2, <1>5, <1>8, <2>1, <3>1, <3>2, HeldFacts
  <2> QED
    BY <2>1 DEF Marking, Vacant, Fits, Pool, Mapped, MappedTo, Holds
<1> QED
  BY <1>12, <1>13, <1>14, <1>15 DEF Vacancies

LEMMA MarkVacancies ==
  ASSUME Held, Mark
  PROVE  Vacancies'
<1>1. /\ pc = "mark" /\ pc' = mark.then /\ Goal = mark.then /\ Goal' = mark.then
      /\ mark.then \in {"relocate", "writeBmt", "saveBbt", "done"}
      /\ UNCHANGED <<bmt, bbt, sys, req, bmtAt, bbtAt, find, found, i, mark>>
      /\ mark.then # "done" => Vacant(mark.blk) /\ Fits(mark.blk) /\ mark.page = 0
      /\ mark.then = "done" => req.op = "write" /\ mark.blk = req.blk /\ mark.page = req.page
  BY MarkDoes DEF Same
<1>2. PICK r, d : /\ Wrote(mark.blk, mark.page, d, r)
                  /\ mark.then # "done" => d \in {Erased, Want(0)}
                  /\ mark.then = "done" => d = flash[mark.blk][mark.page].data
                  /\ r = "ok" /\ mark.page = 0 =>
                       flash'[mark.blk][0].oob.raw \/ flash'[mark.blk][0].oob.later
  BY MarkDoes
<1>3. /\ \A x \in Blocks, q \in Pages : x # mark.blk \/ q # mark.page => flash'[x][q] = flash[x][q]
      /\ r = "clean" => flash' = flash
      /\ r \in {"ok", "clean"}
      /\ r = "ok" => flash'[mark.blk][mark.page].data =
                       IF d = Erased THEN flash[mark.blk][mark.page].data ELSE d
  BY <1>2 DEF Wrote
<1>4. /\ \A x \in Blocks : Stale(x)' => x = mark.blk /\ mark.page = 0
      /\ \A x \in Blocks : ~Unmarked(x) => ~Unmarked(x)'
      /\ \A x \in Blocks : ~Unmarked(x) /\ ~Stale(x) => ~Unmarked(x)' /\ ~Stale(x)'
  BY <1>2, MarksStay, HeldFacts
<1>5. \A b : /\ Vacant(b)' <=> Vacant(b)
             /\ Holds(b)' <=> Holds(b)
             /\ Mapped(b)' <=> Mapped(b)
             /\ b \in Pool' <=> b \in Pool
  BY <1>1, VacantSame
<1>6. CASE mark.then = "done"
  <2>1. \A x \in Blocks, q \in Pages : flash'[x][q].data = flash[x][q].data
    BY <1>2, <1>3, <1>6, HeldFacts
  <2>2. \A x \in Blocks : ~Dirty(x)'
    <3> SUFFICES ASSUME NEW x \in Blocks, Dirty(x)' PROVE FALSE
      OBVIOUS
    <3>1. Dirty(x)
      BY <1>4, <1>5, <2>1 DEF Dirty, Empty, HoldsNothing
    <3> QED
      BY <1>1, <1>6, <3>1, NotCopying DEF Copying
  <2>3. ~Copying' /\ ~ToBmt' /\ ~ToBbt' /\ pc' = "done"
    BY <1>1, <1>6 DEF Copying, ToBmt, ToBbt
  <2>4. Marking'
    BY <2>3, NoMarking
  <2> QED
    BY <2>2, <2>3, <2>4, NoneDirty DEF FindReturns
<1>7. CASE mark.then # "done"
  <2>1. /\ Copying' <=> Copying
        /\ ToBbt' <=> ToBbt
        /\ ToBmt' <=> ToBmt
        /\ mark.page = 0 /\ Vacant(mark.blk) /\ Fits(mark.blk)
    BY <1>1, <1>7 DEF Copying, ToBbt, ToBmt
  <2>2. Copying => mark.blk # req.blk
    <3> SUFFICES ASSUME Copying PROVE mark.blk # req.blk
      OBVIOUS
    <3>1. req.op = "write"
      BY HeldFacts DEF Stages, Copying
    <3>2. Up /\ req.log \in Logical /\ req.blk = Physical(req.log)
      BY <3>1, WritingIs
    <3> QED
      BY <2>1, <3>2, PhysicalIsNot DEF Vacant
  <2>3. \A p \in Pages : Want(p)' = Want(p)
    BY <1>1, <1>3, <2>1, <2>2, WantSame, HeldFacts
  <2>4. \A p \in Pages : flash'[mark.blk][p].data \in {Erased, Want(p)}
    <3> SUFFICES ASSUME NEW p \in Pages PROVE flash'[mark.blk][p].data \in {Erased, Want(p)}
      OBVIOUS
    <3>1. flash[mark.blk][p].data \in {Erased, Want(p)}
      BY <2>1 DEF Fits
    <3>2. CASE p # 0 \/ r = "clean"
      BY <1>3, <2>1, <3>1, <3>2, HeldFacts
    <3>3. CASE p = 0 /\ r = "ok"
      BY <1>2, <1>3, <1>7, <2>1, <3>1, <3>3
    <3> QED
      BY <1>3, <3>2, <3>3
  <2>5. Fits(mark.blk)'
    BY <1>1, <2>3, <2>4 DEF Fits
  <2>6. \A x \in Blocks : Dirty(x)' => Dirty(x)
    <3> SUFFICES ASSUME NEW x \in Blocks, Dirty(x)' PROVE Dirty(x)
      OBVIOUS
    <3>1. CASE x # mark.blk \/ r = "clean"
      BY <1>3, <1>5, <3>1, DirtySame
    <3>2. CASE x = mark.blk /\ r = "ok"
      BY <1>2, <2>1, <3>2 DEF Dirty, Unmarked
    <3> QED
      BY <1>3, <3>1, <3>2
  <2>7. ASSUME NEW x \in Blocks, Dirty(x)'
        PROVE  Copying' /\ Fits(x)' /\ InLine(x)' /\ pc' = "relocate"
    <3>1. Dirty(x) /\ Copying /\ x = found
      BY <1>1, <2>6, <2>7, HeldFacts DEF Dirt
    <3>2. mark.then = "relocate"
      BY <1>1, <3>1 DEF Copying
    <3>3. x = mark.blk /\ InLine(x)
      BY <1>1, <3>1, <3>2, HeldFacts DEF Marking, Line
    <3>4. \A b \in Pool : b < x => Passed(b)'
      BY <1>4, <1>5, <3>3, HeldFacts DEF InLine, Passed
    <3>5. InLine(x)'
      BY <1>5, <3>4 DEF InLine
    <3>6. Fits(x)'
      BY <1>1, <2>5, <3>3 DEF Fits
    <3> QED
      BY <1>1, <2>1, <3>1, <3>2, <3>5, <3>6
  <2>8. Dirt'
    BY <2>7 DEF Dirt
  <2>9. Line'
    BY <1>1 DEF Line
  <2>10. \A b \in Blocks : Stale(b)' => Fits(b)'
    BY <1>1, <1>4, <2>5 DEF Fits
  <2>11. Offered'
    BY <1>1, <2>10 DEF Offered, FindReturns
  <2>12. Marking'
    BY <1>1, NoMarking
  <2> QED
    BY <2>8, <2>9, <2>11, <2>12 DEF Vacancies
<1> QED
  BY <1>6, <1>7

(* With nothing on the chip there is nothing to go wrong. *)
LEMMA EmptyVacancies ==
  ASSUME Held, \A b \in Blocks, p \in Pages : flash'[b][p].data = Erased,
         ~Copying', pc' \notin FindReturns \cup {"programBmt", "mark"}
  PROVE  Vacancies'
<1>1. \A b \in Blocks : ~Dirty(b)' /\ Fits(b)'
  BY DEF Dirty, Empty, HoldsNothing, Fits
<1>2. Marking'
  BY NoMarking
<1> QED
  BY <1>1, <1>2, NoneDirty

LEMMA FreshVacancies ==
  ASSUME Held, Reading \/ Save \/ ErasePool \/ ErasePoolDone
  PROVE  Vacancies'
<1>1. /\ ~poolErased
      /\ flash \in Flash
  <2>1. CASE Reading
    <3>1. pc \in SettingUp /\ pc # "mark"
      BY <2>1, ReadingFinds, HeldFacts
    <3>2. Goal \in SettingUp
      BY <3>1 DEF Goal, At, SettingUp
    <3> QED
      BY <3>2, HeldFacts DEF Stages
  <2>2. CASE Save \/ ErasePool \/ ErasePoolDone
    BY <2>2, HeldFacts, SaveDoes, ErasePoolDoes, ErasePoolDoneDoes
  <2> QED
    BY <2>1, <2>2
<1>2. \A b \in Blocks, p \in Pages : flash[b][p].data = Erased
  BY <1>1, HeldFacts DEF Fresh, Empty, HoldsNothing
<1>3. \A b \in Blocks, p \in Pages : flash'[b][p].data = Erased
  <2>1. CASE ErasePool
    <3>1. i \in Blocks /\ (flash' = flash \/ Wiped(i))
      BY <2>1, ErasePoolDoes
    <3> QED
      BY <1>1, <1>2, <3>1, WipedFacts DEF Blank
  <2>2. CASE ~ErasePool
    <3>1. flash' = flash
      BY <2>2, ReadingFinds, SaveDoes, ErasePoolDoneDoes, HeldFacts DEF Idle
    <3> QED
      BY <1>2, <3>1
  <2> QED
    BY <2>1, <2>2
<1>4. ~Copying' /\ pc' \notin FindReturns \cup {"programBmt", "mark"}
  <2>1. CASE Reading
    <3>1. pc' \in SettingUp \cup {"dead", "save"}
      BY <2>1, ReadingFinds, HeldFacts
    <3> QED
      BY <3>1 DEF SettingUp, Copying, Goal, At, FindReturns
  <2>2. CASE Save
    BY <2>2, SaveDoes DEF Copying, FindReturns
  <2>3. CASE ErasePool \/ ErasePoolDone
    BY <2>3, ErasePoolDoes, ErasePoolDoneDoes DEF Copying, ToBmt, FindReturns
  <2> QED
    BY <2>1, <2>2, <2>3
<1> QED
  BY <1>3, <1>4, EmptyVacancies

LEMMA ScanFailsVacancies ==
  ASSUME Held, ScanFails
  PROVE  Vacancies'
<1>1. /\ pc = "scan" /\ i \notin Pool /\ found' = 0 /\ i' = 0
      /\ pc' = find.then /\ Goal = find.then /\ Goal' = Goal
      /\ Goal \in {"copy", "placeBmt", "programBbt"}
      /\ UNCHANGED <<flash, cache, bmt, bbt, sys, req, bmtAt, bbtAt, find>>
  BY ScanFailsDoes DEF Same, Idle
<1>2. /\ Copying' <=> Copying
      /\ ToBbt' <=> ToBbt
      /\ Copying \/ ToBmt \/ ToBbt
  BY <1>1 DEF Copying, ToBmt, ToBbt
<1>3. \A p \in Pages : Want(p)' = Want(p)
  BY <1>1, <1>2, WantSame
<1>4. \A b : Vacant(b)' <=> Vacant(b)
  BY <1>1, VacantSame
<1>5. \A d \in Blocks : ~Dirty(d)
  <2> SUFFICES ASSUME NEW d \in Blocks, Dirty(d) PROVE FALSE
    OBVIOUS
  <2>1. Copying /\ d \in Pool /\ ~Passed(d)
    BY HeldFacts DEF Dirt, Dirty, Vacant, Passed
  <2>2. InLine(i) /\ i >= sys
    BY <1>1, <2>1, HeldFacts DEF Line
  <2>3. d < i
    <3>1. sys \in Int /\ NBlocks \in Int /\ i \in Int
      BY HeldFacts, ChipFacts DEF TypeOK, Blocks
    <3> QED
      BY <1>1, <2>1, <2>2, <3>1 DEF Pool
  <2> QED
    BY <2>1, <2>2, <2>3 DEF InLine
<1>6. \A d \in Blocks : ~Dirty(d)'
  BY <1>1, <1>4, <1>5, DirtySame
<1>7. \A b \in Blocks : Vacant(b)' /\ Stale(b)' => Fits(b)'
  <2> SUFFICES ASSUME NEW b \in Blocks, Vacant(b)', Stale(b)' PROVE Fits(b)'
    OBVIOUS
  <2>1. Fits(b)
    BY <1>1, <1>2, <1>4, HeldFacts DEF Offered, Stale
  <2> QED
    BY <1>1, <1>3, <2>1 DEF Fits
<1>8. Dirt' /\ Line' /\ Offered'
  BY <1>1, <1>6, <1>7 DEF Dirt, Line, Offered
<1>9. Marking'
  BY <1>1, NoMarking
<1> QED
  BY <1>8, <1>9 DEF Vacancies

LEMMA RelocateVacancies ==
  ASSUME Held, Relocate
  PROVE  Vacancies'
<1>1. /\ pc = "relocate" /\ pc' = "scan" /\ ~find'.fromEnd /\ i' = sys
      /\ Copying /\ Copying' /\ ~ToBbt /\ ~ToBbt'
      /\ UNCHANGED <<flash, cache, bmt, bbt, sys, req, bmtAt, bbtAt, found>>
  BY RelocateDoes DEF Same, Idle, Copying, ToBbt
<1>2. \A p \in Pages : Want(p)' = Want(p)
  BY <1>1, WantSame
<1>3. \A b : /\ Vacant(b)' <=> Vacant(b)
             /\ Holds(b)' <=> Holds(b)
             /\ Mapped(b)' <=> Mapped(b)
             /\ b \in Pool' <=> b \in Pool
  BY <1>1, VacantSame
<1>4. \A b \in Blocks : Fits(b) => Fits(b)'
  BY <1>1, <1>2 DEF Fits
<1>5. \A b : Passed(b)' <=> Passed(b)
  BY <1>1, <1>3 DEF Passed, Unmarked, Stale
<1>6. \A d : InLine(d)' <=> InLine(d)
  BY <1>3, <1>5 DEF InLine
<1>7. Dirt'
  <2> SUFFICES ASSUME NEW d \in Blocks, Dirty(d)' PROVE Fits(d)' /\ InLine(d)'
    BY <1>1 DEF Dirt
  <2>1. Dirty(d)
    BY <1>1, <1>3, DirtySame
  <2> QED
    BY <1>4, <1>6, <2>1, HeldFacts DEF Dirt
<1>8. Line'
  <2>1. \A b \in Pool' : ~(b < i')
    BY <1>1, <1>3, HeldFacts DEF Pool
  <2>2. InLine(i)'
    BY <2>1 DEF InLine
  <2> QED
    BY <1>1, <2>2, HeldFacts DEF Line
<1>9. Offered'
  <2>1. \A b \in Blocks : Vacant(b)' /\ Stale(b)' => Fits(b)'
    BY <1>1, <1>3, <1>4, HeldFacts DEF Offered, Stale
  <2> QED
    BY <1>1, <2>1 DEF Offered, FindReturns
<1>10. Marking'
  BY <1>1, NoMarking
<1> QED
  BY <1>7, <1>8, <1>9, <1>10 DEF Vacancies

LEMMA FindVacancies ==
  ASSUME Held, FindBmtBlock \/ FindBbtBlock
  PROVE  Vacancies'
<1>1. /\ ~Copying /\ ~Copying'
      /\ ToBbt' => ToBbt
      /\ ToBmt' => ToBmt
      /\ ToBmt' \/ ToBbt' => (ToBbt' <=> ToBbt)
      /\ pc' \in {"scan", "erasePool", "build"}
      /\ UNCHANGED <<flash, cache, bmt, bbt, sys, req, bmtAt, bbtAt, found>>
  BY FindBmtBlockDoes, FindBbtBlockDoes DEF Same, Idle, Copying, ToBbt, ToBmt
<1>2. \A b : Vacant(b)' <=> Vacant(b)
  BY <1>1, VacantSame
<1>3. \A d \in Blocks : ~Dirty(d)'
  BY <1>1, <1>2, DirtySame, NotCopying
<1>4. ASSUME ToBmt' \/ ToBbt', NEW b \in Blocks, Vacant(b)', Stale(b)'
      PROVE  Fits(b)'
  <2>1. \A p \in Pages : Want(p)' = Want(p)
    BY <1>1, <1>4, WantSame
  <2>2. Fits(b)
    BY <1>1, <1>2, <1>4, HeldFacts DEF Offered, Stale
  <2> QED
    BY <1>1, <2>1, <2>2 DEF Fits
<1>5. Marking'
  BY <1>1, NoMarking
<1> QED
  BY <1>1, <1>3, <1>4, <1>5, NoneDirty DEF FindReturns

LEMMA NothingFoundVacancies ==
  ASSUME Held, NothingFound
  PROVE  Vacancies'
<1>1. /\ pc \in {"copy", "remap", "placeBmt", "programBbt"} /\ found = 0
      /\ pc' = "refused" /\ Goal' = "refused"
      /\ UNCHANGED <<flash, cache, bmt, bbt, sys, req, bmtAt, bbtAt, found>>
  BY NothingFoundDoes DEF Same, Idle
<1>2. 0 \notin Pool
  BY <1>1, HeldFacts DEF Undisturbed, Homes, Pool
<1>3. \A d \in Blocks : ~Dirty(d)
  <2> SUFFICES ASSUME NEW d \in Blocks, Dirty(d) PROVE FALSE
    OBVIOUS
  <2>1. Copying /\ d \in Pool /\ (pc \in {"copy", "remap", "mark"} => d = found)
    BY HeldFacts DEF Dirt, Dirty, Vacant
  <2>2. pc \in {"copy", "remap"}
    BY <1>1, <2>1, GoalIs DEF Copying
  <2> QED
    BY <1>1, <1>2, <2>1, <2>2
<1>4. \A d \in Blocks : ~Dirty(d)'
  BY <1>1, <1>3, VacantSame, DirtySame
<1>5. ~Copying' /\ ~ToBmt' /\ ~ToBbt'
  BY <1>1 DEF Copying, ToBmt, ToBbt
<1>6. Marking'
  BY <1>1, NoMarking
<1> QED
  BY <1>1, <1>4, <1>5, <1>6, NoneDirty DEF FindReturns

(* The block a remapped one gives up holds nothing. *)
LEMMA RemapVacancies ==
  ASSUME Held, Remap
  PROVE  Vacancies'
<1>1. /\ pc = "remap" /\ Goal = "remap" /\ Copying /\ req.op = "write"
      /\ found # 0 /\ Vacant(found) /\ cache.page = <<found, req.page>>
      /\ pc' = "writeBmt" /\ Goal' = "writeBmt"
      /\ UNCHANGED <<flash, cache, bbt, sys, req, bmtAt, bbtAt, found>>
  BY RemapDoes DEF Idle
<1>2. /\ bmt' = IF req.blk < sys
                THEN Append(bmt, [bad |-> req.blk, mapped |-> found])
                ELSE IF Mapped(req.blk)
                THEN [bmt EXCEPT ![First(MappedTo(req.blk))].mapped = found]
                ELSE bmt
      /\ bmt \in Seq(Entry) /\ DOMAIN bmt \in SUBSET Nat
  <2>1. bmt \in Seq(Entry)
    BY HeldFacts DEF TypeOK
  <2> QED
    BY <2>1 DEF Remap
<1>3. /\ Up /\ req.log \in Logical /\ req.blk = Physical(req.log) /\ req.phys = req.blk
      /\ \A q \in Pages : q >= req.page => flash[req.blk][q].data = Erased
  BY <1>1, WritingIs, HeldFacts
<1>4. req.blk < sys \/ Mapped(req.blk)
  <2>1. CASE req.blk \notin Pool
    <3>1. req.blk \in Blocks /\ sys \in Nat /\ NBlocks \in Nat
      BY HeldFacts, ChipFacts
    <3> QED
      BY <2>1, <3>1 DEF Pool, Blocks
  <2>2. CASE req.blk \in Pool
    <3>1. \E m \in DOMAIN bmt : bmt[m].mapped = Physical(req.log)
      BY <1>3, <2>2, PhysicalApart
    <3> QED
      BY <1>3, <3>1 DEF Mapped, MappedTo
  <2> QED
    BY <2>1, <2>2
<1>5. Mapped(found)' /\ \A d \in Blocks : Mapped(d) /\ ~Mapped(d)' => d = req.blk /\ req.blk >= sys
  <2>1. CASE req.blk < sys
    <3>1. bmt' = Append(bmt, [bad |-> req.blk, mapped |-> found])
      BY <1>2, <2>1
    <3>2. /\ Len(bmt) + 1 \in DOMAIN bmt' /\ bmt'[Len(bmt) + 1].mapped = found
          /\ \A m \in DOMAIN bmt : m \in DOMAIN bmt' /\ bmt'[m] = bmt[m]
      BY <1>2, <3>1
    <3> QED
      BY <1>1, <3>2 DEF Mapped, MappedTo
  <2>2. CASE req.blk >= sys
    <3>1. Mapped(req.blk)
      BY <1>4, <2>2, HeldFacts
    <3> DEFINE k == First(MappedTo(req.blk))
    <3>2. k \in MappedTo(req.blk)
      <4>1. MappedTo(req.blk) \in SUBSET Nat
        BY <1>2 DEF MappedTo
      <4> QED
        BY <3>1, <4>1, FirstIs DEF Mapped
    <3>3. k \in DOMAIN bmt /\ bmt[k].mapped = req.blk
      BY <3>2 DEF MappedTo
    <3>4. bmt' = [bmt EXCEPT ![k].mapped = found]
      BY <1>2, <2>2, <3>1, HeldFacts
    <3> HIDE DEF k
    <3>5. /\ k \in DOMAIN bmt' /\ bmt'[k].mapped = found
          /\ \A m \in DOMAIN bmt : m # k => m \in DOMAIN bmt' /\ bmt'[m] = bmt[m]
      <4> DEFINE e == [bmt[k] EXCEPT !.mapped = found]
      <4>1. bmt[k] \in Entry
        BY <1>2, <3>3
      <4>2. e.mapped = found
        BY <4>1 DEF Entry
      <4>3. bmt' = [bmt EXCEPT ![k] = e]
        BY <3>4
      <4> HIDE DEF e
      <4> QED
        BY <1>2, <3>3, <4>2, <4>3
    <3>6. ASSUME NEW d \in Blocks, Mapped(d), d # req.blk
          PROVE  Mapped(d)'
      <4>1. PICK m \in DOMAIN bmt : bmt[m].mapped = d
        BY <3>6 DEF Mapped, MappedTo
      <4>2. m # k
        BY <3>3, <3>6, <4>1
      <4> QED
        BY <3>5, <4>1, <4>2 DEF Mapped, MappedTo
    <3>7. Mapped(found)'
      BY <1>1, <3>5 DEF Mapped, MappedTo
    <3> QED
      BY <2>2, <3>6, <3>7
  <2> QED
    BY <2>1, <2>2, HeldFacts
<1>6. \A d \in Blocks : ~Dirty(d)'
  <2> SUFFICES ASSUME NEW d \in Blocks, Dirty(d)' PROVE FALSE
    OBVIOUS
  <2>1. d \in Pool /\ ~Mapped(d)' /\ ~Holds(d) /\ Unmarked(d) /\ ~Empty(d) /\ d # found
    BY <1>1, <1>5 DEF Dirty, Vacant, Holds, Pool, Unmarked, Empty, HoldsNothing, Mapped, MappedTo
  <2>2. CASE ~Mapped(d)
    BY <1>1, <2>1, <2>2, HeldFacts DEF Dirt, Dirty, Vacant
  <2>3. CASE Mapped(d)
    <3>1. d = req.blk /\ req.blk >= sys
      BY <1>5, <2>1, <2>3
    <3>2. req.page = 0
      BY <1>1, <3>1, HeldFacts DEF Filled
    <3>3. Empty(d)
      BY <1>3, <3>1, <3>2, HeldFacts DEF Empty, HoldsNothing
    <3> QED
      BY <2>1, <3>3
  <2> QED
    BY <2>2, <2>3
<1>7. \A b \in Blocks : ~(Vacant(b)' /\ Stale(b)')
  <2> SUFFICES ASSUME NEW b \in Blocks, Vacant(b)', Stale(b)' PROVE FALSE
    OBVIOUS
  <2>1. b = found
    BY <1>1 DEF Stale
  <2> QED
    BY <1>1, <1>5, <2>1 DEF Vacant, Mapped, MappedTo
<1>8. ~Copying'
  BY <1>1 DEF Copying
<1>9. Marking'
  BY <1>1, NoMarking
<1> QED
  BY <1>1, <1>6, <1>7, <1>8, <1>9, NoneDirty DEF FindReturns

LEMMA PlaceBmtVacancies ==
  ASSUME Held, PlaceBmt
  PROVE  Vacancies'
<1>1. /\ pc = "placeBmt" /\ Goal = "placeBmt" /\ found # 0 /\ Vacant(found) /\ Fits(found)
      /\ bmtAt = 0 /\ bmtAt' = found /\ pc' = "programBmt"
      /\ UNCHANGED <<flash, cache, bmt, bbt, sys, req, bbtAt, found>>
      /\ ~Copying /\ ~Copying' /\ ToBmt /\ ~ToBbt /\ ~ToBbt'
  BY PlaceBmtDoes DEF Same, Idle, Copying, ToBmt, ToBbt
<1>2. \A p \in Pages : Want(p)' = Want(p)
  BY <1>1, WantSame
<1>3. \A b \in Blocks : Vacant(b)' => Vacant(b)
  <2>1. 0 \notin Pool
    BY <1>1, HeldFacts DEF Undisturbed, Homes, Pool
  <2> QED
    BY <1>1, <2>1 DEF Vacant, Pool, Mapped, MappedTo, Holds
<1>4. \A d \in Blocks : ~Dirty(d) /\ ~Dirty(d)'
  BY <1>1, <1>3, DirtySame, NotCopying
<1>5. \A b \in Blocks : Vacant(b)' /\ Stale(b)' => Fits(b)'
  BY <1>1, <1>2, <1>3, HeldFacts DEF Offered, Stale, Fits
<1>6. Fits(bmtAt)' /\ (Unmarked(bmtAt)' => Empty(bmtAt)')
  <2>1. Unmarked(found) => Empty(found)
    BY <1>1, <1>4, HeldFacts DEF Dirty
  <2> QED
    BY <1>1, <1>2, <2>1, HeldFacts DEF Unmarked, Empty, HoldsNothing, Fits
<1>7. Dirt' /\ Line' /\ Offered'
  BY <1>1, <1>4, <1>5, <1>6 DEF Dirt, Line, Offered, FindReturns
<1>8. Marking'
  BY <1>1, NoMarking
<1> QED
  BY <1>7, <1>8 DEF Vacancies

LEMMA EraseBmtVacancies ==
  ASSUME Held, EraseBmt
  PROVE  Vacancies'
<1>1. /\ pc = "writeBmt" /\ Goal = "writeBmt" /\ pc' = "programBmt"
      /\ bmtAt # 0 /\ bmtAt \in Pool /\ Wiped(bmtAt)
      /\ UNCHANGED <<cache, bmt, bbt, sys, req, bmtAt, bbtAt>>
      /\ ~Copying /\ ~Copying' /\ ToBmt /\ ~ToBbt /\ ~ToBbt'
  BY EraseBmtDoes DEF Same, Copying, ToBmt, ToBbt
<1>2. /\ \A p \in Pages : flash'[bmtAt][p] = Blank
      /\ \A x \in Blocks : x # bmtAt => flash'[x] = flash[x]
  BY <1>1, WipedFacts, HeldFacts
<1>3. \A p \in Pages : Want(p)' = Want(p)
  BY <1>1, WantSame
<1>4. \A b \in Blocks : Vacant(b)' <=> Vacant(b)
  BY <1>1, VacantSame
<1>5. \A b \in Blocks : Vacant(b)' => \A q \in Pages : flash'[b][q] = flash[b][q]
  <2>1. \A b \in Blocks : Vacant(b) => b # bmtAt
    BY DEF Vacant, Holds
  <2> QED
    BY <1>2, <1>4, <2>1
<1>6. \A d \in Blocks : ~Dirty(d)'
  <2> SUFFICES ASSUME NEW d \in Blocks, Dirty(d)' PROVE FALSE
    OBVIOUS
  <2>1. Dirty(d)
    BY <1>4, <1>5, DirtySame DEF Dirty
  <2> QED
    BY <1>1, <2>1, NotCopying
<1>7. \A b \in Blocks : Vacant(b)' /\ Stale(b)' => Fits(b)'
  BY <1>1, <1>3, <1>4, <1>5, HeldFacts DEF Offered, Stale, Fits
<1>8. Fits(bmtAt)' /\ Empty(bmtAt)'
  BY <1>1, <1>2 DEF Fits, Empty, HoldsNothing, Blank
<1>9. Dirt' /\ Line' /\ Offered'
  BY <1>1, <1>6, <1>7, <1>8 DEF Dirt, Line, Offered, FindReturns
<1>10. Marking'
  BY <1>1, NoMarking
<1> QED
  BY <1>9, <1>10 DEF Vacancies

LEMMA ProgramBmtVacancies ==
  ASSUME Held, ProgramBmt
  PROVE  Vacancies'
<1>1. /\ pc = "programBmt" /\ bmtAt # 0 /\ bmtAt \in Pool /\ ~Mapped(bmtAt) /\ bmtAt # bbtAt
      /\ Goal = "programBmt" /\ Fits(bmtAt) /\ bmtAt \in Blocks
      /\ UNCHANGED <<bmt, bbt, sys, req, bbtAt>>
      /\ ~Copying /\ ToBmt /\ ~ToBbt
  BY ProgramBmtDoes, HeldFacts DEF Same, Copying, ToBmt, ToBbt
<1>2. PICK r : /\ Wrote(bmtAt, 0, Want(0), r)
               /\ \/ /\ r = "clean" /\ bmtAt' = 0 /\ pc' = "mark" /\ Goal' = "writeBmt"
                     /\ mark'.blk = bmtAt /\ mark'.page = 0 /\ mark'.then = "writeBmt"
                  \/ /\ bmtAt' = bmtAt /\ pc' = "saveBbt" /\ Goal' = "saveBbt"
                  \/ /\ bmtAt' = bmtAt /\ pc' = "mark" /\ Goal' = "done" /\ mark'.then = "done"
  BY ProgramBmtDoes
<1>3. /\ \A x \in Blocks, q \in Pages : x # bmtAt => flash'[x][q] = flash[x][q]
      /\ r = "clean" => flash' = flash
      /\ \A x \in Blocks : Stale(x)' => x = bmtAt
      /\ cache'.page = <<bmtAt, 0>> /\ cache'.data = Want(0)
  <2>1. /\ \A x \in Blocks, q \in Pages : x # bmtAt => flash'[x][q] = flash[x][q]
        /\ r = "clean" => flash' = flash
        /\ cache'.page = <<bmtAt, 0>> /\ cache'.data = Want(0)
    BY <1>2 DEF Wrote
  <2>2. \A x \in Blocks : Stale(x)' => x = bmtAt
    BY <2>1 DEF Stale
  <2> QED
    BY <2>1, <2>2
<1>4. ~Copying'
  BY <1>2 DEF Copying
<1>5. \A d \in Blocks : ~Dirty(d)
  BY <1>1, NotCopying
<1>6. CASE r = "clean" /\ bmtAt' = 0 /\ pc' = "mark" /\ Goal' = "writeBmt"
  <2>1. ~ToBbt'
    BY <1>6 DEF ToBbt
  <2>2. \A p \in Pages : Want(p)' = Want(p)
    BY <1>1, <1>4, <2>1, WantSame
  <2>3. \A d \in Blocks : ~Dirty(d)'
    <3> SUFFICES ASSUME NEW d \in Blocks, Dirty(d)' PROVE FALSE
      OBVIOUS
    <3>1. Vacant(d) \/ d = bmtAt
      BY <1>1 DEF Dirty, Vacant, Holds, Pool, Mapped, MappedTo
    <3>2. CASE Vacant(d)
      BY <1>3, <1>5, <1>6, <3>2, DirtySame
    <3>3. CASE d = bmtAt
      <4>1. Unmarked(d) => Empty(d)
        BY <1>1, <3>3, HeldFacts DEF Offered
      <4>2. Unmarked(d) /\ ~Empty(d)
        BY <1>3, <1>6 DEF Dirty, Unmarked, Empty, HoldsNothing
      <4> QED
        BY <4>1, <4>2
    <3> QED
      BY <3>1, <3>2, <3>3
  <2>4. ASSUME NEW b \in Blocks, b = bmtAt
        PROVE  Fits(b)'
    BY <1>1, <1>3, <1>6, <2>2, <2>4 DEF Fits
  <2>5. Marking'
    <3>1. mark'.blk = bmtAt /\ mark'.page = 0 /\ mark'.then = "writeBmt"
      BY <1>2, <1>6
    <3>2. ASSUME NEW b \in Blocks, b = bmtAt
          PROVE  Vacant(b)'
      BY <1>1, <1>6, <3>2 DEF Vacant, Holds, Pool, Mapped, MappedTo
    <3>3. \A b \in Blocks : b = mark'.blk => Vacant(b)' /\ Fits(b)'
      BY <2>4, <3>1, <3>2
    <3>4. Vacant(mark.blk)' /\ Fits(mark.blk)'
      BY <1>1, <3>1, <3>3 DEF Vacant, Fits, Holds, Pool, Mapped, MappedTo
    <3>5. cache'.data = Want(0)'
      BY <1>3, <2>2, HeldFacts
    <3> QED
      BY <1>6, <3>1, <3>4, <3>5 DEF Marking
  <2> QED
    BY <1>3, <1>4, <1>6, <2>3, <2>4, <2>5, NoneDirty DEF FindReturns
<1>7. CASE bmtAt' = bmtAt /\ (pc' = "saveBbt" \/ (pc' = "mark" /\ Goal' = "done" /\ mark'.then = "done"))
  <2>1. \A b \in Blocks : Vacant(b)' <=> Vacant(b)
    BY <1>1, <1>7, VacantSame
  <2>2. \A b \in Blocks : Vacant(b) => b # bmtAt
    BY DEF Vacant, Holds
  <2>3. \A d \in Blocks : ~Dirty(d)'
    <3> SUFFICES ASSUME NEW d \in Blocks, Dirty(d)' PROVE FALSE
      OBVIOUS
    <3>1. d # bmtAt
      BY <2>1, <2>2 DEF Dirty
    <3> QED
      BY <1>3, <1>5, <2>1, <3>1, DirtySame
  <2>4. Marking'
    BY <1>7, NoMarking
  <2> QED
    BY <1>3, <1>4, <1>7, <2>1, <2>2, <2>3, <2>4, NoneDirty DEF FindReturns
<1> QED
  BY <1>2, <1>6, <1>7

LEMMA ProgramBbtVacancies ==
  ASSUME Held, ProgramBbt
  PROVE  Vacancies'
<1>1. /\ pc = "programBbt" /\ found # 0 /\ Vacant(found) /\ Fits(found) /\ found \in Blocks
      /\ Goal = "programBbt" /\ bbtAt = 0 /\ 0 \notin Pool
      /\ UNCHANGED <<bmt, bbt, sys, req, bmtAt, found>>
      /\ ~Copying /\ ~ToBmt /\ ToBbt
  <2>1. /\ pc = "programBbt" /\ found # 0 /\ Vacant(found) /\ Fits(found) /\ Goal = "programBbt"
        /\ UNCHANGED <<bmt, bbt, sys, req, bmtAt, found>>
    BY ProgramBbtDoes DEF Same
  <2>2. ~Copying /\ ~ToBmt /\ ToBbt
    BY <2>1 DEF Copying, ToBmt, ToBbt
  <2>3. bbtAt = 0 /\ 0 \notin Pool
    BY <2>1, <2>2, HeldFacts DEF Homeless, Undisturbed, Homes, Pool
  <2> QED
    BY <2>1, <2>2, <2>3, HeldFacts
<1>2. PICK r : /\ Wrote(found, 0, Want(0), r)
               /\ \/ bbtAt' = found /\ pc' = "build" /\ Goal' = "build"
                  \/ /\ r = "clean" /\ bbtAt' = 0 /\ pc' = "mark" /\ Goal' = "saveBbt"
                     /\ mark'.blk = found /\ mark'.page = 0 /\ mark'.then = "saveBbt"
  BY ProgramBbtDoes
<1>3. /\ \A x \in Blocks, q \in Pages : x # found => flash'[x][q] = flash[x][q]
      /\ r = "clean" => flash' = flash
      /\ \A x \in Blocks : Stale(x)' => x = found
      /\ cache'.page = <<found, 0>> /\ cache'.data = Want(0)
  <2>1. /\ \A x \in Blocks, q \in Pages : x # found => flash'[x][q] = flash[x][q]
        /\ r = "clean" => flash' = flash
        /\ cache'.page = <<found, 0>> /\ cache'.data = Want(0)
    BY <1>2 DEF Wrote
  <2>2. \A x \in Blocks : Stale(x)' => x = found
    BY <2>1 DEF Stale
  <2> QED
    BY <2>1, <2>2
<1>4. ~Copying' /\ ~ToBmt'
  BY <1>2 DEF Copying, ToBmt
<1>5. \A d \in Blocks : ~Dirty(d)
  BY <1>1, NotCopying
<1>6. CASE r = "clean" /\ bbtAt' = 0 /\ pc' = "mark" /\ Goal' = "saveBbt"
  <2>1. ToBbt'
    BY <1>6 DEF ToBbt
  <2>2. \A p \in Pages : Want(p)' = Want(p)
    BY <1>1, <1>4, <2>1, WantSame
  <2>3. \A b : Vacant(b)' <=> Vacant(b)
    BY <1>1, <1>6, VacantSame
  <2>4. \A d \in Blocks : ~Dirty(d)'
    BY <1>3, <1>5, <1>6, <2>3, DirtySame
  <2>5. ASSUME NEW b \in Blocks, b = found
        PROVE  Fits(b)' /\ Vacant(b)'
    BY <1>1, <1>3, <1>6, <2>2, <2>3, <2>5 DEF Fits
  <2>6. Marking'
    <3>1. mark'.blk = found /\ mark'.page = 0 /\ mark'.then = "saveBbt"
      BY <1>2, <1>6
    <3>2. Vacant(mark.blk)' /\ Fits(mark.blk)'
      BY <1>1, <2>5, <3>1 DEF Vacant, Fits, Holds, Pool, Mapped, MappedTo
    <3>3. cache'.data = Want(0)'
      BY <1>3, <2>2, HeldFacts
    <3> QED
      BY <1>6, <3>1, <3>2, <3>3 DEF Marking
  <2> QED
    BY <1>3, <1>4, <1>6, <2>4, <2>5, <2>6, NoneDirty DEF FindReturns
<1>7. CASE bbtAt' = found /\ pc' = "build" /\ Goal' = "build"
  <2>1. \A b \in Blocks : Vacant(b)' => Vacant(b) /\ b # found
    BY <1>1, <1>7 DEF Vacant, Holds, Pool, Mapped, MappedTo
  <2>2. \A d \in Blocks : ~Dirty(d)'
    <3> SUFFICES ASSUME NEW d \in Blocks, Dirty(d)' PROVE FALSE
      OBVIOUS
    <3>1. d # found
      BY <2>1 DEF Dirty
    <3> QED
      BY <1>3, <1>5, <2>1, <3>1, DirtySame
  <2>3. Marking'
    BY <1>7, NoMarking
  <2>4. ~ToBbt'
    BY <1>7 DEF ToBbt
  <2> QED
    BY <1>4, <1>7, <2>2, <2>3, <2>4, NoneDirty DEF FindReturns
<1> QED
  BY <1>2, <1>6, <1>7

(* What the users' own writes and erases touch is not free. *)
LEMMA ServeVacancies ==
  ASSUME Held, ProgramUser \/ EraseUser
  PROVE  Vacancies'
<1>1. /\ UNCHANGED <<bmt, sys, bmtAt, bbtAt, bbt, req>> /\ ~Copying
      /\ Up /\ req.log \in Logical /\ req.phys = Physical(req.log) /\ req.phys \in Blocks
  <2>1. CASE ProgramUser
    BY <2>1, ProgramUserDoes, WritingIs, HeldFacts DEF Same, Copying
  <2>2. CASE EraseUser
    BY <2>2, EraseUserDoes, HeldFacts DEF Same, Copying
  <2> QED
    BY <2>1, <2>2
<1>2. \A b \in Blocks : Vacant(b) => b # req.phys
  BY <1>1, PhysicalIsNot DEF Vacant
<1>3. \A b \in Blocks : Vacant(b)' <=> Vacant(b)
  BY <1>1, VacantSame
<1>4. \A x \in Blocks, q \in Pages : x # req.phys => flash'[x][q] = flash[x][q]
  <2>1. CASE ProgramUser
    BY <2>1, ProgramUserDoes DEF Wrote
  <2>2. CASE EraseUser
    BY <1>1, <2>2, EraseUserDoes, WipedFacts, HeldFacts
  <2> QED
    BY <2>1, <2>2
<1>5. \A d \in Blocks : ~Dirty(d)'
  <2> SUFFICES ASSUME NEW d \in Blocks, Dirty(d)' PROVE FALSE
    OBVIOUS
  <2>1. d # req.phys
    BY <1>2, <1>3 DEF Dirty
  <2> QED
    BY <1>1, <1>3, <1>4, <2>1, DirtySame, NotCopying
<1>6. CASE Goal' = "done" /\ pc' = "done"
  <2>1. ~Copying' /\ ~ToBmt' /\ ~ToBbt'
    BY <1>6 DEF Copying, ToBmt, ToBbt
  <2>2. Marking'
    BY <1>6, NoMarking
  <2> QED
    BY <1>5, <1>6, <2>1, <2>2, NoneDirty DEF FindReturns
<1>7. CASE ProgramUser /\ pc' = "relocate"
  <2>1. PICK r : Wrote(req.phys, req.page, req.data, r)
    BY <1>7, ProgramUserDoes
  <2>2. \A x \in Blocks : Stale(x)' => x = req.phys
    BY <2>1, MarksStay, HeldFacts
  <2>3. Dirt' /\ Line' /\ Offered'
    BY <1>2, <1>3, <1>5, <1>7, <2>2 DEF Dirt, Line, Offered, FindReturns
  <2>4. Marking'
    BY <1>7, NoMarking
  <2> QED
    BY <2>3, <2>4 DEF Vacancies
<1>8. (Goal' = "done" /\ pc' = "done") \/ (ProgramUser /\ pc' = "relocate")
  BY ProgramUserDoes, EraseUserDoes
<1> QED
  BY <1>6, <1>7, <1>8

LEMMA QuietVacancies ==
  ASSUME Held, BuildTable \/ Done \/ Refuse \/ Request
  PROVE  Vacancies'
<1>1. /\ UNCHANGED <<flash, bmt, sys, bmtAt, bbtAt>> /\ ~Copying
      /\ ~Copying' /\ ~ToBmt' /\ ~ToBbt'
      /\ pc' \in {"ready", "dead", "program", "erase"}
  <2>1. CASE BuildTable
    BY <2>1, BuildTableDoes DEF Idle, Copying, ToBmt, ToBbt
  <2>2. CASE Done \/ Refuse
    BY <2>2, DoneDoes DEF Idle, Copying, ToBmt, ToBbt
  <2>3. CASE Request
    BY <2>3, RequestDoes DEF Copying, ToBmt, ToBbt
  <2> QED
    BY <2>1, <2>2, <2>3
<1>2. \A b \in Blocks : Vacant(b)' <=> Vacant(b)
  BY <1>1, VacantSame
<1>3. \A d \in Blocks : ~Dirty(d)'
  BY <1>1, <1>2, DirtySame, NotCopying
<1>4. Marking'
  BY <1>1, NoMarking
<1> QED
  BY <1>1, <1>3, <1>4, NoneDirty DEF FindReturns

LEMMA VacanciesNext ==
  ASSUME Held, Running
  PROVE  Vacancies'
<1>1. CASE UNCHANGED vars
  <2>1. Vacancies
    BY DEF Held, Intact
  <2>2. UNCHANGED <<flash, cache, sys, bmt, bmtAt, bbt, bbtAt, pc, i, found, find, mark, req>>
    BY <1>1 DEF vars, device, tables, layout, control, history
  <2>3. /\ (Copying' <=> Copying) /\ (ToBmt' <=> ToBmt) /\ (ToBbt' <=> ToBbt)
    BY <2>2 DEF Copying, ToBmt, ToBbt, Goal, At
  <2>4. \A p \in Pages : Want(p)' = Want(p)
    BY <2>2, <2>3, WantSame
  <2>5. /\ Pool' = Pool
        /\ \A b : /\ (Vacant(b)' <=> Vacant(b)) /\ (Holds(b)' <=> Holds(b)) /\ (Mapped(b)' <=> Mapped(b))
    BY <2>2, VacantSame DEF Pool
  <2>6. \A b : /\ (Fits(b)' <=> Fits(b)) /\ (Empty(b)' <=> Empty(b))
               /\ (Unmarked(b)' <=> Unmarked(b)) /\ (Stale(b)' <=> Stale(b))
    BY <2>2, <2>4 DEF Fits, Empty, HoldsNothing, Unmarked, Stale
  <2>7. \A b : (InLine(b)' <=> InLine(b)) /\ (Dirty(b)' <=> Dirty(b))
    BY <2>5, <2>6 DEF InLine, Passed, Dirty
  <2>8. Dirt'
    BY <2>1, <2>2, <2>3, <2>6, <2>7 DEF Vacancies, Dirt
  <2>9. Line'
    <3>1. i' = i /\ found' = found /\ InLine(i)' = InLine(i) /\ InLine(found)' = InLine(found)
      BY <2>2, <2>5, <2>6 DEF InLine, Passed
    <3> QED
      BY <2>1, <2>2, <2>3, <3>1 DEF Vacancies, Line
  <2>10. Offered'
    BY <2>1, <2>2, <2>3, <2>4, <2>5, <2>6 DEF Vacancies, Offered, Fits, Unmarked, Empty, HoldsNothing
  <2>11. Marking'
    <3>1. /\ mark' = mark /\ cache' = cache /\ pc' = pc /\ found' = found
          /\ (Vacant(mark.blk)' <=> Vacant(mark.blk)) /\ (Fits(mark.blk)' <=> Fits(mark.blk))
      <4>1. Vacant(mark.blk)' <=> Vacant(mark.blk)
        BY <2>2 DEF Vacant, Holds, Mapped, MappedTo, Pool
      <4>2. Fits(mark.blk)' <=> Fits(mark.blk)
        BY <2>2, <2>4 DEF Fits
      <4> QED
        BY <2>2, <4>1, <4>2
    <3>2. Want(0)' = Want(0)
      BY <2>4, ChipFacts
    <3> QED
      BY <2>1, <3>1, <3>2 DEF Vacancies, Marking
  <2> QED
    BY <2>8, <2>9, <2>10, <2>11 DEF Vacancies
<1> QED
  BY <1>1, ScanVacancies, CopyVacancies, MarkVacancies, FreshVacancies, ScanFailsVacancies,
     RelocateVacancies, FindVacancies, NothingFoundVacancies, RemapVacancies, PlaceBmtVacancies,
     EraseBmtVacancies, ProgramBmtVacancies, ProgramBbtVacancies, ServeVacancies, QuietVacancies
  DEF Running, SetUp, Find, Update, Serve, Reading

-----------------------------------------------------------------------------
(***************************************************************************)
(* The users' data: a step that touches a block nobody's data are in.      *)
(***************************************************************************)
(* No user's data are in block b, nor will be when the numbering is made. *)
Spare(b) ==
  /\ Up  => \A l \in Logical : Physical(l) # b
  /\ ~Up => b \notin 0 .. sys - 1

LEMMA SpareBlocks ==
  ASSUME Held
  PROVE  /\ \A b \in Pool : ~Mapped(b) => Spare(b)
         /\ Spare(NBlocks)
<1>1. sys \in Nat /\ NBlocks \in Nat /\ sys <= NBlocks - 1
  BY HeldFacts, ChipFacts DEF Blocks
<1>2. \A b \in Pool : b \notin 0 .. sys - 1
  BY <1>1 DEF Pool
<1>3. \A b \in Pool : ~Mapped(b) => Spare(b)
  BY <1>2, PhysicalIsNot DEF Spare
<1>4. Spare(NBlocks)
  <2>1. NBlocks \notin Blocks /\ NBlocks \notin 0 .. sys - 1
    BY <1>1 DEF Blocks
  <2>2. Up => \A l \in Logical : Physical(l) \in Blocks
    BY PhysicalApart
  <2> QED
    BY <2>1, <2>2 DEF Spare
<1> QED
  BY <1>3, <1>4

LEMMA PhysicalSame ==
  ASSUME UNCHANGED <<bmt, bbt, sys, pBbt>>
  PROVE  Logical' = Logical /\ \A l : Physical(l)' = Physical(l)
  BY DEF Logical, LogicalCount, Physical, ByBmt

(* A step that touches one spare block, or reads, harms nobody's data.     *)
Spares(b) ==
  /\ Spare(b)
  /\ \A x \in Blocks, q \in Pages : x # b => flash'[x][q].data = flash[x][q].data
  /\ \/ cache' = cache
     \/ \E q \in Pages : cache'.page = <<b, q>>
     \/ flash' = flash /\ \E x \in Pool : Reads(x, 0)

LEMMA SparesUsers ==
  ASSUME Held, Same, NEW b, Spares(b), Up' <=> Up, pc # "dead"
  PROVE  Untouched' /\ Numbers' /\ Kept' /\ Coherent'
<1>1. /\ UNCHANGED <<bmt, bbt, sys, pBbt, ack, req>>
      /\ Logical' = Logical /\ \A l : Physical(l)' = Physical(l)
  BY PhysicalSame DEF Same
<1>2. /\ sys \in Nat /\ 0 .. sys - 1 \subseteq Blocks
      /\ \A x \in Pool : x \notin 0 .. sys - 1
  BY HeldFacts, ChipFacts DEF Blocks, Pool
<1>3. CASE Up
  <2>1. \A l \in Logical : Physical(l) \in Blocks /\ Physical(l) # b
    BY <1>3, PhysicalApart DEF Spares, Spare
  <2>2. \A l \in Logical, p \in Pages : flash'[Physical(l)][p].data = flash[Physical(l)][p].data
    BY <2>1 DEF Spares
  <2>3. Kept'
    BY <1>1, <1>3, <2>2, HeldFacts DEF Kept
  <2>4. Numbers'
    BY <1>1, <1>3, HeldFacts DEF Numbers
  <2>5. ASSUME NEW l \in Logical, NEW p \in Pages, cache'.page = <<Physical(l), p>>, Trusted(l, p)
        PROVE  cache'.data = flash[Physical(l)][p].data
    <3>1. CASE cache' = cache
      BY <1>3, <2>5, <3>1, HeldFacts DEF Coherent
    <3>2. CASE \E q \in Pages : cache'.page = <<b, q>>
      BY <2>1, <2>5, <3>2
    <3>3. CASE flash' = flash /\ \E x \in Pool : Reads(x, 0)
      <4>1. PICK x \in Pool : Reads(x, 0)
        BY <3>3
      <4>2. x = Physical(l) /\ p = 0
        BY <2>5, <4>1 DEF Reads
      <4>3. CASE cache.page = <<x, 0>>
        <5>1. cache' = cache
          BY <4>1, <4>3 DEF Reads
        <5> QED
          BY <1>3, <2>5, <5>1, HeldFacts DEF Coherent
      <4>4. CASE cache.page # <<x, 0>>
        BY <4>1, <4>2, <4>4 DEF Reads
      <4> QED
        BY <4>3, <4>4
    <3> QED
      BY <3>1, <3>2, <3>3 DEF Spares
  <2>6. Coherent'
    <3>1. \A l, p : Trusted(l, p)' <=> Trusted(l, p)
      BY <1>1 DEF Trusted
    <3> QED
      BY <1>1, <1>3, <2>2, <2>5, <3>1 DEF Coherent
  <2>7. Untouched'
    BY <1>3 DEF Untouched
  <2> QED
    BY <2>3, <2>4, <2>6, <2>7
<1>4. CASE ~Up
  <2>1. /\ bmt = <<>> /\ ack = [l \in Blocks |-> [p \in Pages |-> Erased]]
        /\ \A x \in 0 .. sys - 1, p \in Pages : flash[x][p].data = Erased
        /\ \A x \in 0 .. sys - 1, p \in Pages : cache.page = <<x, p>> => cache.data = Erased
    BY <1>4, HeldFacts DEF Untouched, Empty, HoldsNothing
  <2>2. b \notin 0 .. sys - 1
    BY <1>4 DEF Spares, Spare
  <2>3. \A x \in 0 .. sys - 1, p \in Pages : flash'[x][p].data = Erased
    BY <1>2, <2>1, <2>2 DEF Spares
  <2>4. ASSUME NEW x \in 0 .. sys - 1, NEW p \in Pages, cache'.page = <<x, p>>
        PROVE  cache'.data = Erased
    <3>1. CASE cache' = cache
      BY <2>1, <2>4, <3>1
    <3>2. CASE \E q \in Pages : cache'.page = <<b, q>>
      BY <2>2, <2>4, <3>2
    <3>3. CASE \E y \in Pool : Reads(y, 0)
      BY <1>2, <2>4, <3>3 DEF Reads
    <3> QED
      BY <3>1, <3>2, <3>3 DEF Spares
  <2>5. Untouched'
    BY <1>1, <2>1, <2>3, <2>4 DEF Untouched, Empty, HoldsNothing
  <2>6. Numbers' /\ Kept' /\ Coherent'
    BY <1>4 DEF Numbers, Kept, Coherent
  <2> QED
    BY <2>5, <2>6
<1> QED
  BY <1>3, <1>4

LEMMA SparesRequest ==
  ASSUME Held, Same, NEW b, Spares(b), Up' <=> Up, pc \notin {"dead", "erase", "done"},
         req.op = "write" =>
           /\ Goal' = "program" \/ Copying' => Copying
           /\ Remapped' \/ pc' = "done" => Remapped
           /\ pc' = "mark" /\ mark'.then = "done" => mark'.blk = req.blk /\ mark'.page = req.page
           /\ pc' = "done" => cache'.page = <<req.blk, req.page>>
           /\ Filled'
  PROVE  Users'
<1>1. Untouched' /\ Numbers' /\ Kept' /\ Coherent'
  BY SparesUsers
<1>2. /\ UNCHANGED <<bmt, bbt, sys, pBbt, ack, req>>
      /\ Logical' = Logical /\ \A l : Physical(l)' = Physical(l)
  BY PhysicalSame DEF Same
<1>3. Erasing'
  <2>1. req.op # "erase"
    BY HeldFacts DEF Stages
  <2> QED
    BY <1>2, <2>1 DEF Erasing
<1>4. Writing'
  <2> SUFFICES ASSUME req.op = "write" PROVE Writing'
    BY <1>2 DEF Writing
  <2>1. /\ Up /\ req.log \in Logical /\ req.blk = req.phys
        /\ Copying => req.phys = Physical(req.log) /\ flash[req.phys][req.page].data = Erased
        /\ ack[req.log][req.page] = Unknown
        /\ \A q \in Pages : q > req.page => ack[req.log][q] = Erased
    BY WritingIs
  <2>2. /\ Remapped => flash[Physical(req.log)][req.page].data = req.data
        /\ Remapped => \A l \in Logical : Physical(l) # req.blk
    BY HeldFacts DEF Writing
  <2>3. flash'[Physical(req.log)][req.page].data = flash[Physical(req.log)][req.page].data
    BY <2>1, PhysicalApart, HeldFacts DEF Spares, Spare
  <2>4. /\ req'.log \in Logical' /\ ack'[req'.log][req'.page] = Unknown
        /\ \A q \in Pages : q > req'.page => ack'[req'.log][q] = Erased
    BY <1>2, <2>1
  <2>5. Goal' = "program" \/ Copying' => /\ req'.phys = Physical(req.log)'
                                         /\ flash'[req'.phys][req'.page].data = Erased
    <3>1. Physical(req.log)' = Physical(req.log)
      BY <1>2 DEF Physical, ByBmt
    <3>2. Goal' = "program" \/ Copying' => Copying
      OBVIOUS
    <3> QED
      BY <1>2, <2>1, <2>3, <3>1, <3>2
  <2>6. /\ Remapped' \/ pc' = "done" => flash'[Physical(req.log)'][req'.page].data = req'.data
        /\ Remapped' => \A l \in Logical' : Physical(l)' # req'.blk
    <3>1. Physical(req.log)' = Physical(req.log)
      BY <1>2 DEF Physical, ByBmt
    <3>2. Remapped' \/ pc' = "done" => Remapped
      OBVIOUS
    <3>3. Remapped' \/ pc' = "done" => flash'[Physical(req.log)'][req'.page].data = req'.data
      BY <1>2, <2>2, <2>3, <3>1, <3>2
    <3>4. Remapped' => \A l \in Logical' : Physical(l)' # req'.blk
      BY <1>2, <2>2, <3>2
    <3> QED
      BY <3>3, <3>4
  <2>7. pc' = "done" => cache'.page # <<Physical(req.log)', req'.page>>
    <3>1. Physical(req.log)' = Physical(req.log)
      BY <1>2 DEF Physical, ByBmt
    <3> QED
      BY <1>2, <2>1, <2>2, <3>1
  <2> QED
    BY <1>2, <2>4, <2>5, <2>6, <2>7 DEF Writing
<1>5. Filled'
  BY <1>2 DEF Filled
<1> QED
  BY <1>1, <1>3, <1>4, <1>5 DEF Users

LEMMA Below ==
  \A s \in Blocks : 0 .. s - 1 \subseteq Blocks
BY ChipFacts DEF Blocks


(* Until the pool is erased everything read is blank. *)
LEMMA FreshUsers ==
  ASSUME Held, Reading \/ ErasePool
  PROVE  Users'
<1>1. /\ ~poolErased /\ req.op = "boot" /\ req'.op = "boot" /\ pc' # "ready" /\ ack' = ack
      /\ pc # "ready" /\ pc # "dead"
      /\ bmt' = <<>>
  <2>1. CASE Reading
    <3>1. /\ pc \in SettingUp /\ pc # "mark" /\ req.op = "boot" /\ bmt' = <<>>
          /\ UNCHANGED <<req, ack>> /\ pc' \in SettingUp \cup {"dead", "save"}
      BY <2>1, ReadingFinds, HeldFacts
    <3>2. Goal \in SettingUp
      BY <3>1 DEF Goal, At, SettingUp
    <3> QED
      BY <3>1, <3>2, HeldFacts DEF Stages, SettingUp
  <2>2. CASE ErasePool
    BY <2>2, ErasePoolDoes, HeldFacts DEF Same, Fresh
  <2> QED
    BY <2>1, <2>2
<1>2. \A b \in Blocks, p \in Pages : flash[b][p].data = Erased
  BY <1>1, HeldFacts DEF Fresh, Empty, HoldsNothing
<1>3. \A b \in Blocks, p \in Pages : flash'[b][p].data = Erased
  <2>1. CASE ErasePool
    <3>1. i \in Blocks /\ (flash' = flash \/ Wiped(i))
      BY <2>1, ErasePoolDoes
    <3> QED
      BY <1>2, <3>1, WipedFacts, HeldFacts DEF Blank
  <2>2. CASE Reading
    BY <1>2, <2>2, ReadingFinds, HeldFacts
  <2> QED
    BY <2>1, <2>2
<1>4. sys' \in Blocks /\ 0 .. sys' - 1 \subseteq Blocks
  <2>1. TypeInv'
    BY HeldFacts, TypeNext DEF Reading, Next, Driver, SetUp, Find
  <2>2. sys' \in Blocks
    BY <2>1 DEF TypeInv, TypeOK
  <2> QED
    BY <2>2, Below
<1>5. ASSUME NEW x \in 0 .. sys' - 1, NEW p \in Pages, cache'.page = <<x, p>>
      PROVE  cache'.data = Erased
  <2>1. CASE Reading
    <3>1. cache' = cache \/ \E b \in Blocks : cache' = Read(flash, cache, b, 0)
      BY <2>1, ReadingFinds, HeldFacts
    <3>2. cache.page # NoPage => cache.data = Erased
      <4>1. At \in SettingUp
        BY <2>1, ReadingFinds, HeldFacts DEF At
      <4> QED
        BY <4>1, HeldFacts DEF Undisturbed, BlankChip
    <3>3. <<x, p>> # NoPage
      BY DEF NoPage
    <3>4. CASE cache' = cache
      BY <1>5, <3>2, <3>3, <3>4
    <3>5. ASSUME NEW b \in Blocks, cache' = Read(flash, cache, b, 0), cache' # cache
          PROVE  cache'.data = Erased
      <4>1. cache'.data = flash[b][0].data
        BY <3>5 DEF Read
      <4> QED
        BY <1>2, <4>1, HeldFacts
    <3> QED
      BY <3>1, <3>4, <3>5
  <2>2. CASE ErasePool
    <3>1. sys' = sys /\ i \in Blocks /\ (cache' = cache \/ Reads(i, 0))
      BY <2>2, ErasePoolDoes DEF Same
    <3>2. \A q \in Pages : cache.page = <<x, q>> => cache.data = Erased
      BY <1>1, <1>5, <3>1, HeldFacts DEF Up, Untouched
    <3> QED
      BY <1>2, <1>5, <3>1, <3>2, HeldFacts DEF Reads
  <2> QED
    BY <2>1, <2>2
<1>6. Untouched'
  <2>1. ack = [l \in Blocks |-> [p \in Pages |-> Erased]]
    BY <1>1, HeldFacts DEF Untouched, Up
  <2> QED
    BY <1>1, <1>3, <1>4, <1>5, <2>1 DEF Untouched, Empty, HoldsNothing
<1> QED
  BY <1>1, <1>6 DEF Users, Up, Numbers, Kept, Coherent, Writing, Filled, Erasing

(* The steps that leave the chip alone, or read a block of the pool. *)
LEMMA IdleUsers ==
  ASSUME Held, MarkIsSeen, Save \/ FindBbtBlock \/ FindBmtBlock \/ Relocate \/ ErasePoolDone \/ Scan
                           \/ ScanFails \/ NothingFound \/ PlaceBmt
  PROVE  Users'
<1> DEFINE Fine == /\ Goal' = "program" \/ Copying' => Copying
                   /\ Remapped' \/ pc' = "done" => Remapped
                   /\ pc' # "mark" /\ pc' # "done"
                   /\ Filled'
<1>1. /\ Same /\ flash' = flash /\ (cache' = cache \/ (i \in Pool /\ Reads(i, 0)))
      /\ pc \notin {"ready", "dead", "erase", "done"} /\ pc' \notin {"ready", "done", "mark"}
  <2>1. CASE Scan
    BY <2>1, ScanDoes
  <2>2. CASE Save \/ FindBbtBlock \/ FindBmtBlock \/ Relocate \/ ErasePoolDone
             \/ ScanFails \/ NothingFound \/ PlaceBmt
    BY <2>2, SaveDoes, FindBbtBlockDoes, FindBmtBlockDoes, RelocateDoes, ErasePoolDoneDoes,
       ScanFailsDoes, NothingFoundDoes, PlaceBmtDoes DEF Idle
  <2> QED
    BY <2>1, <2>2
<1>2. Spares(NBlocks)
  BY <1>1, SpareBlocks DEF Spares
<1>3. Up' <=> Up
  BY <1>1 DEF Up, Same
<1>4. req.op = "write" => Fine
  <2> SUFFICES ASSUME req.op = "write" PROVE Fine
    OBVIOUS
  <2>1. req' = req
    BY <1>1 DEF Same
  <2>2. CASE Scan \/ ScanFails
    <3>1. /\ pc = "scan" /\ Goal' = Goal /\ Goal \in {"copy", "placeBmt", "programBbt"}
          /\ UNCHANGED <<sys, req, found>> \/ (sys' = sys /\ req' = req /\ i' = 0)
          /\ pc' = "scan" \/ (i' = 0 /\ pc' \in {"copy", "placeBmt", "programBbt"})
      BY <2>2, ScanDoes, ScanFailsDoes DEF Same
    <3>2. /\ Copying' <=> Copying
          /\ Remapped' => Remapped
          /\ Goal' # "program"
      BY <3>1 DEF Copying, Remapped, ToBmt
    <3>3. Copying => req.blk < sys \/ req.page = 0
      BY <3>1, HeldFacts DEF Filled
    <3>4. pc' \in {"scan", "copy", "placeBmt", "programBbt"} /\ (pc' = "copy" => i' = 0)
      BY <3>1
    <3>5. sys' = sys
      BY <3>1
    <3>6. pc' = "copy" => i' <= req.page /\ \A p \in Pages : ~(p < i')
      BY <3>4, HeldFacts
    <3>7. Filled'
      BY <2>1, <3>2, <3>3, <3>4, <3>5, <3>6 DEF Filled
    <3> QED
      BY <3>1, <3>2, <3>7
  <2>3. CASE Relocate
    <3>1. pc = "relocate" /\ pc' = "scan" /\ Goal = "relocate" /\ Goal' = "copy" /\ sys' = sys
      BY <2>3, RelocateDoes DEF Same
    <3>2. Copying /\ ~Remapped' /\ Goal' # "program"
      BY <3>1 DEF Copying, Remapped, ToBmt
    <3>3. Filled'
      BY <2>1, <3>1 DEF Filled, MarkIsSeen
    <3> QED
      BY <3>1, <3>2, <3>3
  <2>4. CASE FindBmtBlock \/ NothingFound \/ PlaceBmt
    <3>1. /\ Goal' \in {"placeBmt", "refused", "programBmt"}
          /\ pc' \in {"scan", "erasePool", "refused", "programBmt"}
          /\ Goal' # "refused" => Goal \in {"writeBmt", "placeBmt"}
      BY <2>4, FindBmtBlockDoes, NothingFoundDoes, PlaceBmtDoes
    <3>2. ~Copying' /\ (Remapped' => Remapped) /\ Goal' # "program"
      BY <3>1 DEF Copying, Remapped, ToBmt
    <3>3. Filled'
      BY <3>1, <3>2 DEF Filled
    <3> QED
      BY <3>1, <3>2, <3>3
  <2>5. ~(Save \/ FindBbtBlock \/ ErasePoolDone)
    BY SaveDoes, FindBbtBlockDoes, ErasePoolDoneDoes
  <2> QED
    BY <2>2, <2>3, <2>4, <2>5
<1> QED
  BY <1>1, <1>2, <1>3, <1>4, SparesRequest

(* The steps that write or erase a block in which no data are. *)
LEMMA TableUsers ==
  ASSUME Held, EraseBmt \/ ProgramBmt \/ ProgramBbt
  PROVE  Users'
<1> DEFINE Table == IF ProgramBbt THEN found ELSE bmtAt
<1>1. /\ Same /\ Table \in Pool /\ ~Mapped(Table)
      /\ pc \in {"writeBmt", "programBmt", "programBbt"}
      /\ pc' \in {"programBmt", "saveBbt", "build", "mark"}
  <2>1. CASE ProgramBbt
    BY <2>1, ProgramBbtDoes DEF Vacant
  <2>2. CASE ~ProgramBbt /\ ProgramBmt
    BY <2>2, ProgramBmtDoes
  <2>3. CASE ~ProgramBbt /\ EraseBmt
    BY <2>3, EraseBmtDoes
  <2> QED
    BY <2>1, <2>2, <2>3
<1>2. Spares(Table)
  <2>1. Spare(Table)
    BY <1>1, SpareBlocks
  <2>2. CASE ProgramBbt
    <3>1. \E r : Wrote(Table, 0, Want(0), r)
      BY <2>2, ProgramBbtDoes
    <3> QED
      BY <2>1, <3>1, HeldFacts DEF Spares, Wrote
  <2>3. CASE ~ProgramBbt /\ ProgramBmt
    <3>1. \E r : Wrote(Table, 0, Want(0), r)
      BY <2>3, ProgramBmtDoes
    <3> QED
      BY <2>1, <3>1, HeldFacts DEF Spares, Wrote
  <2>4. CASE ~ProgramBbt /\ EraseBmt
    <3>1. Wiped(Table) /\ cache' = cache
      BY <2>4, EraseBmtDoes
    <3> QED
      BY <1>1, <2>1, <3>1, WipedFacts, HeldFacts DEF Spares
  <2> QED
    BY <2>2, <2>3, <2>4
<1> HIDE DEF Table
<1>3. Up' <=> Up
  BY <1>1 DEF Up, Same
<1>4. req.op = "write" =>
           /\ Goal' = "program" \/ Copying' => Copying
           /\ Remapped' \/ pc' = "done" => Remapped
           /\ pc' = "mark" /\ mark'.then = "done" => mark'.blk = req.blk /\ mark'.page = req.page
           /\ pc' = "done" => cache'.page = <<req.blk, req.page>>
           /\ Filled'
  <2> SUFFICES ASSUME req.op = "write"
               PROVE  /\ Goal' = "program" \/ Copying' => Copying
                      /\ Remapped' \/ pc' = "done" => Remapped
                      /\ pc' = "mark" /\ mark'.then = "done" => mark'.blk = req.blk /\ mark'.page = req.page
                      /\ pc' = "done" => cache'.page = <<req.blk, req.page>>
                      /\ Filled'
    OBVIOUS
  <2>1. /\ Goal' \in {"programBmt", "writeBmt", "done"} /\ Goal \in {"writeBmt", "programBmt"}
        /\ pc' \in {"programBmt", "mark"}
        /\ pc' = "mark" /\ mark'.then = "done" => mark'.blk = req.blk /\ mark'.page = req.page
    <3>1. CASE ProgramBmt
      BY <3>1, ProgramBmtDoes
    <3>2. CASE EraseBmt
      BY <3>2, EraseBmtDoes
    <3>3. ~ProgramBbt
      BY ProgramBbtDoes
    <3> QED
      BY <3>1, <3>2, <3>3
  <2>2. ~Copying' /\ Remapped /\ Goal' # "program"
    BY <2>1 DEF Copying, Remapped, ToBmt
  <2>3. Filled'
    BY <2>1, <2>2 DEF Filled
  <2> QED
    BY <2>1, <2>2, <2>3
<1> QED
  BY <1>1, <1>2, <1>3, <1>4, SparesRequest

LEMMA CopyUsers ==
  ASSUME Held, CopyPage \/ CopyLast
  PROVE  Users'
<1>1. /\ pc = "copy" /\ found # 0 /\ Vacant(found) /\ Fits(found) /\ found # req.blk
      /\ Copying /\ ~ToBbt /\ req.op = "write" /\ i \in Pages
      /\ Same /\ UNCHANGED <<bmt, bbt, req, found, sys>>
      /\ found \in Pool /\ ~Mapped(found) /\ found \in Blocks
  BY CopyDoes, HeldFacts DEF Same, Vacant, Copying, ToBbt
<1>2. PICK r : /\ Wrote(found, i, Want(i), r) /\ i <= req.page
               /\ \/ /\ r = "ok" /\ i < req.page /\ i' = i + 1
                     /\ pc' = "copy" /\ Goal' = "copy"
                  \/ r = "ok" /\ i = req.page /\ pc' = "remap" /\ Goal' = "remap"
                  \/ /\ r = "clean" /\ pc' = "mark" /\ Goal' = "relocate"
                     /\ mark'.blk = found /\ mark'.page = 0 /\ mark'.then = "relocate"
  BY CopyDoes
<1>3. Copying' /\ ~ToBbt' /\ ~Remapped' /\ Goal' # "program" /\ pc' # "done"
  BY <1>2 DEF Copying, ToBbt, Remapped, ToBmt
<1>4. Spares(found)
  <2>1. Spare(found)
    BY <1>1, SpareBlocks
  <2> QED
    BY <1>1, <1>2, <2>1 DEF Spares, Wrote
<1>5. \A p \in Pages : Want(p)' = Want(p)
  <2>1. \A q \in Pages : flash'[req.blk][q].data = flash[req.blk][q].data
    BY <1>1, <1>2, HeldFacts DEF Wrote
  <2> QED
    BY <1>1, <1>3, <2>1, WantSame
<1>6. Up' <=> Up
  BY <1>1, <1>2 DEF Up
<1>7. ASSUME r = "ok", NEW p \in Pages, p <= i
      PROVE  flash'[found][p].data = Want(p)
  <2>1. flash[found][p].data \in {Erased, Want(p)} /\ flash[found][i].data \in {Erased, Want(i)}
    BY <1>1 DEF Fits
  <2>2. CASE p = i
    BY <1>2, <1>7, <2>1, <2>2 DEF Wrote
  <2>3. CASE p < i
    <3>1. flash[found][p].data = Want(p)
      BY <1>1, <2>3, HeldFacts DEF Filled
    <3> QED
      BY <1>1, <1>2, <2>3, <3>1, HeldFacts DEF Wrote
  <2> QED
    BY <1>1, <1>7, <2>2, <2>3, HeldFacts
<1>8. ASSUME NEW p \in Pages, p > i, i = req.page
      PROVE  flash'[found][p].data = Want(p)
  <2>1. Want(p) = Erased
    BY <1>1, <1>8, HeldFacts DEF Want
  <2>2. flash[found][p].data = Erased
    BY <1>1, <2>1 DEF Fits
  <2> QED
    BY <1>1, <1>2, <1>8, <2>1, <2>2, HeldFacts DEF Wrote
<1>9. Filled'
  <2>1. Copying /\ pc # "relocate" => req.blk < sys \/ req.page = 0
    BY <1>1, HeldFacts DEF Filled
  <2>2. pc' = "copy" => i' <= req.page /\ \A p \in Pages : p < i' => flash'[found][p].data = Want(p)'
    BY <1>1, <1>2, <1>5, <1>7, HeldFacts
  <2>3. pc' = "remap" => \A p \in Pages : flash'[found][p].data = Want(p)'
    <3> SUFFICES ASSUME pc' = "remap", NEW p \in Pages PROVE flash'[found][p].data = Want(p)'
      OBVIOUS
    <3>1. r = "ok" /\ i = req.page
      BY <1>2
    <3>2. p <= i \/ p > i
      BY <1>1, HeldFacts
    <3> QED
      BY <1>5, <1>7, <1>8, <3>1, <3>2
  <2> QED
    BY <1>1, <2>1, <2>2, <2>3 DEF Filled
<1> QED
  BY <1>1, <1>2, <1>3, <1>4, <1>6, <1>9, SparesRequest

LEMMA MarkUsers ==
  ASSUME Held, Mark
  PROVE  Users'
<1>1. /\ pc = "mark" /\ pc' = mark.then /\ Goal = mark.then /\ Goal' = mark.then
      /\ mark.then \in {"relocate", "writeBmt", "saveBbt", "done"}
      /\ Same /\ UNCHANGED <<req, sys, found, i>>
      /\ mark.then # "done" => Vacant(mark.blk)
      /\ mark.then = "done" => req.op = "write" /\ mark.blk = req.blk /\ mark.page = req.page
  BY MarkDoes DEF Same
<1>2. PICK r, d : Wrote(mark.blk, mark.page, d, r)
  BY MarkDoes
<1>3. Spare(mark.blk)
  <2>1. CASE mark.then # "done"
    BY <1>1, <2>1, SpareBlocks DEF Vacant
  <2>2. CASE mark.then = "done"
    <3>1. Remapped /\ req.op = "write" /\ mark.blk = req.blk
      BY <1>1, <2>2 DEF Remapped
    <3> QED
      BY <3>1, HeldFacts DEF Writing, Spare, Up
  <2> QED
    BY <2>1, <2>2
<1>4. Spares(mark.blk)
  BY <1>2, <1>3, HeldFacts DEF Spares, Wrote
<1>5. Up' <=> Up
  BY <1>1 DEF Up
<1>6. /\ Goal' # "program" /\ (Copying' => Copying)
      /\ (Remapped' \/ pc' = "done" => Remapped)
  BY <1>1 DEF Copying, Remapped, ToBmt
<1>7. Filled'
  BY <1>1 DEF Filled, Copying
<1>8. pc' = "done" => cache'.page = <<req.blk, req.page>>
  BY <1>1, <1>2 DEF Wrote
<1> QED
  BY <1>1, <1>4, <1>5, <1>6, <1>7, <1>8, SparesRequest

-----------------------------------------------------------------------------
(***************************************************************************)
(* The users' data: the steps that move, make or promise them.             *)
(***************************************************************************)
(* The new entry of the table decides where the block of the request is,   *)
(* and where nothing else is.                                              *)
LEMMA RemapPhysical ==
  ASSUME Held, Remap
  PROVE  /\ Physical(req.log)' = found
         /\ \A l \in Logical : Physical(l)' = IF l = req.log THEN found ELSE Physical(l)
<1> DEFINE hits(t, b) == {m \in DOMAIN t : t[m].bad = b}
           place(t, b) == IF hits(t, b) = {} THEN b ELSE t[First(hits(t, b))].mapped
<1>1. /\ req.op = "write" /\ found \in Pool /\ UNCHANGED <<pBbt, req, sys>>
      /\ bmt \in Seq(Entry) /\ DOMAIN bmt = 1 .. Len(bmt) /\ Len(bmt) \in Nat
      /\ found \in Blocks /\ req.blk \in Blocks /\ sys \in Nat
  <2>1. bmt \in Seq(Entry)
    BY HeldFacts DEF TypeOK
  <2>2. found \in Blocks /\ req.blk \in Blocks /\ sys \in Nat
    BY HeldFacts
  <2> QED
    BY <2>1, <2>2, RemapDoes DEF Vacant
<1>2. /\ Up /\ req.log \in Logical /\ req.blk = Physical(req.log)
  BY <1>1, RemapDoes, WritingIs
<1>3. \A l : Physical(l) = place(bmt, pBbt[l]) /\ Physical(l)' = place(bmt', pBbt'[l])
  BY DEF Physical, ByBmt
<1>4. \A l \in Logical : l # req.log => pBbt[l] # pBbt[req.log]
  BY <1>2, HeldFacts DEF Numbers
<1>5. ASSUME req.blk < sys
      PROVE  /\ place(bmt', pBbt[req.log]) = found
             /\ \A l \in Logical : l # req.log => Physical(l)' = Physical(l)
  <2> DEFINE e == [bad |-> req.blk, mapped |-> found]
  <2>1. /\ bmt' = Append(bmt, e) /\ e \in Entry /\ e.mapped = found /\ e.bad = req.blk
    BY <1>1, <1>5 DEF Remap, Entry
  <2> HIDE DEF e
  <2>2. /\ DOMAIN bmt' = 1 .. Len(bmt) + 1 /\ bmt'[Len(bmt) + 1] = e
        /\ \A m \in DOMAIN bmt : bmt'[m] = bmt[m]
    BY <1>1, <2>1
  <2>3. pBbt[req.log] = req.blk /\ \A m \in DOMAIN bmt : bmt[m].bad # req.blk
    <3>1. req.blk \notin Pool
      BY <1>1, <1>5 DEF Pool
    <3> QED
      BY <1>2, <3>1, PhysicalApart
  <2>4. hits(bmt', req.blk) = {Len(bmt) + 1}
    BY <1>1, <2>1, <2>2, <2>3
  <2>5. First({Len(bmt) + 1}) = Len(bmt) + 1
    BY <1>1 DEF First
  <2>6. place(bmt', req.blk) = found
    BY <2>1, <2>2, <2>4, <2>5
  <2>7. place(bmt', pBbt[req.log]) = found
    BY <2>3, <2>6
  <2>8. ASSUME NEW b, b # req.blk
        PROVE  place(bmt', b) = place(bmt, b)
    <3>1. hits(bmt', b) = hits(bmt, b)
      BY <1>1, <2>1, <2>2, <2>8
    <3>2. CASE hits(bmt, b) = {}
      BY <3>1, <3>2
    <3>3. CASE hits(bmt, b) # {}
      <4>1. First(hits(bmt, b)) \in hits(bmt, b)
        <5>1. hits(bmt, b) \in SUBSET Nat
          BY <1>1
        <5> HIDE DEF hits
        <5> QED
          BY <3>3, <5>1, FirstIs
      <4>2. First(hits(bmt, b)) \in DOMAIN bmt
        BY <4>1
      <4> HIDE DEF hits
      <4> QED
        BY <2>2, <3>1, <3>3, <4>2
    <3> QED
      BY <3>2, <3>3
  <2>9. \A l \in Logical : l # req.log => Physical(l)' = Physical(l)
    <3> HIDE DEF place
    <3> QED
      BY <1>1, <1>3, <1>4, <2>3, <2>8
  <2> QED
    BY <2>7, <2>9
<1>6. ASSUME req.blk >= sys
      PROVE  /\ place(bmt', pBbt[req.log]) = found
             /\ \A l \in Logical : l # req.log => Physical(l)' = Physical(l)
  <2>1. req.blk \in Pool
    BY <1>1, <1>6, ChipFacts DEF Pool, Blocks
  <2>2. PICK k \in DOMAIN bmt : /\ bmt[k].bad = pBbt[req.log] /\ bmt[k].mapped = req.blk
                                /\ k = First(hits(bmt, pBbt[req.log]))
    BY <1>2, <2>1, PhysicalApart
  <2>3. First(MappedTo(req.blk)) = k
    <3>1. MappedTo(req.blk) \in SUBSET Nat /\ MappedTo(req.blk) # {}
      BY <1>1, <2>2 DEF MappedTo
    <3>2. First(MappedTo(req.blk)) \in MappedTo(req.blk)
      BY <3>1, FirstIs
    <3> QED
      BY <2>2, <3>2, HeldFacts DEF MappedTo, Undisturbed, InUseApart
  <2>4. bmt' = [bmt EXCEPT ![k].mapped = found]
    <3>1. ~(req.blk < sys)
      <4>1. \A b \in Blocks, s \in Nat : b >= s => ~(b < s)
        BY DEF Blocks
      <4> QED
        BY <1>1, <1>6, <4>1
    <3>2. Mapped(req.blk)
      BY <2>2 DEF Mapped, MappedTo
    <3>3. bmt' = [bmt EXCEPT ![First(MappedTo(req.blk))].mapped = found]
      BY <3>1, <3>2 DEF Remap
    <3> QED
      BY <2>3, <3>3
  <2>5. /\ DOMAIN bmt' = DOMAIN bmt /\ bmt'[k].mapped = found /\ bmt'[k].bad = bmt[k].bad
        /\ \A m \in DOMAIN bmt : m # k => bmt'[m] = bmt[m]
    <3> DEFINE e == [bmt[k] EXCEPT !.mapped = found]
    <3>1. bmt[k] \in Entry
      BY <1>1, <2>2
    <3>2. e.mapped = found /\ e.bad = bmt[k].bad
      BY <3>1 DEF Entry
    <3>3. bmt' = [bmt EXCEPT ![k] = e]
      BY <2>4
    <3> HIDE DEF e
    <3> QED
      BY <1>1, <2>2, <3>2, <3>3
  <2>6. \A b : hits(bmt', b) = hits(bmt, b)
    BY <2>5
  <2>7. place(bmt', pBbt[req.log]) = found
    <3>1. hits(bmt, pBbt[req.log]) # {}
      BY <2>2
    <3> HIDE DEF hits
    <3> QED
      BY <2>2, <2>5, <2>6, <3>1
  <2>8. ASSUME NEW l \in Logical, l # req.log
        PROVE  Physical(l)' = Physical(l)
    <3>1. CASE hits(bmt, pBbt[l]) = {}
      <4> HIDE DEF hits
      <4> QED
        BY <1>1, <1>3, <2>6, <3>1
    <3>2. CASE hits(bmt, pBbt[l]) # {}
      <4>1. First(hits(bmt, pBbt[l])) \in hits(bmt, pBbt[l])
        <5>1. hits(bmt, pBbt[l]) \in SUBSET Nat
          BY <1>1
        <5> HIDE DEF hits
        <5> QED
          BY <3>2, <5>1, FirstIs
      <4>2. First(hits(bmt, pBbt[l])) \in DOMAIN bmt /\ First(hits(bmt, pBbt[l])) # k
        BY <1>4, <2>2, <2>8, <4>1
      <4> HIDE DEF hits
      <4> QED
        BY <1>1, <1>3, <2>5, <2>6, <3>2, <4>2
    <3> QED
      BY <3>1, <3>2
  <2> QED
    BY <2>7, <2>8
<1>7. /\ Physical(req.log)' = found
      /\ \A l \in Logical : Physical(l)' = IF l = req.log THEN found ELSE Physical(l)
  <2>1. req.blk < sys \/ req.blk >= sys
    BY <1>1, HeldFacts
  <2>2. /\ place(bmt', pBbt[req.log]) = found
        /\ \A l \in Logical : l # req.log => Physical(l)' = Physical(l)
    BY <1>5, <1>6, <2>1
  <2>3. /\ Physical(req.log)' = place(bmt', pBbt'[req'.log])
        /\ \A l : Physical(l)' = place(bmt', pBbt'[l])
    BY DEF Physical, ByBmt
  <2> HIDE DEF place
  <2> QED
    BY <1>1, <2>2, <2>3
<1> QED
  BY <1>7

LEMMA RemapUsers ==
  ASSUME Held, Remap
  PROVE  Users'
<1>1. /\ pc = "remap" /\ Goal = "remap" /\ Copying /\ req.op = "write"
      /\ found # 0 /\ found \in Pool /\ ~Mapped(found) /\ cache.page = <<found, req.page>>
      /\ pc' = "writeBmt" /\ Goal' = "writeBmt"
      /\ UNCHANGED <<flash, cache, bbt, sys, pBbt, req, ack, bmtAt, bbtAt, found>>
  BY RemapDoes DEF Idle, Vacant
<1>2. /\ Up /\ req.log \in Logical /\ req.blk = Physical(req.log) /\ req.page \in Pages
      /\ ack[req.log][req.page] = Unknown
      /\ \A q \in Pages : q > req.page => ack[req.log][q] = Erased
  BY <1>1, WritingIs, HeldFacts
<1>3. /\ Physical(req.log)' = found
      /\ \A l \in Logical : Physical(l)' = IF l = req.log THEN found ELSE Physical(l)
  BY RemapPhysical
<1>4. Logical' = Logical /\ Up'
  BY <1>1 DEF Logical, LogicalCount, Up
<1>5. /\ \A p \in Pages : p < req.page => flash[found][p].data = flash[req.blk][p].data
      /\ flash[found][req.page].data = req.data
      /\ \A p \in Pages : p > req.page => flash[found][p].data = Erased
  <2>1. \A p \in Pages : flash[found][p].data = Want(p)
    BY <1>1, HeldFacts DEF Filled
  <2> QED
    BY <1>1, <1>2, <2>1, HeldFacts DEF Want
<1>6. \A l \in Logical : Physical(l) # found
  BY <1>1, <1>2, PhysicalIsNot
<1>7. \A l \in Logical : Physical(l)' # req.blk
  <2> SUFFICES ASSUME NEW l \in Logical PROVE Physical(l)' # req.blk
    OBVIOUS
  <2>1. CASE l = req.log
    BY <1>2, <1>3, <1>6, <2>1
  <2>2. CASE l # req.log
    <3>1. Physical(l) # Physical(req.log)
      BY <1>2, <2>2, PhysicalInjective
    <3> QED
      BY <1>2, <1>3, <2>2, <3>1
  <2> QED
    BY <2>1, <2>2
<1>8. Kept'
  <2>1. ASSUME NEW l \in Logical, NEW p \in Pages, ack[l][p] # Unknown
        PROVE  flash[Physical(l)'][p].data = ack[l][p]
    <3>1. flash[Physical(l)][p].data = ack[l][p]
      BY <1>2, <2>1, HeldFacts DEF Kept
    <3>2. CASE l # req.log
      BY <1>3, <3>1, <3>2
    <3>3. CASE l = req.log
      <4>1. p # req.page
        BY <1>2, <2>1, <3>3
      <4>2. p < req.page \/ p > req.page
        BY <1>2, <4>1, HeldFacts
      <4> QED
        BY <1>2, <1>3, <1>5, <3>1, <3>3, <4>2
    <3> QED
      BY <3>2, <3>3
  <2> QED
    BY <1>1, <1>4, <2>1 DEF Kept
<1>9. Coherent'
  <2>1. ASSUME NEW l \in Logical, NEW p \in Pages, cache.page = <<Physical(l)', p>>
        PROVE  ~Trusted(l, p)
    <3>1. l = req.log /\ p = req.page
      BY <1>1, <1>3, <1>6, <2>1
    <3> QED
      BY <1>2, <3>1 DEF Trusted
  <2>2. \A l, p : Trusted(l, p)' <=> Trusted(l, p)
    BY <1>1 DEF Trusted
  <2> QED
    BY <1>1, <1>4, <2>1, <2>2 DEF Coherent
<1>10. Numbers'
  BY <1>1, <1>2, <1>4, HeldFacts DEF Numbers
<1>11. Untouched' /\ Erasing'
  BY <1>1, <1>4 DEF Untouched, Erasing
<1>12. Writing'
  <2>1. ~Copying' /\ Goal' # "program" /\ pc' # "done" /\ pc' # "mark"
    BY <1>1 DEF Copying
  <2>2. flash'[Physical(req.log)'][req'.page].data = req'.data
    BY <1>1, <1>3, <1>5
  <2> QED
    BY <1>1, <1>2, <1>3, <1>4, <1>7, <2>1, <2>2 DEF Writing
<1>13. Filled'
  BY <1>1 DEF Filled, Copying
<1> QED
  BY <1>8, <1>9, <1>10, <1>11, <1>12, <1>13 DEF Users

(* create_badblock_table_by_bbt numbers no block twice. *)
LEMMA TableBuiltApart ==
  ASSUME NEW size \in Nat, NEW s \in Seq(Blocks),
         NEW x \in 0 .. size - Len(s) - 1, NEW y \in 0 .. size - Len(s) - 1, x < y
  PROVE  TableBuilt(size, s)[x] < TableBuilt(size, s)[y]
<1>1. DOMAIN s = 1 .. Len(s) /\ Len(s) \in Nat
  OBVIOUS
<1>2. \A m \in DOMAIN s : s[m] \in Int
  BY ChipFacts DEF Blocks
<1> DEFINE before(z) == {m \in DOMAIN s : s[m] - m + 1 <= z}
           shifted   == s # <<>> /\ s[1] >= size - Len(s)
<1>3. \A z \in 0 .. size - Len(s) - 1 :
        TableBuilt(size, s)[z] = IF shifted THEN z + 1 ELSE z + Cardinality(before(z))
  BY DEF TableBuilt
<1>4. /\ IsFiniteSet(before(y)) /\ Cardinality(before(x)) <= Cardinality(before(y))
      /\ Cardinality(before(x)) \in Nat /\ Cardinality(before(y)) \in Nat
  <2>1. IsFiniteSet(1 .. Len(s))
    <3>1. \A a, b \in Int : IsFiniteSet(a .. b)
      BY ONLY FS_Interval
    <3>2. 1 \in Int /\ Len(s) \in Int
      BY <1>1
    <3> QED
      BY <3>1, <3>2, Zenon
  <2>2. before(y) \in SUBSET (1 .. Len(s))
    BY <1>1
  <2>3. before(x) \in SUBSET before(y)
    BY <1>1, <1>2
  <2> HIDE DEF before
  <2>4. IsFiniteSet(before(y))
    BY <2>1, <2>2, FS_Subset
  <2>5. IsFiniteSet(before(x)) /\ Cardinality(before(x)) <= Cardinality(before(y))
    BY <2>3, <2>4, FS_Subset
  <2> QED
    BY <2>4, <2>5, FS_CardinalityType
<1> HIDE DEF before, shifted
<1> QED
  BY <1>1, <1>3, <1>4

LEMMA BuildTableUsers ==
  ASSUME Held, BuildTable
  PROVE  Users'
<1>1. /\ pc = "build" /\ pc' = "ready" /\ req.op = "boot"
      /\ pBbt' = TableBuilt(sys, bbt)
      /\ UNCHANGED <<flash, cache, bmt, bbt, sys, req, ack>>
  BY BuildTableDoes DEF Idle
<1>2. /\ bmt = <<>> /\ ack = [l \in Blocks |-> [p \in Pages |-> Erased]]
      /\ \A b \in 0 .. sys - 1, p \in Pages : flash[b][p].data = Erased
      /\ \A b \in 0 .. sys - 1, p \in Pages : cache.page = <<b, p>> => cache.data = Erased
  BY <1>1, HeldFacts DEF Untouched, Up, Empty, HoldsNothing
<1>3. bbt \in Seq(Blocks) /\ sys \in Nat /\ sys \in Blocks /\ Len(bbt) \in Nat
  <2>1. bbt \in Seq(Blocks) /\ sys \in Nat /\ sys \in Blocks
    BY HeldFacts DEF TypeOK
  <2> QED
    BY <2>1
<1>4. Logical' = Logical /\ Logical = 0 .. sys - Len(bbt) - 1
  BY <1>1 DEF Logical, LogicalCount
<1>5. pBbt' \in [Logical -> 0 .. sys - 1]
  BY <1>1, <1>3, <1>4, TableBuiltType
<1>6. \A l \in Logical : Physical(l)' = pBbt'[l] /\ l \in Blocks
  <2>1. DOMAIN bmt' = {}
    BY <1>1, <1>2
  <2>2. \A b : ByBmt(b)' = b
    BY <2>1 DEF ByBmt
  <2>3. Logical \subseteq 0 .. sys - 1 /\ 0 .. sys - 1 \subseteq Blocks
    BY <1>3, <1>4, Below
  <2> QED
    BY <2>2, <2>3 DEF Physical
<1>7. Numbers'
  <2>1. ASSUME NEW x \in Logical, NEW y \in Logical, x < y
        PROVE  pBbt'[x] # pBbt'[y]
    <3>1. pBbt'[x] < pBbt'[y]
      BY <1>1, <1>3, <1>4, <2>1, TableBuiltApart
    <3>2. pBbt'[x] \in Int
      BY <1>3, <1>5
    <3> QED
      BY <3>1, <3>2
  <2>2. \A x, y \in Logical : x < y \/ y < x \/ x = y
    BY <1>3, <1>4
  <2>3. \A x, y \in Logical : pBbt'[x] = pBbt'[y] => x = y
    BY <2>1, <2>2
  <2> QED
    BY <1>4, <2>3 DEF Numbers
<1>8. Kept'
  BY <1>1, <1>2, <1>4, <1>5, <1>6 DEF Kept
<1>9. Coherent'
  BY <1>1, <1>2, <1>4, <1>5, <1>6 DEF Coherent
<1>10. Untouched'
  BY <1>1 DEF Untouched, Up
<1>11. Writing' /\ Filled' /\ Erasing'
  BY <1>1 DEF Writing, Filled, Erasing
<1> QED
  BY <1>7, <1>8, <1>9, <1>10, <1>11 DEF Users

(* A request changes nothing but what is promised. *)
LEMMA RequestUsers ==
  ASSUME Held, Request
  PROVE  Users'
<1>1. /\ pc = "ready" /\ Up /\ req.op = "boot" /\ flash' = flash
      /\ UNCHANGED <<bmt, bbt, sys, pBbt>>
      /\ ack \in [Blocks -> [Pages -> Values \cup {Erased, Unknown}]]
  BY RequestDoes, HeldFacts DEF TypeOK
<1>2. /\ Logical' = Logical /\ \A l : Physical(l)' = Physical(l)
  BY <1>1, PhysicalSame
<1>3. \A l \in Logical : l \in Blocks /\ Physical(l) \in Blocks
  BY <1>1, PhysicalApart
<1>4. ASSUME NEW l \in Logical, BeginErase(l)
      PROVE  Users'
  <2>1. /\ req'.op = "erase" /\ req'.log = l /\ req'.phys = Physical(l)
        /\ pc' = "erase" /\ cache' = ClearCache(cache)
        /\ ack' = [ack EXCEPT ![l] = [p \in Pages |-> Unknown]]
    BY <1>4 DEF BeginErase, None
  <2>2. cache'.page = NoPage
    BY <2>1, HeldFacts DEF ClearCache, Cache
  <2>3. Up'
    BY <2>1 DEF Up
  <2>4. /\ \A q \in Pages : ack'[l][q] = Unknown
        /\ \A x \in Blocks : x # l => ack'[x] = ack[x]
    BY <1>1, <1>3, <2>1
  <2>5. Kept'
    <3>1. \A x \in Logical, q \in Pages : ack'[x][q] # Unknown => ack'[x][q] = ack[x][q]
      BY <1>3, <2>4
    <3>2. \A x \in Logical, q \in Pages : ack[x][q] # Unknown => flash[Physical(x)][q].data = ack[x][q]
      BY <1>1, HeldFacts DEF Kept
    <3> QED
      BY <1>1, <1>2, <3>1, <3>2 DEF Kept
  <2>6. Coherent'
    <3>1. \A x, q : <<x, q>> # NoPage
      BY DEF NoPage
    <3>2. \A x, q : cache'.page # <<Physical(x)', q>>
      BY <2>2, <3>1
    <3> QED
      BY <3>2 DEF Coherent
  <2>7. Numbers'
    BY <1>1, <1>2, HeldFacts DEF Numbers
  <2>8. Untouched' /\ Writing' /\ Filled'
    BY <2>1, <2>3 DEF Untouched, Writing, Filled
  <2>9. Erasing'
    <3>1. Physical(req.log)' = Physical(l)
      BY <1>1, <2>1 DEF Physical, ByBmt
    <3> QED
      BY <1>2, <2>1, <2>4, <3>1 DEF Erasing
  <2> QED
    BY <2>5, <2>6, <2>7, <2>8, <2>9 DEF Users
<1>5. ASSUME NEW l \in Logical, NEW p \in Pages, NEW v \in Values, BeginWrite(l, p, v)
      PROVE  Users'
  <2>1. /\ req'.op = "write" /\ req'.log = l /\ req'.phys = Physical(l) /\ req'.page = p
        /\ pc' = "program" /\ cache' = ClearCache(cache)
        /\ ack' = [ack EXCEPT ![l][p] = Unknown]
        /\ MayWrite(l, p)
    BY <1>5 DEF BeginWrite
  <2>2. cache'.page = NoPage
    BY <2>1, HeldFacts DEF ClearCache, Cache
  <2>3. Up'
    BY <2>1 DEF Up
  <2>4. /\ ack'[l][p] = Unknown
        /\ \A x \in Blocks, q \in Pages : x # l \/ q # p => ack'[x][q] = ack[x][q]
    BY <1>1, <1>3, <2>1
  <2>5. Kept'
    <3>1. \A x \in Logical, q \in Pages : ack'[x][q] # Unknown => ack'[x][q] = ack[x][q]
      BY <1>3, <2>4
    <3>2. \A x \in Logical, q \in Pages : ack[x][q] # Unknown => flash[Physical(x)][q].data = ack[x][q]
      BY <1>1, HeldFacts DEF Kept
    <3> QED
      BY <1>1, <1>2, <3>1, <3>2 DEF Kept
  <2>6. Coherent'
    <3>1. \A x, q : <<x, q>> # NoPage
      BY DEF NoPage
    <3>2. \A x, q : cache'.page # <<Physical(x)', q>>
      BY <2>2, <3>1
    <3> QED
      BY <3>2 DEF Coherent
  <2>7. Numbers'
    BY <1>1, <1>2, HeldFacts DEF Numbers
  <2>8. Untouched' /\ Erasing'
    BY <2>1, <2>3 DEF Untouched, Erasing
  <2>9. Goal' = "program" /\ ~Copying' /\ ~Remapped'
    BY <2>1 DEF Goal, At, Copying, Remapped, ToBmt
  <2>10. Filled'
    BY <2>1, <2>9 DEF Filled
  <2>11. /\ \A q \in Pages : q > p => ack'[l][q] = Erased
         /\ ack[l][p] = Erased
    <3>1. \A q \in Pages : ~(q < p) => ack[l][q] = Erased
      BY <2>1 DEF MayWrite
    <3>2. \A q \in Pages : q >= p => ~(q < p) /\ (q > p => q # p)
      BY DEF Pages
    <3>3. \A q \in Pages : q > p \/ q = p => q >= p
      BY DEF Pages
    <3> QED
      BY <1>3, <2>4, <3>1, <3>2, <3>3
  <2>12. flash[Physical(l)][p].data = Erased
    <3>1. Erased # Unknown
      BY BmtAssumption
    <3> QED
      BY <1>1, <2>11, <3>1, HeldFacts DEF Kept
  <2>13. Writing'
    <3>1. Physical(req.log)' = Physical(l)
      BY <1>1, <2>1 DEF Physical, ByBmt
    <3> QED
      BY <1>1, <1>2, <2>1, <2>4, <2>9, <2>11, <2>12, <3>1 DEF Writing
  <2> QED
    BY <2>5, <2>6, <2>7, <2>8, <2>10, <2>13 DEF Users
<1>6. ASSUME NEW l \in Logical, NEW p \in Pages, UserRead(l, p)
      PROVE  Users'
  <2>1. /\ UNCHANGED <<req, ack, pc>> /\ Load(Physical(l), p)
    BY <1>6 DEF UserRead, history
  <2>2. Reads(Physical(l), p)
    BY <1>3, <2>1, LoadDoes, HeldFacts
  <2>3. Up'
    BY <1>1, <2>1 DEF Up
  <2>4. Kept'
    BY <1>1, <1>2, <2>1, HeldFacts DEF Kept
  <2>5. Numbers'
    BY <1>1, <1>2, HeldFacts DEF Numbers
  <2>6. Coherent'
    <3>1. ASSUME NEW x \in Logical, NEW q \in Pages, cache'.page = <<Physical(x), q>>, Trusted(x, q)
          PROVE  cache'.data = flash[Physical(x)][q].data
      <4>1. CASE cache.page = <<Physical(l), p>>
        <5>1. cache' = cache
          BY <2>2, <4>1 DEF Reads
        <5> QED
          BY <1>1, <3>1, <5>1, HeldFacts DEF Coherent
      <4>2. CASE cache.page # <<Physical(l), p>>
        <5>1. Physical(x) = Physical(l) /\ q = p
          BY <2>2, <3>1 DEF Reads
        <5> QED
          BY <2>2, <4>2, <5>1 DEF Reads
      <4> QED
        BY <4>1, <4>2
    <3>2. \A x, q : Trusted(x, q)' <=> Trusted(x, q)
      BY <2>1 DEF Trusted
    <3> QED
      BY <1>1, <1>2, <3>1, <3>2 DEF Coherent
  <2>7. Untouched' /\ Writing' /\ Filled' /\ Erasing'
    BY <1>1, <2>1, <2>3 DEF Untouched, Writing, Filled, Erasing
  <2> QED
    BY <2>4, <2>5, <2>6, <2>7 DEF Users
<1> QED
  BY <1>4, <1>5, <1>6 DEF Request

(* The program and the erase a user has asked for. *)
LEMMA ProgramUserUsers ==
  ASSUME Held, ProgramUser
  PROVE  Users'
<1>1. /\ pc = "program" /\ req.op = "write" /\ Same
      /\ Goal = "program" /\ flash[req.phys][req.page].data = Erased
  BY ProgramUserDoes
<1>2. /\ UNCHANGED <<bmt, bbt, sys, pBbt, ack, req>>
      /\ Logical' = Logical /\ \A l : Physical(l)' = Physical(l)
  BY <1>1, PhysicalSame DEF Same
<1>3. PICK r : /\ Wrote(req.phys, req.page, req.data, r)
               /\ \/ r = "ok" /\ pc' = "done" /\ Goal' = "done"
                  \/ r = "clean" /\ pc' = "relocate" /\ Goal' = "relocate"
  BY ProgramUserDoes
<1>4. /\ Up /\ req.log \in Logical /\ req.phys = Physical(req.log) /\ req.page \in Pages
      /\ ack[req.log][req.page] = Unknown
      /\ \A q \in Pages : q > req.page => ack[req.log][q] = Erased
  BY <1>1, WritingIs, HeldFacts
<1>5. Up'
  BY <1>1, <1>2 DEF Up
<1>6. \A l \in Logical : Physical(l) \in Blocks /\ (l # req.log => Physical(l) # req.phys)
  <2> SUFFICES ASSUME NEW l \in Logical
               PROVE  Physical(l) \in Blocks /\ (l # req.log => Physical(l) # req.phys)
    OBVIOUS
  <2>1. Physical(l) \in Blocks
    BY <1>4, PhysicalApart
  <2>2. Physical(l) = Physical(req.log) => l = req.log
    BY <1>4, PhysicalInjective
  <2> QED
    BY <1>4, <2>1, <2>2
<1>7. Kept'
  <2>1. ASSUME NEW l \in Logical, NEW p \in Pages, ack[l][p] # Unknown
        PROVE  flash'[Physical(l)][p].data = ack[l][p]
    <3>1. flash[Physical(l)][p].data = ack[l][p]
      BY <1>4, <2>1, HeldFacts DEF Kept
    <3>2. Physical(l) # req.phys \/ p # req.page
      BY <1>4, <1>6, <2>1
    <3> QED
      BY <1>3, <1>6, <3>1, <3>2 DEF Wrote
  <2> QED
    BY <1>2, <1>5, <2>1 DEF Kept
<1>8. Coherent'
  <2>1. ASSUME NEW l \in Logical, NEW p \in Pages, cache'.page = <<Physical(l), p>>
        PROVE  ~Trusted(l, p)
    <3>1. l = req.log /\ p = req.page
      BY <1>3, <1>6, <2>1 DEF Wrote
    <3> QED
      BY <1>4, <3>1 DEF Trusted
  <2>2. \A l, p : Trusted(l, p)' <=> Trusted(l, p)
    BY <1>2 DEF Trusted
  <2> QED
    BY <1>2, <1>5, <2>1, <2>2 DEF Coherent
<1>9. Numbers'
  BY <1>2, <1>4, HeldFacts DEF Numbers
<1>10. Untouched' /\ Erasing' /\ Filled'
  BY <1>1, <1>2, <1>3, <1>5 DEF Untouched, Erasing, Filled, Copying
<1>11. Writing'
  <2>1. Physical(req.log)' = Physical(req.log)
    BY <1>2 DEF Physical, ByBmt
  <2>2. ~Remapped'
    BY <1>3 DEF Remapped, ToBmt
  <2>3. CASE r = "ok"
    <3>1. /\ flash'[req.phys][req.page].data = req.data
          /\ cache'.data = req.data
      BY <1>1, <1>3, <2>3 DEF Wrote
    <3>2. pc' = "done" /\ Goal' # "program" /\ ~Copying'
      BY <1>3, <2>3 DEF Copying
    <3> QED
      BY <1>2, <1>4, <2>1, <2>2, <3>1, <3>2 DEF Writing
  <2>4. CASE r = "clean"
    <3>1. flash' = flash /\ pc' = "relocate"
      BY <1>3, <2>4 DEF Wrote
    <3> QED
      BY <1>1, <1>2, <1>4, <2>1, <2>2, <3>1 DEF Writing
  <2> QED
    BY <1>3, <2>3, <2>4
<1> QED
  BY <1>7, <1>8, <1>9, <1>10, <1>11 DEF Users

LEMMA EraseUserUsers ==
  ASSUME Held, EraseUser
  PROVE  Users'
<1>1. /\ pc = "erase" /\ pc' = "done" /\ req.op = "erase" /\ Up
      /\ req.log \in Logical /\ req.phys = Physical(req.log) /\ Wiped(req.phys)
      /\ cache' = cache /\ cache.page = NoPage /\ Same
  BY EraseUserDoes
<1>2. /\ UNCHANGED <<bmt, bbt, sys, pBbt, ack, req>>
      /\ Logical' = Logical /\ \A l : Physical(l)' = Physical(l)
  BY <1>1, PhysicalSame DEF Same
<1>3. /\ \A p \in Pages : flash'[req.phys][p].data = Erased
      /\ \A x \in Blocks : x # req.phys => flash'[x] = flash[x]
  BY <1>1, WipedFacts, HeldFacts DEF Blank
<1>4. \A p \in Pages : ack[req.log][p] = Unknown
  BY <1>1, HeldFacts DEF Erasing
<1>5. Up'
  BY <1>1, <1>2 DEF Up
<1>6. Kept'
  <2>1. ASSUME NEW l \in Logical, NEW p \in Pages, ack[l][p] # Unknown
        PROVE  flash'[Physical(l)][p].data = ack[l][p]
    <3>1. flash[Physical(l)][p].data = ack[l][p]
      BY <1>1, <2>1, HeldFacts DEF Kept
    <3>2. l # req.log
      BY <1>4, <2>1
    <3>3. Physical(l) \in Blocks /\ Physical(l) # req.phys
      <4>1. Physical(l) = Physical(req.log) => l = req.log
        BY <1>1, PhysicalInjective
      <4> QED
        BY <1>1, <3>2, <4>1, PhysicalApart
    <3> QED
      BY <1>3, <3>1, <3>3
  <2> QED
    BY <1>2, <1>5, <2>1 DEF Kept
<1>7. Coherent'
  <2>1. \A x, q : <<x, q>> # NoPage
    BY DEF NoPage
  <2>2. \A x, q : cache'.page # <<Physical(x)', q>>
    BY <1>1, <2>1
  <2> QED
    BY <2>2 DEF Coherent
<1>8. Numbers'
  BY <1>1, <1>2, HeldFacts DEF Numbers
<1>9. Untouched' /\ Writing' /\ Filled'
  BY <1>1, <1>2, <1>5 DEF Untouched, Writing, Filled
<1>10. Erasing'
  <2>1. Physical(req.log)' = Physical(req.log)
    BY <1>2 DEF Physical, ByBmt
  <2> QED
    BY <1>1, <1>2, <1>3, <1>4, <2>1 DEF Erasing
<1> QED
  BY <1>6, <1>7, <1>8, <1>9, <1>10 DEF Users

(* What is promised when a request returns is so. *)
LEMMA DoneUsers ==
  ASSUME Held, Done \/ Refuse
  PROVE  Users'
<1>1. /\ pc \in {"done", "refused"} /\ pc' \in {"ready", "dead"} /\ req'.op = "boot"
      /\ UNCHANGED <<flash, cache, bmt, bbt, sys, pBbt>>
      /\ ack \in [Blocks -> [Pages -> Values \cup {Erased, Unknown}]]
      /\ Refuse => ack' = ack /\ pc' = (IF req.op = "boot" THEN "dead" ELSE "ready")
  BY DoneDoes, HeldFacts DEF Idle, TypeOK
<1>2. /\ Logical' = Logical /\ \A l : Physical(l)' = Physical(l)
  BY <1>1, PhysicalSame
<1>3. Writing' /\ Filled' /\ Erasing'
  BY <1>1 DEF Writing, Filled, Erasing
<1>4. CASE pc' = "dead"
  <2>1. ~Up'
    BY <1>1, <1>4 DEF Up
  <2> QED
    BY <1>3, <1>4, <2>1 DEF Users, Untouched, Numbers, Kept, Coherent
<1>5. CASE pc' = "ready"
  <2>1. req.op # "boot" /\ Up /\ Up'
    BY <1>1, <1>5, DoneDoes DEF Up
  <2>2. Untouched' /\ Numbers'
    BY <1>1, <1>2, <2>1, HeldFacts DEF Untouched, Numbers
  <2>3. \A l \in Logical : l \in Blocks
    BY <2>1, PhysicalApart
  <2>4. \A l, p : Trusted(l, p)' <=> ack'[l][p] # Unknown
    BY <1>1 DEF Trusted
  <2>5. ASSUME NEW l \in Logical, NEW p \in Pages, ack'[l][p] # Unknown
        PROVE  /\ flash[Physical(l)][p].data = ack'[l][p]
               /\ cache.page = <<Physical(l), p>> => cache.data = flash[Physical(l)][p].data
    <3>1. ack'[l][p] = ack[l][p] => /\ flash[Physical(l)][p].data = ack'[l][p]
                                    /\ Trusted(l, p)
      BY <2>1, <2>5, HeldFacts DEF Kept, Trusted
    <3>2. Trusted(l, p) /\ cache.page = <<Physical(l), p>> => cache.data = flash[Physical(l)][p].data
      BY <2>1, HeldFacts DEF Coherent
    <3>3. CASE Refuse
      BY <1>1, <3>1, <3>2, <3>3
    <3>4. CASE Done /\ req.op = "write"
      <4>1. /\ req.log \in Logical /\ req.page \in Pages /\ pc = "done"
            /\ ack' = [ack EXCEPT ![req.log][req.page] = req.data]
        BY <3>4, WritingIs, HeldFacts DEF Done
      <4>2. CASE l = req.log /\ p = req.page
        <5>1. ack'[l][p] = req.data
          BY <1>1, <2>3, <4>1, <4>2
        <5>2. flash[Physical(req.log)][req.page].data = req.data
          BY <3>4, <4>1, HeldFacts DEF Writing
        <5>3. cache.page = <<Physical(req.log), req.page>> => cache.data = req.data
          BY <3>4, <4>1, HeldFacts DEF Writing
        <5> QED
          BY <4>2, <5>1, <5>2, <5>3
      <4>3. CASE ~(l = req.log /\ p = req.page)
        <5>1. ack'[l][p] = ack[l][p]
          BY <1>1, <2>3, <4>1, <4>3
        <5> QED
          BY <3>1, <3>2, <5>1
      <4> QED
        BY <4>2, <4>3
    <3>5. CASE Done /\ req.op # "write"
      <4>1. req.op = "erase" /\ pc = "done"
        BY <2>1, <3>5, HeldFacts DEF Done
      <4>2. /\ req.log \in Logical /\ req.phys = Physical(req.log) /\ cache.page = NoPage
            /\ \A q \in Pages : flash[req.phys][q].data = Erased
        BY <4>1, HeldFacts DEF Erasing, CachePlace
      <4>3. ack' = [ack EXCEPT ![req.log] = [q \in Pages |-> Erased]]
        BY <3>5 DEF Done
      <4>4. cache.page # <<Physical(l), p>>
        BY <4>2 DEF NoPage
      <4>5. CASE l = req.log
        <5>1. ack'[l][p] = Erased
          BY <1>1, <2>3, <4>3, <4>5
        <5> QED
          BY <4>2, <4>4, <4>5, <5>1
      <4>6. CASE l # req.log
        <5>1. ack'[l][p] = ack[l][p]
          BY <1>1, <2>3, <4>2, <4>3, <4>6
        <5> QED
          BY <3>1, <4>4, <5>1
      <4> QED
        BY <4>5, <4>6
    <3> QED
      BY <3>3, <3>4, <3>5
  <2>6. Kept'
    BY <1>1, <1>2, <2>5 DEF Kept
  <2>7. Coherent'
    BY <1>1, <1>2, <2>4, <2>5 DEF Coherent
  <2> QED
    BY <1>3, <2>2, <2>6, <2>7 DEF Users
<1> QED
  BY <1>1, <1>4, <1>5

LEMMA UsersNext ==
  ASSUME Held, Running, MarkIsSeen
  PROVE  Users'
<1>1. CASE UNCHANGED vars
  <2>1. Users
    BY DEF Held, Intact
  <2>2. /\ UNCHANGED <<flash, cache, sys, bmt, bbt, pBbt, pc, i, found, find, mark, req, ack>>
    BY <1>1 DEF vars, device, tables, layout, control, history
  <2>3. /\ (Copying' <=> Copying) /\ (Remapped' <=> Remapped) /\ Goal' = Goal /\ (Up' <=> Up)
        /\ (ToBbt' <=> ToBbt)
    BY <2>2 DEF Copying, Remapped, ToBmt, ToBbt, Goal, At, Up
  <2>4. \A p \in Pages : Want(p)' = Want(p)
    BY <2>2, <2>3, WantSame
  <2>5. /\ Logical' = Logical /\ (\A l : Physical(l)' = Physical(l))
        /\ Physical(req.log)' = Physical(req.log)
    BY <2>2, PhysicalSame DEF Physical, ByBmt
  <2>6. Untouched' /\ Numbers' /\ Kept'
    BY <2>1, <2>2, <2>3, <2>5 DEF Users, Untouched, Numbers, Kept, Empty, HoldsNothing
  <2>7. Coherent'
    BY <2>1, <2>2, <2>3, <2>5 DEF Users, Coherent, Trusted
  <2>8. Writing'
    BY <2>1, <2>2, <2>3, <2>5 DEF Users, Writing
  <2>9. Filled'
    BY <2>1, <2>2, <2>3, <2>4 DEF Users, Filled
  <2>10. Erasing'
    BY <2>1, <2>2, <2>5 DEF Users, Erasing
  <2> QED
    BY <2>6, <2>7, <2>8, <2>9, <2>10 DEF Users
<1> QED
  BY <1>1, FreshUsers, IdleUsers, TableUsers, CopyUsers, MarkUsers, RemapUsers, BuildTableUsers,
     RequestUsers, ProgramUserUsers, EraseUserUsers, DoneUsers
  DEF Running, SetUp, Find, Update, Serve, Reading

-----------------------------------------------------------------------------
(***************************************************************************)
(* The invariant, and what follows from it.                                *)
(***************************************************************************)
LEMMA IntactInit == Init => Intact
<1> SUFFICES ASSUME Init PROVE Intact
  OBVIOUS
<1>1. /\ pc = "pool" /\ req.op = "boot" /\ sys = 0 /\ bmt = <<>> /\ bmtAt = 0 /\ bbtAt = 0
      /\ cache.page = NoPage /\ ~poolErased
      /\ ack = [l \in Blocks |-> [p \in Pages |-> Erased]]
  BY DEF Init, PowerOn, None, ColdCache
<1>2. \A b \in Blocks, p \in Pages : flash[b][p].data = Erased
  BY DEF Init, Blank
<1>3. Goal = "pool" /\ ~Copying /\ ~ToBmt /\ ~ToBbt /\ ~Remapped /\ ~Up
  BY <1>1 DEF Goal, At, Copying, ToBmt, ToBbt, Remapped, Up
<1>4. \A x, q : cache.page # <<x, q>>
  BY <1>1 DEF NoPage
<1>5. \A b \in Blocks : Empty(b)
  BY <1>2 DEF Empty, HoldsNothing
<1>6. Control
  <2>1. Stages
    BY <1>1, <1>3 DEF Stages, SettingUp
  <2>2. Homeless /\ Buffer
    BY <1>1, <1>3 DEF Homeless, Buffer
  <2>3. Ranges
    BY <1>1 DEF Ranges
  <2>4. Fresh
    BY <1>1, <1>5 DEF Fresh, SettingUp
  <2> QED
    BY <2>1, <2>2, <2>3, <2>4 DEF Control
<1>7. NoGarbage /\ CacheMarks
  BY <1>2, <1>4, NandAssumption DEF NoGarbage, CacheMarks
<1>8. CachePlace
  BY <1>1 DEF CachePlace
<1>9. Vacancies
  BY <1>1, <1>3, <1>5 DEF Vacancies, Dirt, Dirty, Line, Offered, Marking, FindReturns
<1>10. Users
  <2>1. \A b : b \notin 0 .. sys - 1
    BY <1>1
  <2>2. Untouched
    BY <1>1, <2>1 DEF Untouched
  <2> QED
    BY <1>1, <1>3, <2>2 DEF Users, Numbers, Kept, Coherent, Writing, Filled, Erasing
<1> QED
  BY <1>6, <1>7, <1>8, <1>9, <1>10 DEF Intact

LEMMA IntactNext ==
  ASSUME Held, Running, MarkIsSeen
  PROVE  Intact'
<1>1. Stages'
  BY StagesNext, HeldFacts
<1>2. Control'
  BY <1>1, HomelessNext, RangesNext, FreshNext, BufferNext DEF Control
<1>3. NoGarbage' /\ CacheMarks'
  BY PagesNext
<1> QED
  BY <1>2, <1>3, CachePlaceNext, VacanciesNext, UsersNext DEF Intact

LEMMA IntactReadsBack ==
  ASSUME Held
  PROVE  ReadBack
<1> SUFFICES ASSUME pc = "ready", NEW l \in Logical, NEW p \in Pages, ack[l][p] # Unknown
             PROVE  Read(flash, cache, Physical(l), p).data = ack[l][p]
  BY DEF ReadBack
<1>1. Up
  BY DEF Up
<1>2. flash[Physical(l)][p].data = ack[l][p]
  BY <1>1, HeldFacts DEF Kept
<1>3. cache.page = <<Physical(l), p>> => cache.data = flash[Physical(l)][p].data
  BY <1>1, HeldFacts DEF Coherent, Trusted
<1>4. flash[Physical(l)][p].data # Garbage
  BY <1>1, PhysicalApart, HeldFacts DEF NoGarbage
<1>5. \/ cache.page = <<Physical(l), p>> /\ Read(flash, cache, Physical(l), p) = cache
      \/ Read(flash, cache, Physical(l), p).data = flash[Physical(l)][p].data
  BY <1>4, ReadIs
<1> QED
  BY <1>2, <1>3, <1>5

(* Until power is lost every page reads as the last request that returned  *)
(* no error left it, whichever programs fail and however many replacement  *)
(* blocks they use up, as long as a failed program leaves its page as it   *)
(* was, erases succeed, and no replacement is itself replaced behind its   *)
(* first page: the mark of such a block goes to a page no search looks at. *)
(* (spi_nand_write_internal, update_bmt, migrate_from_bad,                 *)
(* get_mapping_block_index, spi_nand_read_page.)                           *)
THEOREM ReadBackUntilPowerLoss ==
  ASSUME CleanFailures
  PROVE  Spec /\ [](crashes = 0 /\ MarkIsSeen) => []ReadBack
<1> DEFINE J == crashes = 0 => Intact
<1>1. Init => IInv /\ J
  BY TypeInit, UndisturbedInit, IntactInit DEF IInv, FirstPower
<1>2. IInv /\ J /\ crashes = 0 /\ MarkIsSeen /\ [Next]_vars => J'
  <2> SUFFICES ASSUME IInv, Intact, crashes = 0, MarkIsSeen, [Next]_vars, crashes' = 0
               PROVE  Intact'
    OBVIOUS
  <2>1. Held
    BY DEF Held, IInv, FirstPower
  <2>2. ~PowerCut
    BY DEF PowerCut
  <2>3. Running
    BY <2>2 DEF Running, Next, Driver
  <2> QED
    BY <2>1, <2>3, IntactNext
<1>3. IInv /\ J /\ crashes = 0 => ReadBack
  BY IntactReadsBack DEF Held, IInv, FirstPower
<1> HIDE DEF J
<1> QED
  BY <1>1, <1>2, <1>3, InvariantNext, PTL DEF Spec
-----------------------------------------------------------------------------
(***************************************************************************)
(* The border of the pool: no factory mark comes or goes behind it.        *)
(***************************************************************************)

(* The block copied from has no factory mark.  One that has it is in use   *)
(* only if the numbering left it in, and its spare area is copied too.     *)
GoodSource == pc = "relocate" => ~RawOnFlash(req.blk)

(* A cache agrees with the chip about factory marks. *)
KnowsRaw(c) ==
  /\ \A b \in Pool : c.page = <<b, 0>> =>
       (c.map.raw <=> RawOnFlash(b)) /\ (c.oob.raw <=> RawOnFlash(b))
  /\ \A b \in Blocks : c.page = <<b, 0>> /\ c.map.raw => RawOnFlash(b)

Counted ==
  /\ pc = "pool" =>
       /\ sys = 0 /\ n < NeedValid
       /\ n = Cardinality({b \in i + 1 .. NBlocks - 1 : ~RawOnFlash(b)})
  /\ pc = "erasePool" => i >= sys

(* A pool block that is used, or about to be, came good from the factory. *)
InUse(b)  == b # 0 /\ (Mapped(b) \/ Holds(b) \/ (pc \in FindReturns /\ found = b))
UsedGood  == \A b \in Pool : InUse(b) => ~RawOnFlash(b)

(* No step writes a factory mark into the pool. *)
NoneWritten ==
  /\ req.op = "write" => ~req.oob.raw
  /\ ToBmt \/ Goal = "programBbt" => ~buf.oob.raw
  /\ pc = "mark" /\ mark.kind = "raw" => mark.blk < sys
  /\ Copying => ~RawOnFlash(req.blk)

Border == Counted /\ PoolFixed /\ KnowsRaw(cache) /\ UsedGood /\ NoneWritten


-----------------------------------------------------------------------------
(***************************************************************************)
(* Spare areas.                                                            *)
(***************************************************************************)
(* What a step that writes o to the spare area of page p of block b does:  *)
(* it is merged into what was read, and that into what is there.           *)
Inked(b, p, o) ==
  /\ cache'.page = <<b, p>>
  /\ \/ /\ cache.page = <<b, p>>
        /\ cache'.map = cache.map /\ cache'.oob = AndOob(cache.oob, o)
     \/ /\ cache'.map = flash[b][p].oob /\ cache'.oob = AndOob(flash[b][p].oob, o)
  /\ flash'[b][p].oob \in {flash[b][p].oob, AndOob(flash[b][p].oob, cache'.oob)}
  /\ \A x \in Blocks, q \in Pages : x # b \/ q # p => flash'[x][q] = flash[x][q]

LEMMA AndMarks ==
  ASSUME NEW a, NEW b
  PROVE  /\ AndOob(a, b).raw <=> a.raw \/ b.raw
         /\ AndOob(a, b).later <=> a.later \/ b.later
  BY DEF AndOob

LEMMA WriteInks ==
  ASSUME Held, NEW b \in Blocks, NEW p \in Pages, NEW d, NEW o,
         NEW r \in Results("program", b), Write(b, p, d, o, r)
  PROVE  Inked(b, p, o)
<1>1. CleanFailures /\ flash \in Flash /\ cache \in Cache /\ flash[b][p].data # Garbage
  BY HeldFacts DEF NoGarbage
<1>2. /\ cache'.page = <<b, p>> /\ cache'.map = Read(flash, cache, b, p).map
      /\ cache'.oob = AndOob(Read(flash, cache, b, p).oob, o)
      /\ \/ flash' = flash
         \/ flash' = [flash EXCEPT ![b][p] = Programmed(flash[b][p], d, cache'.oob)]
  BY <1>1, WriteIs
<1>3. \/ /\ cache.page = <<b, p>>
         /\ cache'.map = cache.map /\ cache'.oob = AndOob(cache.oob, o)
      \/ cache'.map = flash[b][p].oob /\ cache'.oob = AndOob(flash[b][p].oob, o)
  BY <1>1, <1>2, ReadIs
<1>4. CASE flash' = flash
  BY <1>2, <1>3, <1>4 DEF Inked
<1>5. CASE flash' = [flash EXCEPT ![b][p] = Programmed(flash[b][p], d, cache'.oob)]
  <2> DEFINE new == Programmed(flash[b][p], d, cache'.oob)
  <2>1. new.oob = AndOob(flash[b][p].oob, cache'.oob)
    BY DEF Programmed
  <2> HIDE DEF new
  <2>2. /\ flash'[b][p] = new
        /\ \A x \in Blocks, q \in Pages : x # b \/ q # p => flash'[x][q] = flash[x][q]
    BY <1>1, <1>5 DEF Flash, new
  <2> QED
    BY <1>2, <1>3, <2>1, <2>2 DEF Inked
<1> QED
  BY <1>2, <1>4, <1>5

LEMMA MarkInks ==
  ASSUME Held, Mark
  PROVE  Inked(mark.blk, mark.page, MarkOob(mark.kind))
<1>1. mark.blk \in Blocks /\ mark.page \in Pages
  BY HeldFacts
<1> QED
  BY <1>1, WriteInks DEF Mark

LEMMA ProgramInks ==
  ASSUME Held
  PROVE  /\ ProgramBmt => Inked(bmtAt, 0, buf.oob)
         /\ ProgramBbt => Inked(found, 0, buf.oob)
         /\ ProgramUser => Inked(req.phys, req.page, req.oob)
<1>1. bmtAt \in Blocks /\ found \in Blocks /\ req.phys \in Blocks /\ 0 \in Pages /\ req.page \in Pages
  BY HeldFacts
<1>2. ProgramBmt => Inked(bmtAt, 0, buf.oob)
  BY <1>1, WriteInks DEF ProgramBmt
<1>3. ProgramBbt => Inked(found, 0, buf.oob)
  BY <1>1, WriteInks DEF ProgramBbt
<1>4. ProgramUser => Inked(req.phys, req.page, req.oob)
  BY <1>1, WriteInks DEF ProgramUser
<1> QED
  BY <1>2, <1>3, <1>4

(* A page is copied with its spare area, but for the index. *)
LEMMA CopyInks ==
  ASSUME Held, CopyPage \/ CopyLast
  PROVE  \E o : /\ Inked(found, i, WithIndex(o))
                /\ \/ i = req.page /\ o = req.oob
                   \/ cache.page = <<req.blk, i>> /\ o = cache.map
                   \/ o = flash[req.blk][i].oob
<1>1. /\ found # req.blk /\ i \in Pages /\ found \in Blocks /\ req.blk \in Blocks
      /\ req.page \in Pages
  BY CopyDoes, HeldFacts
<1>2. CASE CopyLast
  BY <1>1, <1>2, WriteInks DEF CopyLast
<1>3. CASE CopyPage
  <2> DEFINE c  == Read(flash, cache, req.blk, i)
             b2 == IF ReadOk(flash, cache, req.blk, i)
                   THEN [data |-> c.data, oob |-> WithIndex(c.map)]
                   ELSE [buf EXCEPT !.oob = WithIndex(@)]
             w  == Overlay(Read(flash, c, found, i), b2.data, b2.oob)
  <2>1. flash[req.blk][i].data # Garbage /\ flash[found][i].data # Garbage
    BY <1>1, HeldFacts DEF NoGarbage
  <2>2. /\ c.page = <<req.blk, i>> /\ ReadOk(flash, cache, req.blk, i)
        /\ (cache.page = <<req.blk, i>> /\ c.map = cache.map) \/ c.map = flash[req.blk][i].oob
    BY <2>1, ReadIs
  <2>3. b2.oob = WithIndex(c.map)
    BY <2>2
  <2>4. c.page # <<found, i>>
    BY <1>1, <2>2
  <2>5. Read(flash, c, found, i) = [page |-> <<found, i>>, data |-> flash[found][i].data,
                                    oob |-> flash[found][i].oob, map |-> flash[found][i].oob]
    BY <2>1, <2>4 DEF Read
  <2>6. PICK r \in Results("program", found) :
          /\ cache' = w
          /\ flash' = [flash EXCEPT ![found][i] = AfterProgram(flash[found][i], w.data, w.oob, r)]
    BY <1>3 DEF CopyPage
  <2> HIDE DEF c, b2
  <2>7. /\ w.page = <<found, i>> /\ w.map = flash[found][i].oob
        /\ w.oob = AndOob(flash[found][i].oob, b2.oob)
    <3> DEFINE rd == [page |-> <<found, i>>, data |-> flash[found][i].data,
                      oob |-> flash[found][i].oob, map |-> flash[found][i].oob]
    <3>1. w = Overlay(rd, b2.data, b2.oob)
      BY <2>5
    <3> QED
      BY <3>1 DEF Overlay
  <2> HIDE DEF w
  <2> DEFINE new == AfterProgram(flash[found][i], w.data, w.oob, r)
  <2>8. new.oob \in {flash[found][i].oob, AndOob(flash[found][i].oob, w.oob)}
    <3>1. r \in {"ok", "clean"}
      BY <2>6, HeldFacts, CleanResults
    <3> QED
      BY <3>1 DEF AfterProgram, Programmed
  <2> HIDE DEF new
  <2>9. /\ flash'[found][i] = new
        /\ \A x \in Blocks, q \in Pages : x # found \/ q # i => flash'[x][q] = flash[x][q]
    BY <1>1, <2>6, HeldFacts DEF Flash, new
  <2>10. Inked(found, i, WithIndex(c.map))
    BY <2>3, <2>6, <2>7, <2>8, <2>9 DEF Inked
  <2> QED
    BY <2>2, <2>10
<1> QED
  BY <1>2, <1>3

-----------------------------------------------------------------------------
(***************************************************************************)
(* Factory marks behind the border.                                        *)
(***************************************************************************)
RawSame == \A b \in Pool : flash'[b][0].oob.raw <=> RawOnFlash(b)

LEMMA ReadKnowsRaw ==
  ASSUME NoGarbage, KnowsRaw(cache), NEW b \in Blocks, NEW p \in Pages,
         cache' = Read(flash, cache, b, p)
  PROVE  KnowsRaw(cache') /\ cache'.page = <<b, p>>
<1>1. /\ cache'.page = <<b, p>>
      /\ \/ cache' = cache
         \/ cache'.oob = flash[b][p].oob /\ cache'.map = flash[b][p].oob
  BY ReadIs DEF NoGarbage
<1> QED
  BY <1>1 DEF KnowsRaw, RawOnFlash

LEMMA SameChipRaw ==
  ASSUME KnowsRaw(cache'), flash' = flash, sys' = sys
  PROVE  RawSame /\ KnowsRaw(cache)'
  BY DEF RawSame, KnowsRaw, RawOnFlash, Pool

LEMMA InkedRaw ==
  ASSUME Held, KnowsRaw(cache), sys' = sys, NEW b \in Blocks, NEW p \in Pages, NEW o,
         Inked(b, p, o), b \in Pool /\ p = 0 => ~o.raw
  PROVE  RawSame /\ KnowsRaw(cache)'
<1>1. /\ Pool' = Pool /\ Pool \subseteq Blocks /\ 0 \in Pages
      /\ cache'.page = <<b, p>>
      /\ \A x \in Blocks : x # b \/ p # 0 => flash'[x][0] = flash[x][0]
  BY HeldFacts DEF Pool, Inked
<1>2. CASE p # 0
  BY <1>1, <1>2 DEF RawSame, KnowsRaw, RawOnFlash
<1>3. CASE p = 0
  <2>1. /\ \/ cache.page = <<b, 0>> /\ cache'.map = cache.map /\ cache'.oob = AndOob(cache.oob, o)
           \/ cache'.map = flash[b][0].oob /\ cache'.oob = AndOob(flash[b][0].oob, o)
        /\ \/ flash'[b][0].oob = flash[b][0].oob
           \/ flash'[b][0].oob.raw <=> flash[b][0].oob.raw \/ cache'.oob.raw
    BY <1>3, AndMarks DEF Inked
  <2>2. flash[b][0].oob.raw => flash'[b][0].oob.raw
    BY <2>1
  <2>3. cache'.map.raw => flash[b][0].oob.raw
    BY <2>1 DEF KnowsRaw, RawOnFlash
  <2>4. b \in Pool => /\ cache'.oob.raw <=> flash[b][0].oob.raw
                      /\ cache'.map.raw <=> flash[b][0].oob.raw
    <3> SUFFICES ASSUME b \in Pool
                 PROVE  /\ cache'.oob.raw <=> flash[b][0].oob.raw
                        /\ cache'.map.raw <=> flash[b][0].oob.raw
      OBVIOUS
    <3>1. ~o.raw
      BY <1>3
    <3>2. CASE cache.page = <<b, 0>> /\ cache'.map = cache.map /\ cache'.oob = AndOob(cache.oob, o)
      BY <3>1, <3>2, AndMarks DEF KnowsRaw, RawOnFlash
    <3>3. CASE cache'.map = flash[b][0].oob /\ cache'.oob = AndOob(flash[b][0].oob, o)
      BY <3>1, <3>3, AndMarks
    <3> QED
      BY <2>1, <3>2, <3>3
  <2>5. b \in Pool => (flash'[b][0].oob.raw <=> flash[b][0].oob.raw)
    BY <2>1, <2>4
  <2>6. RawSame
    BY <1>1, <2>5 DEF RawSame, RawOnFlash
  <2>7. \A x : cache'.page = <<x, 0>> => x = b
    BY <1>1
  <2>8. KnowsRaw(cache)'
    BY <1>1, <2>2, <2>3, <2>4, <2>5, <2>7 DEF KnowsRaw, RawOnFlash
  <2> QED
    BY <2>6, <2>8
<1> QED
  BY <1>2, <1>3

LEMMA WipedRaw ==
  ASSUME Held, KnowsRaw(cache'), sys' = sys, NEW b \in Blocks, Wiped(b),
         b \in Pool => ~RawOnFlash(b), b \notin Pool => cache'.page # <<b, 0>>
  PROVE  RawSame /\ KnowsRaw(cache)'
<1>1. /\ Pool' = Pool /\ Pool \subseteq Blocks /\ 0 \in Pages
      /\ flash'[b][0] = Blank /\ \A x \in Blocks : x # b => flash'[x] = flash[x]
  BY WipedFacts, HeldFacts DEF Pool
<1>2. ~flash'[b][0].oob.raw
  BY <1>1 DEF Blank, CleanOob
<1>3. RawSame
  BY <1>1, <1>2 DEF RawSame, RawOnFlash
<1>4. \A x \in Blocks : cache'.page = <<x, 0>> /\ cache'.map.raw => flash'[x][0].oob.raw
  BY <1>1, <1>2 DEF KnowsRaw, RawOnFlash
<1>5. \A x \in Pool : cache'.page = <<x, 0>> =>
        (cache'.map.raw <=> flash'[x][0].oob.raw) /\ (cache'.oob.raw <=> flash'[x][0].oob.raw)
  BY <1>1, <1>2 DEF KnowsRaw, RawOnFlash
<1> QED
  BY <1>1, <1>3, <1>4, <1>5 DEF KnowsRaw, RawOnFlash

(* A step leaves what is marked as it was, and is out of the first stage   *)
(* of set-up.                                                              *)
KeepsRaw == pc \notin {"pool", "dead"} /\ sys' = sys /\ RawSame /\ KnowsRaw(cache)'

LEMMA ReadingRaw ==
  ASSUME Held, Border, Reading, ~CalcPool
  PROVE  KeepsRaw
<1>1. /\ flash' = flash
      /\ cache' = cache \/ \E b \in Blocks : cache' = Read(flash, cache, b, 0)
  BY HeldFacts, ReadingFinds
<1>2. pc \notin {"pool", "dead"} /\ sys' = sys
  BY DEF Reading, LoadBmt, LoadBmtFails, CheckRaw, Reconstruct, ReconstructDone,
     LoadBbt, LoadBbtFails, ScanRaw, ScanRawDone, layout
<1>3. KnowsRaw(cache')
  BY <1>1, ReadKnowsRaw, HeldFacts DEF Border
<1> QED
  BY <1>1, <1>2, <1>3, SameChipRaw DEF KeepsRaw

LEMMA IdleRaw ==
  ASSUME Held, Border, Save \/ FindBbtBlock \/ FindBmtBlock \/ Relocate \/ ErasePoolDone \/ ScanFails
                       \/ NothingFound \/ Remap \/ PlaceBmt \/ BuildTable \/ Done \/ Refuse
  PROVE  KeepsRaw /\ flash' = flash
<1>1. pc \notin {"pool", "dead"} /\ sys' = sys /\ flash' = flash /\ cache' = cache
  BY DEF Save, FindBbtBlock, FindBmtBlock, Relocate, ErasePoolDone, ScanFails, NothingFound,
     Remap, PlaceBmt, BuildTable, Done, Refuse, device, layout
<1> QED
  BY <1>1, SameChipRaw DEF KeepsRaw, Border

LEMMA ScanMarks ==
  ASSUME Held, Border, Scan
  PROVE  KeepsRaw /\ flash' = flash /\ KnowsRaw(cache')
<1>1. pc \notin {"pool", "dead"} /\ sys' = sys /\ flash' = flash /\ i \in Blocks
  BY HeldFacts DEF Scan, layout
<1>2. cache' = cache \/ cache' = Read(flash, cache, i, 0)
  BY DEF Scan, Load
<1>3. KnowsRaw(cache')
  BY <1>1, <1>2, ReadKnowsRaw, HeldFacts DEF Border
<1> QED
  BY <1>1, <1>3, SameChipRaw DEF KeepsRaw

LEMMA RequestRaw ==
  ASSUME Held, Border, Request
  PROVE  KeepsRaw /\ flash' = flash
<1>1. pc = "ready" /\ Up /\ flash' = flash /\ sys' = sys
  BY RequestDoes
<1>2. \/ cache' = ClearCache(cache)
      \/ \E l \in Logical, p \in Pages : cache' = Read(flash, cache, Physical(l), p)
  BY DEF Request, BeginErase, BeginWrite, UserRead, Load
<1>3. KnowsRaw(cache')
  <2>1. CASE cache' = ClearCache(cache)
    <3>1. cache'.page = NoPage
      BY <2>1, HeldFacts DEF ClearCache, Cache
    <3> QED
      BY <3>1 DEF KnowsRaw, NoPage
  <2>2. CASE \E l \in Logical, p \in Pages : cache' = Read(flash, cache, Physical(l), p)
    <3>1. PICK l \in Logical, p \in Pages : cache' = Read(flash, cache, Physical(l), p)
      BY <2>2
    <3>2. Physical(l) \in Blocks
      BY <1>1, PhysicalApart
    <3> QED
      BY <3>1, <3>2, ReadKnowsRaw, HeldFacts DEF Border
  <2> QED
    BY <1>2, <2>1, <2>2
<1> QED
  BY <1>1, <1>3, SameChipRaw DEF KeepsRaw

LEMMA WriteRaw ==
  ASSUME Held, Border, Mark \/ CopyPage \/ CopyLast \/ ProgramBmt \/ ProgramBbt \/ ProgramUser
  PROVE  KeepsRaw
<1>1. pc \notin {"pool", "dead"} /\ sys' = sys
  BY DEF Mark, CopyPage, CopyLast, ProgramBmt, ProgramBbt, ProgramUser, layout
<1>2. KnowsRaw(cache) /\ NoneWritten
  BY DEF Border
<1>3. CASE Mark
  <2>1. Inked(mark.blk, mark.page, MarkOob(mark.kind)) /\ pc = "mark"
    BY <1>3, MarkInks DEF Mark
  <2>2. mark.blk \in Pool => mark.kind # "raw"
    <3>1. mark.kind = "raw" => mark.blk < sys
      BY <1>2, <2>1 DEF NoneWritten
    <3> QED
      BY <3>1, HeldFacts DEF Pool
  <2>3. mark.kind \in MarkKinds
    BY HeldFacts DEF TypeOK
  <2>4. mark.blk \in Pool => ~MarkOob(mark.kind).raw
    BY <2>2, <2>3 DEF MarkKinds, MarkOob, CleanOob
  <2>5. mark.blk \in Blocks /\ mark.page \in Pages
    BY HeldFacts
  <2> QED
    BY <1>1, <1>2, <2>1, <2>4, <2>5, InkedRaw DEF KeepsRaw
<1>4. CASE CopyPage \/ CopyLast
  <2>1. PICK o : /\ Inked(found, i, WithIndex(o))
                 /\ \/ i = req.page /\ o = req.oob
                    \/ cache.page = <<req.blk, i>> /\ o = cache.map
                    \/ o = flash[req.blk][i].oob
    BY <1>4, CopyInks
  <2>2. req.op = "write" /\ Copying /\ i \in Pages /\ found \in Blocks /\ req.blk \in Blocks
    BY <1>4, CopyDoes, HeldFacts
  <2>3. i = 0 => ~o.raw
    BY <1>2, <2>1, <2>2 DEF NoneWritten, KnowsRaw, RawOnFlash
  <2>4. i = 0 => ~WithIndex(o).raw
    <3>1. WithIndex(o).raw = o.raw \/ WithIndex(o) = o
      BY DEF WithIndex, SetIdx
    <3> QED
      BY <2>3, <3>1
  <2> QED
    BY <1>1, <1>2, <2>1, <2>2, <2>4, InkedRaw DEF KeepsRaw
<1>5. CASE ProgramBmt
  <2>1. Inked(bmtAt, 0, buf.oob) /\ bmtAt \in Blocks /\ 0 \in Pages
    BY <1>5, ProgramInks, HeldFacts
  <2>2. ~buf.oob.raw
    BY <1>2, <1>5, ProgramBmtDoes DEF NoneWritten, ToBmt
  <2> QED
    BY <1>1, <1>2, <2>1, <2>2, InkedRaw DEF KeepsRaw
<1>6. CASE ProgramBbt
  <2>1. Inked(found, 0, buf.oob) /\ found \in Blocks /\ 0 \in Pages
    BY <1>6, ProgramInks, HeldFacts
  <2>2. ~buf.oob.raw
    BY <1>2, <1>6, ProgramBbtDoes DEF NoneWritten
  <2> QED
    BY <1>1, <1>2, <2>1, <2>2, InkedRaw DEF KeepsRaw
<1>7. CASE ProgramUser
  <2>1. Inked(req.phys, req.page, req.oob) /\ req.phys \in Blocks /\ req.page \in Pages
    BY <1>7, ProgramInks, HeldFacts
  <2>2. ~req.oob.raw
    BY <1>2, <1>7, ProgramUserDoes DEF NoneWritten
  <2> QED
    BY <1>1, <1>2, <2>1, <2>2, InkedRaw DEF KeepsRaw
<1> QED
  BY <1>3, <1>4, <1>5, <1>6, <1>7

LEMMA EraseRaw ==
  ASSUME Held, Border, ErasePool \/ EraseBmt \/ EraseUser
  PROVE  KeepsRaw
<1>1. pc \notin {"pool", "dead"} /\ sys' = sys
  BY DEF ErasePool, EraseBmt, EraseUser, layout
<1>2. KnowsRaw(cache) /\ UsedGood
  BY DEF Border
<1>3. CASE ErasePool
  <2>1. /\ i \in Blocks
        /\ flash' = flash \/ (Wiped(i) /\ Reads(i, 0) /\ ~MarkedBad(cache'))
    BY <1>3, ErasePoolDoes
  <2>2. cache' = cache \/ cache' = Read(flash, cache, i, 0)
    BY <1>3 DEF ErasePool, Load, device
  <2>3. KnowsRaw(cache')
    BY <1>2, <2>1, <2>2, ReadKnowsRaw, HeldFacts
  <2>4. CASE flash' = flash
    BY <1>1, <2>3, <2>4, SameChipRaw DEF KeepsRaw
  <2>5. CASE Wiped(i) /\ Reads(i, 0) /\ ~MarkedBad(cache')
    <3>1. cache'.page = <<i, 0>> /\ ~cache'.map.raw
      BY <2>5 DEF Reads, MarkedBad
    <3>2. i \in Pool
      <4>1. i >= sys
        BY <1>3 DEF ErasePool, Border, Counted
      <4> QED
        BY <2>1, <4>1, HeldFacts, ChipFacts DEF Pool, Blocks
    <3>3. ~RawOnFlash(i)
      BY <2>3, <3>1, <3>2 DEF KnowsRaw
    <3> QED
      BY <1>1, <2>1, <2>3, <2>5, <3>2, <3>3, WipedRaw DEF KeepsRaw
  <2> QED
    BY <2>1, <2>4, <2>5
<1>4. CASE EraseBmt
  <2>1. bmtAt # 0 /\ bmtAt \in Pool /\ Wiped(bmtAt) /\ cache' = cache /\ bmtAt \in Blocks
    BY <1>4, EraseBmtDoes, HeldFacts
  <2>2. ~RawOnFlash(bmtAt)
    BY <1>2, <2>1 DEF UsedGood, InUse, Holds
  <2> QED
    BY <1>1, <1>2, <2>1, <2>2, WipedRaw DEF KeepsRaw
<1>5. CASE EraseUser
  <2>1. /\ Up /\ req.log \in Logical /\ req.phys = Physical(req.log) /\ Wiped(req.phys)
        /\ cache' = cache /\ cache.page = NoPage /\ req.phys \in Blocks
    BY <1>5, EraseUserDoes, HeldFacts
  <2>2. req.phys \in Pool => ~RawOnFlash(req.phys)
    <3>1. req.phys \in Pool => Mapped(req.phys)
      BY <2>1, PhysicalIsNot
    <3>2. 0 \notin Pool
      BY <1>1, HeldFacts DEF Pool, Undisturbed, Homes
    <3> QED
      BY <1>2, <3>1, <3>2 DEF UsedGood, InUse
  <2>3. cache'.page # <<req.phys, 0>>
    BY <2>1 DEF NoPage
  <2> QED
    BY <1>1, <1>2, <2>1, <2>2, <2>3, WipedRaw DEF KeepsRaw
<1> QED
  BY <1>3, <1>4, <1>5

LEMMA RawNext ==
  ASSUME Held, Border, Running, ~CalcPool
  PROVE  KeepsRaw \/ UNCHANGED vars
  BY ReadingRaw, IdleRaw, ScanMarks, RequestRaw, WriteRaw, EraseRaw
  DEF Running, SetUp, Find, Update, Serve, Reading

LEMMA CalcPoolBorder ==
  ASSUME Held, Border, CalcPool
  PROVE  Border'
<1>1. /\ pc = "pool" /\ sys = 0 /\ n < NeedValid /\ n \in Nat
      /\ n = Cardinality({b \in i + 1 .. NBlocks - 1 : ~RawOnFlash(b)})
      /\ i \in Nat /\ 1 <= i /\ i <= NBlocks - 1
  BY HeldFacts, ChipFacts DEF CalcPool, Border, Counted, TypeInv, Counters, TypeOK
<1>2. i \in Blocks /\ 0 \in Pages /\ i \in Pool /\ NBlocks \in Nat /\ NeedValid \in Nat
  BY <1>1, ChipFacts, BmtAssumption DEF Blocks, Pool
<1>3. /\ flash' = flash /\ cache' = Read(flash, cache, i, 0)
      /\ UNCHANGED <<bmt, bmtAt, bbtAt, req, buf, mark, found>>
  BY DEF CalcPool, Load, tables, history
<1>4. KnowsRaw(cache') /\ cache'.page = <<i, 0>>
  BY <1>2, <1>3, ReadKnowsRaw, HeldFacts DEF Border
<1>5. MarkedRaw(cache') <=> RawOnFlash(i)
  BY <1>2, <1>4 DEF KnowsRaw, MarkedRaw
<1> DEFINE good(k) == {b \in k .. NBlocks - 1 : ~RawOnFlash(b)}
           last    == IF ~MarkedRaw(cache') /\ n' = NeedValid THEN i ELSE i - 1
<1>6. IsFiniteSet(good(i + 1)) /\ n = Cardinality(good(i + 1))
  <2>1. IsFiniteSet(i + 1 .. NBlocks - 1)
    BY <1>1, <1>2, FS_Interval
  <2>2. good(i + 1) \in SUBSET (i + 1 .. NBlocks - 1)
    OBVIOUS
  <2> QED
    BY <1>1, <2>1, <2>2, FS_Subset
<1>7. n' = Cardinality(good(i)) /\ n' <= NeedValid /\ n' \in Nat
  <2>1. n' = IF RawOnFlash(i) THEN n ELSE n + 1
    BY <1>5 DEF CalcPool
  <2>2. CASE RawOnFlash(i)
    <3>1. good(i) = good(i + 1)
      BY <1>1, <1>2, <2>2
    <3> QED
      BY <1>1, <1>2, <1>6, <2>1, <2>2, <3>1
  <2>3. CASE ~RawOnFlash(i)
    <3>1. good(i) = good(i + 1) \cup {i} /\ i \notin good(i + 1)
      BY <1>1, <1>2, <2>3
    <3> HIDE DEF good
    <3>2. Cardinality(good(i)) = n + 1
      BY <1>6, <3>1, FS_AddElement
    <3> QED
      BY <1>1, <1>2, <2>1, <2>3, <3>2
  <2> QED
    BY <2>2, <2>3
<1>8. \/ /\ i' = i - 1 /\ pc' = "pool" /\ sys' = sys
         /\ ~(~MarkedRaw(cache') /\ n' = NeedValid)
      \/ /\ sys' = last /\ pc' \in {"dead", "loadBmt"}
         /\ last = i \/ last = 0
         /\ pc' = "loadBmt" => NBlocks - last <= MaxPool
         /\ last = i => ~MarkedRaw(cache') /\ n' = NeedValid
  <2> DEFINE enough == ~MarkedRaw(cache') /\ n' = NeedValid
  <2>1. IF enough \/ last = 0
        THEN /\ sys' = last
             /\ pc' = IF NBlocks - last > MaxPool THEN "dead" ELSE "loadBmt"
        ELSE i' = last /\ UNCHANGED <<sys, pc>>
    BY DEF CalcPool
  <2>2. enough => last = i
    OBVIOUS
  <2>3. ~enough => last = i - 1
    OBVIOUS
  <2>4. MaxPool \in Nat /\ last \in Nat
    BY <1>1, <1>2, <2>2, <2>3, BmtAssumption
  <2> HIDE DEF enough, last
  <2>5. CASE enough \/ last = 0
    <3>1. last = i => enough
      BY <1>1, <2>3
    <3>2. last = i \/ last = 0
      BY <2>2, <2>5
    <3>3. pc' = "loadBmt" => NBlocks - last <= MaxPool
      BY <1>2, <2>1, <2>4, <2>5
    <3>4. sys' = last /\ pc' \in {"dead", "loadBmt"}
      BY <2>1, <2>5
    <3> QED
      BY <3>1, <3>2, <3>3, <3>4 DEF enough
  <2>6. CASE ~(enough \/ last = 0)
    BY <1>1, <2>1, <2>3, <2>6 DEF enough
  <2> QED
    BY <2>5, <2>6
<1>9. sys' \in Nat /\ Pool' \subseteq Pool
  BY <1>1, <1>2, <1>8 DEF Pool
<1>10. KnowsRaw(cache)'
  BY <1>3, <1>4, <1>9 DEF KnowsRaw, RawOnFlash
<1>11. pc' \in {"pool", "dead", "loadBmt"}
  BY <1>8
<1>12. Counted'
  <2> SUFFICES ASSUME pc' = "pool"
               PROVE  /\ sys' = 0 /\ n' < NeedValid
                      /\ n' = Cardinality({b \in i' + 1 .. NBlocks - 1 : ~RawOnFlash(b)'})
    BY <1>11 DEF Counted, RawOnFlash
  <2>1. i' = i - 1 /\ sys' = sys /\ ~(~MarkedRaw(cache') /\ n' = NeedValid)
    BY <1>8
  <2>2. n' < NeedValid
    <3>1. MarkedRaw(cache') => n' = n
      BY DEF CalcPool
    <3> QED
      BY <1>1, <1>2, <1>7, <2>1, <3>1
  <2>3. i' + 1 = i
    BY <1>1, <2>1
  <2>4. {b \in i' + 1 .. NBlocks - 1 : ~RawOnFlash(b)'} = good(i)
    BY <1>3, <2>3 DEF RawOnFlash
  <2> QED
    BY <1>1, <1>7, <2>1, <2>2, <2>4
<1>13. PoolFixed'
  <2> SUFFICES ASSUME pc' = "loadBmt"
               PROVE  GoodFrom(sys)' = NeedValid /\ ~RawOnFlash(sys)'
    BY <1>11 DEF PoolFixed
  <2>1. sys' = i /\ ~MarkedRaw(cache') /\ n' = NeedValid
    BY <1>2, <1>8, BmtAssumption
  <2>2. GoodFrom(sys)' = Cardinality(good(i))
    BY <1>3, <2>1 DEF GoodFrom, RawOnFlash
  <2>3. ~RawOnFlash(sys)'
    BY <1>3, <1>5, <2>1 DEF RawOnFlash
  <2> QED
    BY <1>7, <2>1, <2>2, <2>3
<1>14. UsedGood'
  <2>1. bmt' = <<>> /\ bmtAt' = 0 /\ bbtAt' = 0
    BY <1>1, <1>3, HeldFacts DEF Undisturbed, BlankChip, At, SettingUp
  <2>2. \A b : ~InUse(b)'
    BY <1>11, <2>1 DEF InUse, Mapped, MappedTo, Holds, FindReturns
  <2> QED
    BY <2>2 DEF UsedGood
<1>15. NoneWritten'
  <2>1. Goal' = pc'
    BY <1>11, GoalIs
  <2>2. req'.op # "write"
    BY <1>1, <1>3, HeldFacts DEF TypeInv, SetUpFirst, At, SettingUp
  <2> QED
    BY <1>11, <2>1, <2>2 DEF NoneWritten, ToBmt, Copying
<1> QED
  BY <1>10, <1>12, <1>13, <1>14, <1>15 DEF Border

(* Pool blocks come into use through the search only. *)
LEMMA FoundNext ==
  ASSUME Held, Running, ~CalcPool
  PROVE  /\ pc' # "pool" \/ pc = "pool"
         /\ pc' \in FindReturns =>
              \/ Scan /\ found' = i
              \/ found' = 0
              \/ pc \in FindReturns /\ found' = found
<1>1. CASE Reading
  <2>1. pc' \in SettingUp \cup {"dead", "save"}
    BY <1>1, HeldFacts, ReadingFinds
  <2>2. pc' # "pool"
    BY <1>1, HeldFacts DEF Reading, LoadBmt, LoadBmtFails, CheckRaw, Reconstruct, ReconstructDone,
       LoadBbt, LoadBbtFails, ScanRaw, ScanRawDone, MarkThen
  <2> QED
    BY <2>1, <2>2 DEF SettingUp, FindReturns
<1>2. CASE Save \/ BuildTable \/ Done \/ Refuse \/ Remap \/ NothingFound
  <2>1. pc' \in {"writeBmt", "saveBbt", "ready", "dead", "refused"}
    BY <1>2 DEF Save, BuildTable, Done, Refuse, Remap, NothingFound
  <2> QED
    BY <2>1 DEF FindReturns
<1>3. CASE FindBbtBlock \/ FindBmtBlock \/ Relocate \/ ErasePoolDone
  <2>1. pc' \in {"scan", "erasePool", "build"}
    BY <1>3 DEF FindBbtBlock, FindBmtBlock, Relocate, ErasePoolDone, FindThen
  <2> QED
    BY <2>1 DEF FindReturns
<1>4. CASE ScanFails
  <2>1. find.then # "pool"
    BY HeldFacts DEF TypeOK, FindReturns
  <2> QED
    BY <1>4, <2>1 DEF ScanFails
<1>5. CASE Scan
  <2>1. find.then # "pool"
    BY HeldFacts DEF TypeOK, FindReturns
  <2> QED
    BY <1>5, <2>1 DEF Scan, FindReturns
<1>6. CASE PlaceBmt \/ EraseBmt \/ ProgramBmt \/ ProgramBbt
  <2>1. pc' \in {"programBmt", "mark", "saveBbt", "build"}
    BY <1>6 DEF PlaceBmt, EraseBmt, ProgramBmt, ProgramBbt, MarkThen, Retire
  <2> QED
    BY <2>1 DEF FindReturns
<1>7. CASE CopyPage \/ CopyLast
  <2>1. pc = "copy" /\ found' = found
    BY <1>7 DEF CopyPage, CopyLast
  <2>2. pc' # "pool"
    BY <1>7, <2>1 DEF CopyPage, CopyLast, AfterCopy, MarkThen
  <2> QED
    BY <2>1, <2>2 DEF FindReturns
<1>8. CASE ErasePool \/ ProgramUser \/ EraseUser
  <2>1. pc' \in {"erasePool", "mark", "done", "relocate"}
    BY <1>8 DEF ErasePool, ProgramUser, EraseUser, MarkThen
  <2> QED
    BY <2>1 DEF FindReturns
<1>9. CASE Mark
  <2>1. pc' \in {"relocate", "writeBmt", "saveBbt", "done"}
    BY <1>9, MarkDoes
  <2> QED
    BY <2>1 DEF FindReturns
<1>10. CASE Request
  <2>1. pc' \in {"ready", "program", "erase"}
    BY <1>10, RequestDoes
  <2> QED
    BY <2>1 DEF FindReturns
<1>11. CASE UNCHANGED vars
  BY <1>11 DEF vars, control
<1> QED
  BY <1>1, <1>2, <1>3, <1>4, <1>5, <1>6, <1>7, <1>8, <1>9, <1>10, <1>11
  DEF Running, SetUp, Find, Update, Serve, Reading

LEMMA InUseNext ==
  ASSUME Held, Running, ~CalcPool, NEW b \in Pool, InUse(b)'
  PROVE  InUse(b) \/ (Scan /\ b = i /\ ~MarkedBad(cache'))
<1>1. b # 0
  BY DEF InUse
<1>2. CASE Mapped(b)'
  <2>1. CASE bmt' = bmt
    BY <1>1, <1>2, <2>1 DEF Mapped, MappedTo, InUse
  <2>2. CASE Remap
    <3>1. Ranges /\ bmt \in Seq(Entry) /\ pc = "remap" /\ found # 0 /\ req.blk \in Blocks
      BY <2>2, HeldFacts DEF Remap, TypeOK
    <3>2. \A m \in DOMAIN bmt' : \/ bmt'[m].mapped = found
                                 \/ m \in DOMAIN bmt /\ bmt'[m].mapped = bmt[m].mapped
      <4>1. \A m \in DOMAIN bmt : bmt[m] \in Entry
        BY <3>1
      <4>2. CASE bmt' = Append(bmt, [bad |-> req.blk, mapped |-> found])
        BY <3>1, <4>2
      <4>3. CASE bmt' = [bmt EXCEPT ![First(MappedTo(req.blk))].mapped = found]
        BY <3>1, <4>1, <4>3 DEF Entry
      <4>4. CASE bmt' = bmt
        BY <4>4
      <4> QED
        BY <2>2, <4>2, <4>3, <4>4 DEF Remap
    <3>3. Mapped(b) \/ found = b
      BY <1>2, <3>2 DEF Mapped, MappedTo
    <3> QED
      BY <1>1, <3>1, <3>3 DEF InUse, FindReturns
  <2>3. Reading => bmt' = bmt
    BY HeldFacts, ReadingFinds
  <2> QED
    BY <2>1, <2>2, <2>3, TablesChange
<1>3. CASE Holds(b)'
  <2>1. Reading => bmtAt' = bmtAt /\ bbtAt' = bbtAt
    BY HeldFacts, ReadingFinds
  <2>2. PlaceBmt => pc \in FindReturns
    BY DEF PlaceBmt, FindReturns
  <2>3. ProgramBbt => pc \in FindReturns
    BY DEF ProgramBbt, FindReturns
  <2> QED
    BY <1>1, <1>3, <2>1, <2>2, <2>3, TablesChange DEF Holds, InUse
<1>4. CASE pc' \in FindReturns /\ found' = b
  <2>1. CASE pc \in FindReturns /\ found' = found
    BY <1>1, <1>4, <2>1 DEF InUse
  <2>2. CASE Scan /\ found' = i
    <3>1. ~MarkedBad(cache')
      <4>1. pc = "scan" /\ pc' # "scan"
        BY <1>4, <2>2 DEF Scan, FindReturns
      <4> QED
        BY <2>2, <4>1, ScanDoes
    <3> QED
      BY <1>4, <2>2, <3>1
  <2> QED
    BY <1>1, <1>4, <2>1, <2>2, FoundNext
<1> QED
  BY <1>2, <1>3, <1>4 DEF InUse

LEMMA UsedGoodNext ==
  ASSUME Held, Border, Running, ~CalcPool, KeepsRaw
  PROVE  UsedGood'
<1> SUFFICES ASSUME NEW b \in Pool, InUse(b)'
             PROVE  ~RawOnFlash(b)'
  BY DEF UsedGood, KeepsRaw, Pool
<1>1. RawOnFlash(b)' <=> RawOnFlash(b)
  BY DEF KeepsRaw, RawSame, RawOnFlash
<1>2. CASE InUse(b)
  BY <1>1, <1>2 DEF Border, UsedGood
<1>3. CASE Scan /\ b = i /\ ~MarkedBad(cache')
  <2>1. KnowsRaw(cache') /\ i \in Blocks
    BY <1>3, ScanMarks, HeldFacts
  <2>2. CASE Holds(i)
    <3>1. 0 \notin Pool
      BY HeldFacts DEF KeepsRaw, Pool, Undisturbed, Homes
    <3> QED
      BY <1>1, <1>3, <2>2, <3>1 DEF Border, UsedGood, InUse
  <2>3. CASE ~Holds(i)
    <3>1. cache'.page = <<i, 0>>
      BY <1>3, <2>3, ScanDoes DEF Reads
    <3> QED
      BY <1>1, <1>3, <2>1, <3>1 DEF KnowsRaw, MarkedBad
  <2> QED
    BY <2>2, <2>3
<1> QED
  BY <1>2, <1>3, InUseNext

LEMMA PoolFixedNext ==
  ASSUME Held, PoolFixed, KeepsRaw
  PROVE  PoolFixed'
<1>1. GoodFrom(sys) = NeedValid /\ ~RawOnFlash(sys)
  BY DEF PoolFixed, KeepsRaw
<1>2. GoodFrom(sys)' = GoodFrom(sys)
  BY DEF KeepsRaw, RawSame, GoodFrom, RawOnFlash, Pool
<1>3. sys \in Pool => ~RawOnFlash(sys)'
  BY <1>1 DEF KeepsRaw, RawSame, RawOnFlash
<1>4. sys \in Pool
  BY HeldFacts, ChipFacts DEF Pool, Blocks
<1> QED
  BY <1>1, <1>2, <1>3, <1>4 DEF PoolFixed, KeepsRaw

LEMMA NothingCopied ==
  ASSUME Goal' \notin {"relocate", "copy", "remap"}
  PROVE  ~Copying'
  BY DEF Copying

LEMMA RequestWritten ==
  ASSUME Held, NoneWritten, Running
  PROVE  req'.op = "write" => ~req'.oob.raw
<1>1. CASE req' = req
  BY <1>1 DEF NoneWritten
<1>2. CASE Request
  <2> SUFFICES ASSUME req'.op = "write", req' # req PROVE ~req'.oob.raw
    BY <1>1
  <2>1. PICK l \in Logical, p \in Pages, v \in Values : BeginWrite(l, p, v)
    BY <1>2 DEF Request, BeginErase, UserRead, None, history
  <2>2. req'.oob = SetIdx(CleanOob, pBbt[l]) \/ req'.oob = CleanOob
    BY <2>1 DEF BeginWrite
  <2> QED
    BY <2>2 DEF SetIdx, CleanOob
<1>3. CASE Done \/ Refuse
  BY <1>3 DEF Done, Refuse, None
<1>4. Reading => req' = req
  BY HeldFacts, ReadingFinds
<1>5. ~Reading /\ ~Request /\ ~Done /\ ~Refuse => req' = req
  BY DEF Running, SetUp, Find, Update, Serve, Reading, vars, history,
     Save, FindBbtBlock, ProgramBbt, BuildTable, ErasePool, ErasePoolDone, Scan, ScanFails, Relocate,
     CopyPage, CopyLast, NothingFound, Remap, FindBmtBlock, PlaceBmt, EraseBmt, ProgramBmt, Mark,
     ProgramUser, EraseUser
<1> QED
  BY <1>1, <1>2, <1>3, <1>4, <1>5

LEMMA BufferWritten ==
  ASSUME Held, Running, ToBmt' \/ Goal' = "programBbt"
  PROVE  \/ buf'.oob = CleanOob
         \/ buf' = buf /\ (ToBmt \/ Goal = "programBbt")
<1> USE DEF ToBmt
<1>1. CASE Reading
  <2>1. pc' \in SettingUp \cup {"dead", "save"}
    BY <1>1, HeldFacts, ReadingFinds
  <2>2. Goal' = pc'
    BY <2>1, GoalIs DEF SettingUp
  <2> QED
    BY <2>1, <2>2 DEF SettingUp
<1>2. CASE Save
  BY <1>2, SaveDoes DEF Save
<1>3. CASE FindBbtBlock
  <2>1. Goal' # "build"
    OBVIOUS
  <2>2. needBbt
    BY <1>3, <2>1, GoalIs DEF FindBbtBlock
  <2> QED
    BY <1>3, <2>2 DEF FindBbtBlock
<1>4. CASE FindBmtBlock \/ ErasePoolDone \/ Scan \/ ScanFails \/ PlaceBmt
  <2>1. buf' = buf
    BY <1>4 DEF FindBmtBlock, ErasePoolDone, Scan, ScanFails, PlaceBmt
  <2>2. Goal' = Goal \/ Goal \in {"writeBmt", "placeBmt"}
    BY <1>4, FindBmtBlockDoes, ErasePoolDoneDoes, ScanDoes, ScanFailsDoes, PlaceBmtDoes
  <2> QED
    BY <2>1, <2>2
<1>5. CASE Relocate \/ NothingFound \/ BuildTable \/ Done \/ Refuse
  BY <1>5, RelocateDoes, NothingFoundDoes, BuildTableDoes, DoneDoes
<1>6. CASE Remap
  BY <1>6 DEF Remap
<1>7. CASE Request
  <2>1. Goal' \in {"ready", "program", "erase"}
    BY <1>7, RequestDoes
  <2> QED
    BY <2>1
<1>8. CASE CopyPage \/ CopyLast
  <2>1. Goal' \in {"copy", "remap", "relocate"}
    BY <1>8, CopyDoes
  <2> QED
    BY <2>1
<1>9. CASE ProgramBmt \/ ProgramBbt \/ EraseBmt
  <2>1. buf' = buf
    BY <1>9 DEF ProgramBmt, ProgramBbt, EraseBmt
  <2> QED
    BY <1>9, <2>1, ProgramBmtDoes, ProgramBbtDoes, EraseBmtDoes
<1>10. CASE Mark \/ ErasePool
  <2>1. buf' = buf /\ Goal' = Goal
    BY <1>10, MarkDoes, ErasePoolDoes DEF Mark, ErasePool
  <2> QED
    BY <2>1
<1>11. CASE EraseUser \/ ProgramUser
  BY <1>11, EraseUserDoes, ProgramUserDoes
<1>12. CASE UNCHANGED vars
  BY <1>12 DEF vars, control, Goal, At
<1> QED
  BY <1>1, <1>2, <1>3, <1>4, <1>5, <1>6, <1>7, <1>8, <1>9, <1>10, <1>11, <1>12
  DEF Running, SetUp, Find, Update, Serve, Reading

LEMMA MarkWritten ==
  ASSUME Held, NoneWritten, Running, ~UNCHANGED vars, pc' = "mark", mark'.kind = "raw"
  PROVE  mark'.blk < sys'
<1>1. CASE CopyPage \/ CopyLast \/ ProgramBbt
  <2>1. mark'.kind = "later"
    BY <1>1 DEF CopyPage, CopyLast, AfterCopy, ProgramBbt, MarkThen
  <2> QED
    BY <2>1
<1>2. CASE ProgramBmt
  <2>1. mark'.kind = "later" \/ (Retire /\ sys' = sys)
    BY <1>2 DEF ProgramBmt, MarkThen, layout
  <2>2. Retire => mark'.kind = "later" \/ (mark'.blk = req.blk /\ req.blk < sys)
    BY DEF Retire, MarkThen
  <2> QED
    BY <2>1, <2>2
<1>3. ~Reading
  BY HeldFacts, ReadingFinds DEF SettingUp
<1>4. ~ErasePool /\ ~EraseBmt
  BY HeldFacts, ErasesPass
<1>5. ~Mark
  BY MarkDoes
<1> QED
  BY <1>1, <1>2, <1>3, <1>4, <1>5, GoalIs, HeldFacts
  DEF Running, SetUp, Find, Update, Serve, Reading,
     Save, FindBbtBlock, BuildTable, ErasePoolDone, Scan, ScanFails, Relocate, FindThen,
     NothingFound, Remap, FindBmtBlock, PlaceBmt, Request, BeginErase, BeginWrite, UserRead,
     ProgramUser, EraseUser, Done, Refuse, TypeOK, FindReturns

(* The block copied from is the one the write failed on, and stays as it is.*)
LEMMA SourceKept ==
  ASSUME Held, KeepsRaw, Running, Copying', pc' # "relocate"
  PROVE  Copying /\ req' = req /\ (RawOnFlash(req.blk)' <=> RawOnFlash(req.blk))
<1> DEFINE SourceSame == Copying /\ req' = req /\ flash'[req.blk][0] = flash[req.blk][0]
<1>0. SourceSame => Copying /\ req' = req /\ (RawOnFlash(req.blk)' <=> RawOnFlash(req.blk))
  BY DEF RawOnFlash
<1> HIDE DEF SourceSame
<1>1. CASE Relocate \/ Scan \/ ScanFails \/ UNCHANGED vars
  <2>1. flash' = flash /\ req' = req
    BY <1>1 DEF Relocate, Scan, ScanFails, vars, device, history
  <2>2. Copying
    <3>1. CASE Relocate
      BY <3>1, RelocateDoes DEF Copying
    <3>2. CASE Scan \/ ScanFails
      BY <3>2, ScanDoes, ScanFailsDoes DEF Copying
    <3>3. CASE UNCHANGED vars
      BY <3>3 DEF Copying, Goal, At, vars, control
    <3> QED
      BY <1>1, <3>1, <3>2, <3>3
  <2> QED
    BY <1>0, <2>1, <2>2 DEF SourceSame
<1>2. CASE CopyPage \/ CopyLast
  <2>1. Copying /\ Same /\ found # req.blk /\ i \in Pages
    BY <1>2, CopyDoes
  <2>2. \A x \in Blocks, q \in Pages : x # found \/ q # i => flash'[x][q] = flash[x][q]
    BY <1>2, CopyInks DEF Inked
  <2>3. flash'[req.blk][0] = flash[req.blk][0]
    BY <2>1, <2>2, HeldFacts
  <2> QED
    BY <1>0, <2>1, <2>3 DEF SourceSame, Same
<1>3. ~Mark
  <2>1. Mark => Goal' = pc' /\ pc' \in {"relocate", "writeBmt", "saveBbt", "done"}
    BY MarkDoes
  <2> QED
    BY <2>1, NothingCopied
<1>4. ~Reading
  <2>1. Reading => pc' \in SettingUp \cup {"dead", "save"}
    BY HeldFacts, ReadingFinds
  <2>2. Reading => Goal' = pc'
    BY <2>1, GoalIs DEF SettingUp
  <2> QED
    BY <2>1, <2>2, NothingCopied DEF SettingUp
<1>5. ~(Save \/ FindBbtBlock \/ FindBmtBlock \/ NothingFound \/ Remap \/ PlaceBmt \/ BuildTable)
  BY SaveDoes, FindBbtBlockDoes, FindBmtBlockDoes, NothingFoundDoes, RemapDoes, PlaceBmtDoes,
     BuildTableDoes, NothingCopied
<1>6. ~(Done \/ Refuse \/ Request)
  <2>1. Done \/ Refuse => Goal' \in {"ready", "dead"}
    BY DoneDoes
  <2>2. Request => Goal' \in {"ready", "program", "erase"}
    BY RequestDoes
  <2> QED
    BY <2>1, <2>2, NothingCopied
<1>7. ~(ErasePool \/ ErasePoolDone)
  <2>1. ErasePool \/ ErasePoolDone => Goal' = Goal /\ ToBmt
    BY ErasePoolDoes, ErasePoolDoneDoes
  <2> QED
    BY <2>1, NothingCopied DEF ToBmt
<1>8. ~(ProgramBmt \/ ProgramBbt \/ EraseBmt \/ EraseUser)
  <2>1. ProgramBmt => Goal' \in {"writeBmt", "saveBbt", "done"}
    BY ProgramBmtDoes
  <2>2. ProgramBbt => Goal' \in {"build", "saveBbt"}
    BY ProgramBbtDoes
  <2>3. EraseBmt \/ EraseUser => Goal' \in {"programBmt", "done"}
    BY EraseBmtDoes, EraseUserDoes
  <2> QED
    BY <2>1, <2>2, <2>3, NothingCopied
<1>9. ~ProgramUser
  <2>1. ProgramUser => Goal' = "done" \/ pc' = "relocate"
    BY ProgramUserDoes
  <2> QED
    BY <2>1, NothingCopied
<1> QED
  BY <1>1, <1>2, <1>3, <1>4, <1>5, <1>6, <1>7, <1>8, <1>9
  DEF Running, SetUp, Find, Update, Serve, Reading

LEMMA BorderNext ==
  ASSUME Held, Border, Running, GoodSource'
  PROVE  Border'
<1>1. CASE CalcPool
  BY <1>1, CalcPoolBorder
<1>2. CASE UNCHANGED vars
  <2>1. UNCHANGED <<flash, cache, sys, bmt, bmtAt, bbtAt, buf, pc, i, n, find, found, mark, req>>
    BY <1>2 DEF vars, device, tables, layout, control, history
  <2>2. Goal' = Goal /\ Pool' = Pool /\ \A b : RawOnFlash(b)' = RawOnFlash(b)
    BY <2>1 DEF Goal, At, Pool, RawOnFlash
  <2>3. Counted'
    BY <2>1, <2>2 DEF Border, Counted
  <2>4. PoolFixed'
    BY <2>1, <2>2 DEF Border, PoolFixed, GoodFrom
  <2>5. KnowsRaw(cache)'
    BY <2>1, <2>2 DEF Border, KnowsRaw
  <2>6. UsedGood'
    BY <2>1, <2>2 DEF Border, UsedGood, InUse, Mapped, MappedTo, Holds
  <2>7. NoneWritten'
    BY <2>1, <2>2 DEF Border, NoneWritten, ToBmt, Copying
  <2> QED
    BY <2>3, <2>4, <2>5, <2>6, <2>7 DEF Border
<1>3. CASE ~CalcPool /\ ~UNCHANGED vars
  <2>1. KeepsRaw
    BY <1>3, RawNext
  <2>2. Counted'
    <3>1. pc' # "pool"
      BY <1>3, <2>1, FoundNext DEF KeepsRaw
    <3>2. pc' = "erasePool" => i' >= sys'
      <4> SUFFICES ASSUME pc' = "erasePool" PROVE i' >= sys
        BY <2>1 DEF KeepsRaw
      <4>1. sys \in Nat
        BY HeldFacts
      <4>2. CASE FindBbtBlock \/ FindBmtBlock \/ Relocate
        <5>1. i' = sys
          BY <4>2 DEF FindBbtBlock, FindBmtBlock, Relocate, FindThen
        <5> QED
          BY <4>1, <5>1
      <4>3. CASE ErasePool
        <5>1. i' = i + 1 /\ i >= sys /\ i \in Blocks
          BY <4>3, ErasePoolDoes DEF Border, Counted, ErasePool
        <5> QED
          BY <4>1, <5>1, HeldFacts
      <4>4. ~Reading
        BY HeldFacts, ReadingFinds DEF SettingUp
      <4>5. ~Mark
        BY MarkDoes
      <4> QED
        BY <1>3, <4>2, <4>3, <4>4, <4>5, HeldFacts
        DEF Running, SetUp, Find, Update, Serve, Reading, Save, BuildTable, ErasePoolDone, Scan,
            ScanFails, CopyPage, CopyLast, AfterCopy, NothingFound, Remap, PlaceBmt, EraseBmt,
            ProgramBmt, ProgramBbt, MarkThen, Retire, ProgramUser, EraseUser, Done, Refuse,
            Request, BeginErase, BeginWrite, UserRead, TypeOK, FindReturns
    <3> QED
      BY <3>1, <3>2 DEF Counted
  <2>3. PoolFixed'
    BY <2>1, PoolFixedNext DEF Border
  <2>4. UsedGood'
    BY <1>3, <2>1, UsedGoodNext
  <2>5. NoneWritten'
    <3>1. req'.op = "write" => ~req'.oob.raw
      BY RequestWritten DEF Border
    <3>2. ToBmt' \/ Goal' = "programBbt" => ~buf'.oob.raw
      <4>1. NoneWritten /\ ~CleanOob.raw
        BY DEF Border, CleanOob
      <4> QED
        BY <4>1, BufferWritten DEF NoneWritten
    <3>3. pc' = "mark" /\ mark'.kind = "raw" => mark'.blk < sys'
      BY <1>3, MarkWritten DEF Border
    <3>4. Copying' => ~RawOnFlash(req.blk)'
      <4>1. CASE pc' = "relocate"
        BY <4>1 DEF GoodSource
      <4>2. CASE Copying' /\ pc' # "relocate"
        BY <2>1, <4>2, SourceKept DEF Border, NoneWritten
      <4> QED
        BY <4>1, <4>2
    <3> QED
      BY <3>1, <3>2, <3>3, <3>4 DEF NoneWritten
  <2> QED
    BY <2>1, <2>2, <2>3, <2>4, <2>5 DEF Border, KeepsRaw
<1> QED
  BY <1>1, <1>2, <1>3

LEMMA BorderInit == Init => Border
<1> SUFFICES ASSUME Init PROVE Border
  OBVIOUS
<1>1. /\ pc = "pool" /\ sys = 0 /\ n = 0 /\ i = NBlocks - 1 /\ cache = ColdCache
      /\ req = None /\ bmt = <<>> /\ bmtAt = 0 /\ bbtAt = 0
  BY DEF Init, PowerOn
<1>2. Goal = "pool" /\ req.op = "boot" /\ cache.page = <<>>
  BY <1>1, GoalIs DEF None, ColdCache, NoPage
<1>3. {b \in i + 1 .. NBlocks - 1 : ~RawOnFlash(b)} = {}
  BY <1>1, ChipFacts
<1>4. Counted
  <2>1. n < NeedValid
    BY <1>1, BmtAssumption
  <2>2. Cardinality({b \in i + 1 .. NBlocks - 1 : ~RawOnFlash(b)}) = 0
    BY <1>3, FS_EmptySet, Zenon
  <2> QED
    BY <1>1, <2>1, <2>2 DEF Counted
<1>5. PoolFixed
  BY <1>1 DEF PoolFixed
<1>6. KnowsRaw(cache)
  BY <1>2 DEF KnowsRaw
<1>7. UsedGood
  <2>1. \A b : ~InUse(b)
    BY <1>1 DEF InUse, Mapped, MappedTo, Holds, FindReturns
  <2> QED
    BY <2>1 DEF UsedGood
<1>8. NoneWritten
  BY <1>1, <1>2 DEF NoneWritten, ToBmt, Copying
<1> QED
  BY <1>4, <1>5, <1>6, <1>7, <1>8 DEF Border

(* Until power is lost the next set-up would place the border of the pool  *)
(* where it is, whichever programs fail: only blocks below it are ever     *)
(* given the factory's mark, and no marked block of the pool is used.      *)
(* Besides the conditions of the theorem before it needs that no block     *)
(* with a factory mark is migrated, as its mark is migrated with it.       *)
(* (calc_bmt_pool_size, mark_block_bad_bmt, migrate_from_bad.)             *)
THEOREM PoolFixedUntilPowerLoss ==
  ASSUME CleanFailures
  PROVE  Spec /\ [](crashes = 0 /\ MarkIsSeen /\ GoodSource) => []PoolFixed
<1> DEFINE J == crashes = 0 => Intact /\ Border
<1>1. Init => IInv /\ J
  BY TypeInit, UndisturbedInit, IntactInit, BorderInit DEF IInv, FirstPower
<1>2. IInv /\ J /\ (crashes = 0 /\ MarkIsSeen /\ GoodSource) /\ GoodSource' /\ [Next]_vars => J'
  <2> SUFFICES ASSUME IInv, Intact, Border, crashes = 0, MarkIsSeen, GoodSource', [Next]_vars,
                      crashes' = 0
               PROVE  Intact' /\ Border'
    OBVIOUS
  <2>1. Held
    BY DEF Held, IInv, FirstPower
  <2>2. ~PowerCut
    BY DEF PowerCut
  <2>3. Running
    BY <2>2 DEF Running, Next, Driver
  <2> QED
    BY <2>1, <2>3, IntactNext, BorderNext
<1>3. J /\ (crashes = 0 /\ MarkIsSeen /\ GoodSource) => PoolFixed
  BY DEF Border
<1>4. (crashes = 0 /\ MarkIsSeen /\ GoodSource)' => GoodSource'
  OBVIOUS
<1> HIDE DEF J
<1> QED
  BY <1>1, <1>2, <1>3, <1>4, InvariantNext, PTL DEF Spec
-----------------------------------------------------------------------------
(***************************************************************************)
(* The tables on the chip.                                                 *)
(***************************************************************************)

(* No page a user may write looks like a table. *)
TablesTold == Values \cap (BmtPage \cup BbtPage) = {}

(* No program of a table fails.  After one that does the search may choose *)
(* the block again, as the copy of its spare area is older than its mark,  *)
(* and the next set-up skips it.                                           *)
HomesHold == pc = "mark" => mark.then \notin {"writeBmt", "saveBbt"}

(* A table is nowhere but at home. *)
Signed ==
  \A b \in Blocks : /\ flash[b][0].data \in BmtPage => b # 0 /\ b = bmtAt /\ pc # "programBmt"
                    /\ flash[b][0].data \in BbtPage => b # 0 /\ b = bbtAt

(* Neither the chip nor the cache has a mark for b. *)
Clear(b) ==
  /\ Unmarked(b)
  /\ cache.page = <<b, 0>> => ~cache.oob.raw /\ ~cache.oob.later

ClearHomes ==
  /\ \A b \in {bmtAt, bbtAt} \ {0} : Clear(b)
  /\ pc \in {"placeBmt", "programBbt"} /\ found # 0 => Clear(found)
  /\ ToBmt \/ Goal = "programBbt" => ~buf.oob.raw /\ ~buf.oob.later

(* A cache agrees with the chip about all marks, which it does until the   *)
(* first of them is written.                                               *)
Knows(c) ==
  \A b \in Blocks : c.page = <<b, 0>> =>
    /\ c.oob.raw <=> flash[b][0].oob.raw
    /\ c.map.raw <=> flash[b][0].oob.raw
    /\ c.oob.later <=> flash[b][0].oob.later
    /\ c.map.later <=> flash[b][0].oob.later

Plain == ~Up => Knows(cache)

(* The tables are written at set-up, and the BMT when it changes. *)
Written ==
  /\ Goal \in {"scanRaw", "save", "saveBbt"} \/ (ToBmt /\ ~Up) => needBbt
  /\ Up \/ ToBbt \/ Goal = "build" =>
       bmtAt # 0 /\ (ToBmt \/ flash[bmtAt][0].data = [bmt |-> bmt])
  /\ Up \/ Goal = "build" => bbtAt # 0 /\ flash[bbtAt][0].data = [bbt |-> bbt]
  /\ pc = "pool" => bbt = <<>>
  /\ \A m \in DOMAIN bbt : bbt[m] < sys
  /\ req.op = "write" => req.blk \notin {bmtAt, bbtAt}

Stored == Signed /\ ClearHomes /\ Plain /\ Written

-----------------------------------------------------------------------------
(***************************************************************************)
(* Where the tables are, and that no home of a table is marked.            *)
(***************************************************************************)
(* What the lemmas about a step may use.                                   *)
Saved == Held /\ Stored /\ TablesTold /\ HomesHold

LEMMA StoredFacts ==
  ASSUME Saved
  PROVE  /\ Held /\ Signed /\ ClearHomes /\ Plain /\ Written /\ TablesTold /\ HomesHold
         /\ Up => bmtAt # 0 /\ bbtAt # 0
         /\ req.op = "write" => Up /\ req.blk \notin {bmtAt, bbtAt}
         /\ \A b \in {bmtAt, bbtAt} \ {0} : b \in Pool /\ ~Mapped(b) /\ ~Vacant(b)
<1>1. Held /\ Signed /\ ClearHomes /\ Plain /\ Written /\ TablesTold /\ HomesHold
  BY DEF Saved, Stored
<1>2. \A b \in {bmtAt, bbtAt} \ {0} : b \in Pool /\ ~Mapped(b) /\ ~Vacant(b)
  BY <1>1, HeldFacts DEF Ranges, Undisturbed, InUseApart, Vacant, Holds
<1> QED
  BY <1>1, <1>2 DEF Written, Up

(* No table is copied with a block that is replaced. *)
LEMMA NoTableCopied ==
  ASSUME Saved, req.op = "write"
  PROVE  /\ req.data \notin BmtPage \cup BbtPage
         /\ Copying => Want(0) \notin BmtPage \cup BbtPage
         /\ flash[req.blk][0].data \notin BmtPage \cup BbtPage
<1>1. req.data \in Values \cup {Erased} /\ req.blk \in Blocks
  BY StoredFacts, HeldFacts DEF TypeOK, Requests
<1>2. req.data \notin BmtPage \cup BbtPage /\ Erased \notin BmtPage \cup BbtPage
  BY <1>1, StoredFacts, ErasedAssumption DEF TablesTold
<1>3. flash[req.blk][0].data \notin BmtPage \cup BbtPage
  BY <1>1, StoredFacts DEF Signed
<1> QED
  BY <1>2, <1>3 DEF Want

LEMMA TablesDiffer == BmtPage \cap BbtPage = {}
<1> SUFFICES ASSUME NEW x \in BmtPage, x \in BbtPage PROVE FALSE
  OBVIOUS
<1>1. DOMAIN x = {"bmt"} /\ DOMAIN x = {"bbt"}
  BY DEF BmtPage, BbtPage
<1> QED
  BY <1>1

LEMMA WroteData ==
  ASSUME NEW b \in Blocks, NEW p \in Pages, NEW d, NEW r, Wrote(b, p, d, r), 0 \in Pages
  PROVE  \A x \in Blocks : \/ flash'[x][0].data = flash[x][0].data
                           \/ x = b /\ p = 0 /\ d # Erased /\ r = "ok" /\ flash'[x][0].data = d
  BY DEF Wrote

LEMMA SameSigned ==
  ASSUME Signed, \A x \in Blocks : \/ flash'[x][0].data = flash[x][0].data
                                   \/ flash'[x][0].data \notin BmtPage \cup BbtPage,
         bmtAt' = bmtAt, bbtAt' = bbtAt, pc' # "programBmt"
  PROVE  Signed'
  BY DEF Signed

LEMMA SignedNext ==
  ASSUME Saved, Running, HomesHold'
  PROVE  Signed'
<1>1. Held /\ Signed /\ 0 \in Pages /\ Erased \notin BmtPage \cup BbtPage
  BY StoredFacts, HeldFacts, ErasedAssumption
<1>2. CASE Reading
  <2>1. flash' = flash /\ bmtAt' = bmtAt /\ bbtAt' = bbtAt /\ pc' # "programBmt"
    BY <1>1, <1>2, HeldFacts, ReadingFinds DEF SettingUp
  <2> QED
    BY <1>1, <2>1, SameSigned
<1>3. CASE Save \/ FindBbtBlock \/ FindBmtBlock \/ Relocate \/ ErasePoolDone \/ ScanFails \/ Scan
           \/ NothingFound \/ Remap \/ BuildTable \/ Done \/ Refuse \/ Request
  <2>1. flash' = flash /\ bmtAt' = bmtAt /\ bbtAt' = bbtAt
    BY <1>3 DEF Save, FindBbtBlock, FindBmtBlock, Relocate, ErasePoolDone, ScanFails, Scan,
       NothingFound, Remap, BuildTable, Done, Refuse, Request, BeginWrite, BeginErase, UserRead,
       device, tables
  <2>2. pc' # "programBmt"
    <3>1. find.then # "programBmt"
      BY <1>1, HeldFacts DEF TypeOK, FindReturns
    <3> QED
      BY <1>3, <3>1 DEF Save, FindBbtBlock, FindBmtBlock, Relocate, ErasePoolDone, ScanFails, Scan,
         NothingFound, Remap, BuildTable, Done, Refuse, Request, BeginWrite, BeginErase, UserRead,
         FindThen
  <2> QED
    BY <1>1, <2>1, <2>2, SameSigned
<1>4. CASE PlaceBmt
  <2>1. flash' = flash /\ bmtAt = 0 /\ bbtAt' = bbtAt
    BY <1>1, <1>4, PlaceBmtDoes DEF Idle
  <2> QED
    BY <1>1, <2>1 DEF Signed
<1>5. CASE CopyPage \/ CopyLast
  <2>1. /\ found \in Blocks /\ i \in Pages /\ Copying /\ req.op = "write"
        /\ bmtAt' = bmtAt /\ bbtAt' = bbtAt
        /\ \E r : Wrote(found, i, Want(i), r)
    BY <1>1, <1>5, CopyDoes, HeldFacts
  <2>2. \A x \in Blocks : \/ flash'[x][0].data = flash[x][0].data
                          \/ flash'[x][0].data \notin BmtPage \cup BbtPage
    BY <1>1, <2>1, NoTableCopied, WroteData
  <2>3. pc' # "programBmt"
    BY <1>5 DEF CopyPage, CopyLast, AfterCopy, MarkThen
  <2> QED
    BY <1>1, <2>1, <2>2, <2>3, SameSigned
<1>6. CASE Mark
  <2>1. /\ mark.blk \in Blocks /\ mark.page \in Pages /\ bmtAt' = bmtAt /\ bbtAt' = bbtAt
        /\ pc' \in {"relocate", "done"} /\ pc' = mark.then /\ Goal = mark.then /\ pc = "mark"
    BY <1>1, <1>6, MarkDoes, HeldFacts, StoredFacts DEF HomesHold
  <2>2. PICK r, d : /\ Wrote(mark.blk, mark.page, d, r)
                    /\ mark.then # "done" => d \in {Erased, Want(0)}
                    /\ mark.then = "done" => d = flash[mark.blk][mark.page].data
    BY <1>1, <1>6, MarkDoes
  <2>3. mark.then = "relocate" => Copying /\ req.op = "write"
    BY <1>1, <2>1, HeldFacts DEF Stages, Copying
  <2>4. \A x \in Blocks : \/ flash'[x][0].data = flash[x][0].data
                          \/ flash'[x][0].data \notin BmtPage \cup BbtPage
    BY <1>1, <2>1, <2>2, <2>3, NoTableCopied, WroteData
  <2> QED
    BY <1>1, <2>1, <2>4, SameSigned
<1>7. CASE ProgramUser
  <2>1. /\ req.phys \in Blocks /\ req.page \in Pages /\ req.op = "write"
        /\ bmtAt' = bmtAt /\ bbtAt' = bbtAt /\ pc' \in {"done", "relocate"}
        /\ \E r : Wrote(req.phys, req.page, req.data, r)
    BY <1>1, <1>7, ProgramUserDoes, HeldFacts
  <2>2. \A x \in Blocks : \/ flash'[x][0].data = flash[x][0].data
                          \/ flash'[x][0].data \notin BmtPage \cup BbtPage
    BY <1>1, <2>1, NoTableCopied, WroteData
  <2> QED
    BY <1>1, <2>1, <2>2, SameSigned
<1>8. CASE ProgramBmt
  <2>1. PICK r : /\ Wrote(bmtAt, 0, Want(0), r) /\ Want(0) = [bmt |-> bmt]
                 /\ r = "clean" \/ bmtAt' = bmtAt
                 /\ r = "clean" => pc' = "mark" /\ mark'.then = "writeBmt"
    BY <1>1, <1>8, ProgramBmtDoes
  <2>2. r # "clean"
    BY <2>1 DEF HomesHold
  <2>3. /\ bmtAt # 0 /\ bmtAt \in Blocks /\ bmtAt' = bmtAt /\ bbtAt' = bbtAt
        /\ pc' \in {"saveBbt", "mark"}
    BY <1>1, <1>8, <2>1, <2>2, ProgramBmtDoes, HeldFacts
  <2>4. [bmt |-> bmt] \notin BbtPage
    BY TablesDiffer, <1>1, HeldFacts DEF BmtPage, TypeOK
  <2>5. \A x \in Blocks : \/ flash'[x][0].data = flash[x][0].data
                          \/ x = bmtAt /\ flash'[x][0].data = [bmt |-> bmt]
    BY <1>1, <2>1, <2>3, WroteData
  <2> QED
    BY <1>1, <2>3, <2>4, <2>5 DEF Signed
<1>9. CASE ProgramBbt
  <2>1. PICK r : /\ Wrote(found, 0, Want(0), r) /\ Want(0) = [bbt |-> bbt]
                 /\ r = "clean" \/ bbtAt' = found
                 /\ r = "clean" => pc' = "mark" /\ mark'.then = "saveBbt"
    BY <1>1, <1>9, ProgramBbtDoes
  <2>2. r # "clean"
    BY <2>1 DEF HomesHold
  <2>3. /\ found # 0 /\ found \in Blocks /\ bbtAt' = found /\ bmtAt' = bmtAt
        /\ pc' \in {"build", "mark"} /\ bbtAt = 0
    <3>1. ToBbt
      BY <1>1, <1>9, ProgramBbtDoes DEF ToBbt
    <3>2. bbtAt = 0
      BY <1>1, <3>1, HeldFacts DEF Homeless
    <3> QED
      BY <1>1, <1>9, <2>1, <2>2, <3>2, ProgramBbtDoes, HeldFacts
  <2>4. [bbt |-> bbt] \notin BmtPage
    BY TablesDiffer, <1>1, HeldFacts DEF BbtPage, TypeOK
  <2>5. \A x \in Blocks : \/ flash'[x][0].data = flash[x][0].data
                          \/ x = found /\ flash'[x][0].data = [bbt |-> bbt]
    BY <1>1, <2>1, <2>3, WroteData
  <2> QED
    BY <1>1, <2>3, <2>4, <2>5 DEF Signed
<1>10. CASE ErasePool \/ EraseUser \/ EraseBmt
  <2>1. bmtAt' = bmtAt /\ bbtAt' = bbtAt
    BY <1>1, <1>10, ErasePoolDoes, EraseUserDoes, EraseBmtDoes
  <2>2. \A b \in Blocks : Wiped(b) =>
          \A x \in Blocks : \/ x # b /\ flash'[x][0].data = flash[x][0].data
                            \/ x = b /\ flash'[x][0].data = Erased
    BY <1>1, WipedFacts, HeldFacts DEF Blank
  <2>3. CASE EraseBmt
    <3>1. bmtAt \in Blocks /\ Wiped(bmtAt)
      BY <1>1, <2>3, EraseBmtDoes, HeldFacts
    <3>2. \A x \in Blocks : \/ x # bmtAt /\ flash'[x][0].data = flash[x][0].data
                            \/ x = bmtAt /\ flash'[x][0].data \notin BmtPage \cup BbtPage
      BY <1>1, <2>2, <3>1
    <3> QED
      BY <1>1, <2>1, <3>2 DEF Signed
  <2>4. CASE ErasePool \/ EraseUser
    <3>1. flash' = flash \/ \E b \in Blocks : Wiped(b)
      BY <1>1, <2>4, ErasePoolDoes, EraseUserDoes, HeldFacts
    <3>2. pc' # "programBmt"
      BY <1>1, <2>4, ErasePoolDoes, EraseUserDoes
    <3>3. \A x \in Blocks : \/ flash'[x][0].data = flash[x][0].data
                            \/ flash'[x][0].data \notin BmtPage \cup BbtPage
      BY <1>1, <2>2, <3>1
    <3> QED
      BY <1>1, <2>1, <3>2, <3>3, SameSigned
  <2> QED
    BY <1>10, <2>3, <2>4
<1>11. CASE UNCHANGED vars
  BY <1>1, <1>11 DEF vars, device, tables, Signed
<1> QED
  BY <1>2, <1>3, <1>4, <1>5, <1>6, <1>7, <1>8, <1>9, <1>10, <1>11
  DEF Running, SetUp, Find, Update, Serve, Reading

-----------------------------------------------------------------------------
(***************************************************************************)
(* No home of a table is marked.                                           *)
(***************************************************************************)
MarkFree(o) == ~o.raw /\ ~o.later

LEMMA AndMarkFree ==
  ASSUME NEW a, NEW b
  PROVE  MarkFree(AndOob(a, b)) <=> MarkFree(a) /\ MarkFree(b)
  BY AndMarks DEF MarkFree

LEMMA CleanIsMarkFree ==
  /\ MarkFree(CleanOob) /\ MarkFree(Blank.oob)
  /\ \A b : MarkFree(SetIdx(CleanOob, b))
  BY DEF MarkFree, CleanOob, Blank, SetIdx

LEMMA ClearIs ==
  ASSUME NEW b
  PROVE  Clear(b) <=> /\ MarkFree(flash[b][0].oob)
                      /\ cache.page = <<b, 0>> => MarkFree(cache.oob)
  BY DEF Clear, Unmarked, MarkFree

(* The cached page is read, or forgotten, or left alone. *)
Looks == \/ cache' = cache
         \/ cache'.page = NoPage
         \/ \E b \in Blocks, p \in Pages : cache' = Read(flash, cache, b, p)

LEMMA LooksAt ==
  ASSUME NoGarbage, Looks, NEW x \in Blocks, cache'.page = <<x, 0>>
  PROVE  \/ cache' = cache
         \/ cache'.oob = flash[x][0].oob /\ cache'.map = flash[x][0].oob
<1>1. cache'.page # NoPage
  BY DEF NoPage
<1>2. CASE \E b \in Blocks, p \in Pages : cache' = Read(flash, cache, b, p)
  <2>1. PICK b \in Blocks, p \in Pages : cache' = Read(flash, cache, b, p)
    BY <1>2
  <2>2. /\ cache'.page = <<b, p>>
        /\ \/ cache' = cache
           \/ cache'.oob = flash[b][p].oob /\ cache'.map = flash[b][p].oob
    BY <2>1, ReadIs DEF NoGarbage
  <2>3. b = x /\ p = 0
    BY <2>2
  <2> QED
    BY <2>2, <2>3
<1> QED
  BY <1>1, <1>2 DEF Looks

LEMMA LookClear ==
  ASSUME NoGarbage, Looks, NEW x \in Blocks, Clear(x), flash'[x][0].oob = flash[x][0].oob
  PROVE  Clear(x)'
<1>1. cache'.page = <<x, 0>> => MarkFree(cache'.oob)
  BY LooksAt, ClearIs
<1>2. MarkFree(flash'[x][0].oob)
  BY ClearIs
<1> QED
  BY <1>1, <1>2 DEF Clear, Unmarked, MarkFree

LEMMA WipeClear ==
  ASSUME NoGarbage, Looks, flash \in Flash, 0 \in Pages,
         NEW x \in Blocks, Clear(x), NEW b \in Blocks, Wiped(b)
  PROVE  Clear(x)'
<1>1. cache'.page = <<x, 0>> => MarkFree(cache'.oob)
  BY LooksAt, ClearIs
<1>2. MarkFree(flash'[x][0].oob)
  <2>1. flash'[x][0] = Blank \/ flash'[x] = flash[x]
    BY WipedFacts
  <2> QED
    BY <2>1, ClearIs, CleanIsMarkFree
<1> QED
  BY <1>1, <1>2 DEF Clear, Unmarked, MarkFree

LEMMA InkClear ==
  ASSUME 0 \in Pages, NEW x \in Blocks, Clear(x), NEW b \in Blocks, NEW p \in Pages, NEW o,
         Inked(b, p, o), b = x /\ p = 0 => MarkFree(o)
  PROVE  Clear(x)'
<1>1. CASE b = x /\ p = 0
  <2>1. /\ \/ cache.page = <<x, 0>> /\ cache'.oob = AndOob(cache.oob, o)
           \/ cache'.oob = AndOob(flash[x][0].oob, o)
        /\ flash'[x][0].oob \in {flash[x][0].oob, AndOob(flash[x][0].oob, cache'.oob)}
    BY <1>1 DEF Inked
  <2>2. MarkFree(cache'.oob)
    BY <1>1, <2>1, ClearIs, AndMarkFree
  <2>3. MarkFree(flash'[x][0].oob)
    BY <2>1, <2>2, ClearIs, AndMarkFree
  <2> QED
    BY <2>2, <2>3 DEF Clear, Unmarked, MarkFree
<1>2. CASE b # x \/ p # 0
  <2>1. cache'.page # <<x, 0>> /\ flash'[x][0] = flash[x][0]
    BY <1>2 DEF Inked
  <2> QED
    BY <2>1, ClearIs DEF Clear, Unmarked, MarkFree
<1> QED
  BY <1>1, <1>2

LEMMA LookKnows ==
  ASSUME NoGarbage, Looks, Knows(cache)
  PROVE  Knows(cache') /\ (flash' = flash => Knows(cache)')
<1>1. \A x \in Blocks : cache'.page = <<x, 0>> =>
        \/ cache' = cache
        \/ cache'.oob = flash[x][0].oob /\ cache'.map = flash[x][0].oob
  BY LooksAt
<1> QED
  BY <1>1 DEF Knows

LEMMA InkKnows ==
  ASSUME 0 \in Pages, Knows(cache), NEW b \in Blocks, Inked(b, 0, buf.oob), MarkFree(buf.oob)
  PROVE  Knows(cache)'
<1>1. /\ cache'.page = <<b, 0>>
      /\ \/ /\ cache.page = <<b, 0>>
            /\ cache'.map = cache.map /\ cache'.oob = AndOob(cache.oob, buf.oob)
         \/ cache'.map = flash[b][0].oob /\ cache'.oob = AndOob(flash[b][0].oob, buf.oob)
      /\ \/ flash'[b][0].oob = flash[b][0].oob
         \/ flash'[b][0].oob = AndOob(flash[b][0].oob, cache'.oob)
  BY DEF Inked
<1>2. /\ cache'.oob.raw <=> flash[b][0].oob.raw
      /\ cache'.map.raw <=> flash[b][0].oob.raw
      /\ cache'.oob.later <=> flash[b][0].oob.later
      /\ cache'.map.later <=> flash[b][0].oob.later
  BY <1>1, AndMarks DEF Knows, MarkFree
<1>3. /\ flash'[b][0].oob.raw <=> flash[b][0].oob.raw
      /\ flash'[b][0].oob.later <=> flash[b][0].oob.later
  BY <1>1, <1>2, AndMarks
<1>4. \A x \in Blocks : cache'.page = <<x, 0>> => x = b
  BY <1>1
<1> QED
  BY <1>2, <1>3, <1>4 DEF Knows

LEMMA WipeKnows ==
  ASSUME flash \in Flash, 0 \in Pages, Knows(cache'), NEW b \in Blocks, Unmarked(b), Wiped(b)
  PROVE  Knows(cache)'
<1>1. flash'[b][0] = Blank /\ \A x \in Blocks : x # b => flash'[x] = flash[x]
  BY WipedFacts
<1>2. \A x \in Blocks : /\ flash'[x][0].oob.raw <=> flash[x][0].oob.raw
                        /\ flash'[x][0].oob.later <=> flash[x][0].oob.later
  BY <1>1, CleanIsMarkFree DEF Unmarked, MarkFree
<1> QED
  BY <1>2 DEF Knows

(* The driver is up for good, or until power is lost. *)
LEMMA StaysUp ==
  ASSUME Held, Running
  PROVE  Up => Up' \/ UNCHANGED vars
<1> SUFFICES ASSUME Up PROVE Up' \/ UNCHANGED vars
  OBVIOUS
<1>1. CASE req.op # "boot"
  <2>1. req' = req \/ Request \/ Done \/ Refuse
    <3>1. Reading => req' = req
      BY HeldFacts, ReadingFinds
    <3> QED
      BY <3>1 DEF Running, SetUp, Find, Update, Serve, Reading, vars, history,
         Save, FindBbtBlock, ProgramBbt, BuildTable, ErasePool, ErasePoolDone, Scan, ScanFails,
         Relocate, CopyPage, CopyLast, NothingFound, Remap, FindBmtBlock, PlaceBmt, EraseBmt,
         ProgramBmt, Mark, ProgramUser, EraseUser
  <2>2. ~Request
    BY <1>1, RequestDoes
  <2> QED
    BY <1>1, <2>1, <2>2, DoneDoes DEF Up
<1>2. CASE req.op = "boot" /\ pc = "ready"
  <2>1. Request \/ UNCHANGED vars
    BY <1>2 DEF Running, SetUp, Find, Update, Serve,
       CalcPool, LoadBmt, LoadBmtFails, CheckRaw, Reconstruct, ReconstructDone,
       LoadBbt, LoadBbtFails, ScanRaw, ScanRawDone,
       Save, FindBbtBlock, ProgramBbt, BuildTable, ErasePool, ErasePoolDone, Scan, ScanFails,
       Relocate, CopyPage, CopyLast, NothingFound, Remap, FindBmtBlock, PlaceBmt, EraseBmt,
       ProgramBmt, Mark, ProgramUser, EraseUser, Done, Refuse
  <2>2. Request => Up'
    <3>1. ASSUME NEW l \in Logical, BeginErase(l) PROVE req'.op = "erase"
      BY <3>1 DEF BeginErase, None
    <3>2. ASSUME NEW l \in Logical, NEW p \in Pages, NEW v \in Values, BeginWrite(l, p, v)
          PROVE  req'.op = "write"
      BY <3>2 DEF BeginWrite
    <3>3. ASSUME NEW l \in Logical, NEW p \in Pages, UserRead(l, p) PROVE pc' = "ready"
      BY <3>3, <1>2 DEF UserRead
    <3> QED
      BY <3>1, <3>2, <3>3 DEF Request, Up
  <2> QED
    BY <2>1, <2>2
<1> QED
  BY <1>1, <1>2 DEF Up

LEMMA QuietLooks ==
  ASSUME Held, \/ Reading \/ Save \/ FindBbtBlock \/ FindBmtBlock \/ Relocate \/ ErasePoolDone
               \/ ScanFails \/ Scan \/ NothingFound \/ Remap \/ PlaceBmt \/ BuildTable
               \/ Done \/ Refuse \/ Request \/ UNCHANGED vars
  PROVE  Looks /\ flash' = flash
<1>1. 0 \in Pages
  BY HeldFacts
<1>2. CASE Reading
  BY <1>1, <1>2, HeldFacts, ReadingFinds DEF Looks
<1>3. CASE Scan
  <2>1. flash' = flash /\ i \in Blocks /\ (cache' = cache \/ cache' = Read(flash, cache, i, 0))
    BY <1>3, HeldFacts DEF Scan, Load
  <2> QED
    BY <1>1, <2>1 DEF Looks
<1>4. CASE Request
  <2>1. Up /\ flash' = flash
    BY <1>4, RequestDoes
  <2>2. CASE cache' = ClearCache(cache)
    <3>1. cache'.page = NoPage
      BY <2>2, HeldFacts DEF ClearCache, Cache
    <3> QED
      BY <2>1, <3>1 DEF Looks
  <2>3. CASE \E l \in Logical, p \in Pages : cache' = Read(flash, cache, Physical(l), p)
    <3>1. PICK l \in Logical, p \in Pages : cache' = Read(flash, cache, Physical(l), p)
      BY <2>3
    <3>2. Physical(l) \in Blocks
      BY <2>1, PhysicalApart
    <3> QED
      BY <2>1, <3>1, <3>2 DEF Looks
  <2> QED
    BY <1>4, <2>2, <2>3 DEF Request, BeginErase, BeginWrite, UserRead, Load
<1>5. CASE \/ Save \/ FindBbtBlock \/ FindBmtBlock \/ Relocate \/ ErasePoolDone \/ ScanFails
           \/ NothingFound \/ Remap \/ PlaceBmt \/ BuildTable \/ Done \/ Refuse \/ UNCHANGED vars
  <2>1. flash' = flash /\ cache' = cache
    BY <1>5 DEF Save, FindBbtBlock, FindBmtBlock, Relocate, ErasePoolDone, ScanFails, NothingFound,
       Remap, PlaceBmt, BuildTable, Done, Refuse, device, vars
  <2> QED
    BY <2>1 DEF Looks
<1> QED
  BY <1>2, <1>3, <1>4, <1>5

LEMMA ErasePoolLooks ==
  ASSUME Held, ErasePool
  PROVE  Looks /\ i \in Blocks
<1>1. i \in Blocks /\ 0 \in Pages
  BY ErasePoolDoes, HeldFacts
<1>2. cache' = cache \/ cache' = Read(flash, cache, i, 0)
  BY DEF ErasePool, Load, device
<1> QED
  BY <1>1, <1>2 DEF Looks

(* What a table is written with has no mark. *)
LEMMA TableMarkFree ==
  ASSUME Saved, ToBmt \/ Goal = "programBbt"
  PROVE  MarkFree(buf.oob)
  BY StoredFacts DEF ClearHomes, MarkFree

(* No step of a request puts a mark into the home of a table. *)
LEMMA MarksElsewhere ==
  ASSUME Saved, Mark
  PROVE  /\ Up /\ mark.blk \notin {bmtAt, bbtAt} \ {0}
         /\ mark.then \in {"relocate", "done"}
<1>1. Held /\ HomesHold /\ pc = "mark" /\ mark.then \in {"relocate", "writeBmt", "saveBbt", "done"}
  BY MarkDoes, StoredFacts
<1>2. mark.then \in {"relocate", "done"}
  BY <1>1 DEF HomesHold
<1>3. CASE mark.then = "relocate"
  <2>1. Vacant(mark.blk) /\ Goal = "relocate"
    BY <1>1, <1>3, MarkDoes
  <2>2. req.op = "write"
    BY <1>1, <2>1, HeldFacts DEF Stages
  <2> QED
    BY <1>3, <2>1, <2>2 DEF Vacant, Holds, Up
<1>4. CASE mark.then = "done"
  <2>1. req.op = "write" /\ mark.blk = req.blk
    BY <1>1, <1>4, MarkDoes
  <2> QED
    BY <1>4, <2>1, StoredFacts
<1> QED
  BY <1>2, <1>3, <1>4

LEMMA PlainNext ==
  ASSUME Saved, Running
  PROVE  Plain'
<1> SUFFICES ASSUME ~Up' PROVE Knows(cache)'
  BY DEF Plain
<1>1. Held /\ NoGarbage /\ 0 \in Pages /\ flash \in Flash
  BY StoredFacts, HeldFacts
<1>2. ~Up
  <2>1. UNCHANGED vars => Up' = Up
    BY DEF vars, Up, history
  <2> QED
    BY <1>1, <2>1, StaysUp
<1>3. Knows(cache)
  BY <1>2, StoredFacts DEF Plain
<1>4. CASE \/ Reading \/ Save \/ FindBbtBlock \/ FindBmtBlock \/ Relocate \/ ErasePoolDone
           \/ ScanFails \/ Scan \/ NothingFound \/ Remap \/ PlaceBmt \/ BuildTable
           \/ Done \/ Refuse \/ Request \/ UNCHANGED vars
  BY <1>1, <1>3, <1>4, QuietLooks, LookKnows
<1>5. CASE ErasePool
  <2>1. Looks /\ i \in Blocks /\ (flash' = flash \/ (Wiped(i) /\ Reads(i, 0) /\ ~MarkedBad(cache')))
    BY <1>1, <1>5, ErasePoolDoes, ErasePoolLooks
  <2>2. Knows(cache') /\ (flash' = flash => Knows(cache)')
    BY <1>1, <1>3, <2>1, LookKnows
  <2>3. CASE Wiped(i) /\ Reads(i, 0) /\ ~MarkedBad(cache')
    <3>1. Unmarked(i)
      BY <2>1, <2>2, <2>3 DEF Reads, MarkedBad, Knows, Unmarked
    <3> QED
      BY <1>1, <2>1, <2>2, <2>3, <3>1, WipeKnows
  <2> QED
    BY <2>1, <2>2, <2>3
<1>6. CASE EraseBmt
  <2>1. bmtAt # 0 /\ bmtAt \in Blocks /\ Wiped(bmtAt) /\ cache' = cache
    BY <1>1, <1>6, EraseBmtDoes, HeldFacts
  <2>2. Unmarked(bmtAt)
    BY <2>1, StoredFacts DEF ClearHomes, Clear
  <2> QED
    BY <1>1, <1>3, <2>1, <2>2, WipeKnows
<1>7. CASE ProgramBmt
  <2>1. Inked(bmtAt, 0, buf.oob) /\ ToBmt /\ bmtAt \in Blocks
    BY <1>1, <1>7, ProgramInks, ProgramBmtDoes, HeldFacts DEF ToBmt
  <2> QED
    BY <1>1, <1>3, <2>1, TableMarkFree, InkKnows
<1>8. CASE ProgramBbt
  <2>1. Inked(found, 0, buf.oob) /\ Goal = "programBbt" /\ found \in Blocks
    BY <1>1, <1>8, ProgramInks, ProgramBbtDoes, HeldFacts
  <2> QED
    BY <1>1, <1>3, <2>1, TableMarkFree, InkKnows
<1>9. ~Mark
  BY <1>2, MarksElsewhere
<1>10. ~(CopyPage \/ CopyLast \/ ProgramUser \/ EraseUser)
  BY <1>1, <1>2, CopyDoes, ProgramUserDoes, EraseUserDoes DEF Up
<1> QED
  BY <1>4, <1>5, <1>6, <1>7, <1>8, <1>9, <1>10 DEF Running, SetUp, Find, Update, Serve, Reading

(* A block that is, or becomes, the home of a table. *)
Home(b) == b # 0 /\ (b \in {bmtAt, bbtAt} \/ ((PlaceBmt \/ ProgramBbt) /\ b = found))

LEMMA HomeClear ==
  ASSUME Saved, Running, NEW b \in Blocks, Home(b)
  PROVE  Clear(b) /\ Clear(b)'
<1>1. Held /\ NoGarbage /\ 0 \in Pages /\ flash \in Flash
  BY StoredFacts, HeldFacts
<1>2. Clear(b)
  BY StoredFacts DEF Home, ClearHomes, PlaceBmt, ProgramBbt
<1>3. ~PlaceBmt /\ ~ProgramBbt => b \in {bmtAt, bbtAt} \ {0}
  BY DEF Home
<1>4. CASE \/ Reading \/ Save \/ FindBbtBlock \/ FindBmtBlock \/ Relocate \/ ErasePoolDone
           \/ ScanFails \/ Scan \/ NothingFound \/ Remap \/ PlaceBmt \/ BuildTable
           \/ Done \/ Refuse \/ Request \/ UNCHANGED vars
  BY <1>1, <1>2, <1>4, QuietLooks, LookClear
<1>5. CASE ErasePool \/ EraseBmt \/ EraseUser
  <2>1. Looks /\ (flash' = flash \/ \E x \in Blocks : Wiped(x))
    BY <1>1, <1>5, ErasePoolDoes, ErasePoolLooks, EraseBmtDoes, EraseUserDoes, HeldFacts DEF Looks
  <2> QED
    BY <1>1, <1>2, <2>1, LookClear, WipeClear
<1>6. CASE ProgramBmt \/ ProgramBbt
  <2>1. \E x \in Blocks : Inked(x, 0, buf.oob)
    BY <1>1, <1>6, ProgramInks, HeldFacts
  <2>2. MarkFree(buf.oob)
    BY <1>1, <1>6, ProgramBmtDoes, ProgramBbtDoes, TableMarkFree DEF ToBmt
  <2> QED
    BY <1>1, <1>2, <2>1, <2>2, InkClear
<1>7. CASE Mark
  <2>1. mark.blk # b /\ mark.blk \in Blocks /\ mark.page \in Pages
    BY <1>1, <1>3, <1>7, MarksElsewhere, HeldFacts DEF Mark, PlaceBmt, ProgramBbt
  <2> QED
    BY <1>1, <1>2, <1>7, <2>1, MarkInks, InkClear
<1>8. CASE CopyPage \/ CopyLast
  <2>1. Vacant(found) /\ found \in Blocks /\ i \in Pages /\ pc = "copy"
    BY <1>1, <1>8, CopyDoes, HeldFacts
  <2>2. found # b
    BY <1>3, <2>1 DEF Vacant, Holds, PlaceBmt, ProgramBbt
  <2> QED
    BY <1>1, <1>2, <1>8, <2>1, <2>2, CopyInks, InkClear
<1>9. CASE ProgramUser
  <2>1. req.op = "write" /\ pc = "program" /\ req.phys \in Blocks /\ req.page \in Pages
    BY <1>1, <1>9, ProgramUserDoes, HeldFacts
  <2>2. req.phys = req.blk
    BY <1>1, <2>1, HeldFacts DEF Undisturbed, Targets
  <2>3. req.phys # b
    BY <1>3, <2>1, <2>2, StoredFacts DEF PlaceBmt, ProgramBbt
  <2> QED
    BY <1>1, <1>2, <1>9, <2>1, <2>3, ProgramInks, InkClear
<1> QED
  BY <1>2, <1>4, <1>5, <1>6, <1>7, <1>8, <1>9 DEF Running, SetUp, Find, Update, Serve, Reading

(* Where a home is found for a table no mark has been written yet. *)
LEMMA FoundClear ==
  ASSUME Saved, Scan, pc' \in {"placeBmt", "programBbt"}
  PROVE  Clear(found)'
<1>1. Held /\ NoGarbage
  BY StoredFacts, HeldFacts
<1>2. /\ pc = "scan" /\ pc' = find.then /\ Goal = find.then /\ found' = i
      /\ Vacant(i) /\ ~MarkedBad(cache') /\ i \in Blocks /\ flash' = flash
      /\ IF Holds(i) THEN cache' = cache ELSE Reads(i, 0)
  BY <1>1, ScanDoes, HeldFacts
<1>3. Goal \in {"placeBmt", "programBbt"} /\ cache'.page = <<i, 0>>
  BY <1>2 DEF Vacant, Reads
<1>4. ~Up
  <2>1. CASE Goal = "placeBmt"
    BY <1>1, <2>1, HeldFacts, StoredFacts DEF Homeless
  <2>2. CASE Goal = "programBbt"
    BY <1>1, <1>2, <2>2, HeldFacts DEF Stages, Up
  <2> QED
    BY <1>3, <2>1, <2>2
<1>5. Knows(cache')
  BY <1>1, <1>4, QuietLooks, LookKnows, StoredFacts DEF Plain
<1>6. Unmarked(i) /\ ~cache'.oob.raw /\ ~cache'.oob.later
  BY <1>2, <1>3, <1>5 DEF Knows, MarkedBad, Unmarked
<1> QED
  BY <1>2, <1>6 DEF Clear, Unmarked

LEMMA PlacedAfterScan ==
  ASSUME Saved, Running, pc' \in {"placeBmt", "programBbt"}
  PROVE  Scan \/ ScanFails \/ UNCHANGED vars
<1>1. Held
  BY StoredFacts
<1>2. ~Reading
  BY <1>1, HeldFacts, ReadingFinds DEF SettingUp
<1>3. ~(Save \/ FindBbtBlock \/ FindBmtBlock \/ Relocate \/ ErasePoolDone \/ NothingFound \/ Remap
        \/ PlaceBmt \/ BuildTable \/ Done \/ Refuse \/ Request)
  BY <1>1, SaveDoes, FindBbtBlockDoes, FindBmtBlockDoes, RelocateDoes, ErasePoolDoneDoes,
     NothingFoundDoes, RemapDoes, PlaceBmtDoes, BuildTableDoes, DoneDoes, RequestDoes
<1>4. ~(CopyPage \/ CopyLast \/ ProgramBmt \/ ProgramBbt \/ ProgramUser \/ Mark)
  BY <1>1, CopyDoes, ProgramBmtDoes, ProgramBbtDoes, ProgramUserDoes, MarkDoes
<1>5. ~(ErasePool \/ EraseBmt \/ EraseUser)
  BY <1>1, ErasePoolDoes, EraseBmtDoes, EraseUserDoes
<1> QED
  BY <1>2, <1>3, <1>4, <1>5 DEF Running, SetUp, Find, Update, Serve, Reading

LEMMA HomesNext ==
  ASSUME Saved, Running
  PROVE  \A b \in {bmtAt', bbtAt'} \ {0} : b \in Blocks /\ Home(b)
<1>1. Held /\ bmtAt \in Blocks /\ bbtAt \in Blocks /\ found \in Blocks
  BY StoredFacts, HeldFacts
<1>2. CASE Reading
  <2>1. bmtAt' = bmtAt /\ bbtAt' = bbtAt
    BY <1>1, <1>2, HeldFacts, ReadingFinds
  <2> QED
    BY <1>1, <2>1 DEF Home
<1>3. CASE ~Reading
  BY <1>1, <1>3, TablesChange DEF Home
<1> QED
  BY <1>2, <1>3

LEMMA ClearHomesNext ==
  ASSUME Saved, Running
  PROVE  ClearHomes'
<1>1. Held
  BY StoredFacts
<1>2. \A b \in {bmtAt', bbtAt'} \ {0} : Clear(b)'
  BY HomesNext, HomeClear
<1>3. pc' \in {"placeBmt", "programBbt"} /\ found' # 0 => Clear(found)'
  <2> SUFFICES ASSUME pc' \in {"placeBmt", "programBbt"}, found' # 0 PROVE Clear(found)'
    OBVIOUS
  <2>1. CASE UNCHANGED vars
    <3>1. pc' = pc /\ found' = found /\ flash' = flash /\ cache' = cache
      BY <2>1 DEF vars, control, device
    <3> QED
      BY <3>1, StoredFacts DEF ClearHomes, Clear, Unmarked
  <2>2. ~ScanFails
    BY <1>1, ScanFailsDoes
  <2> QED
    BY <2>1, <2>2, PlacedAfterScan, FoundClear
<1>4. ToBmt' \/ Goal' = "programBbt" => ~buf'.oob.raw /\ ~buf'.oob.later
  BY <1>1, BufferWritten, TableMarkFree, CleanIsMarkFree DEF MarkFree
<1> QED
  BY <1>2, <1>3, <1>4 DEF ClearHomes

-----------------------------------------------------------------------------
(***************************************************************************)
(* The tables are on the chip once the driver is up.                       *)
(***************************************************************************)
LEMMA GoalFrom ==
  ASSUME Saved, Running, ~Reading, ~UNCHANGED vars, HomesHold'
  PROVE  /\ Goal' \notin {"scanRaw", "save"}
         /\ Goal' = "saveBbt" => ProgramBmt /\ req.op = "boot"
         /\ ToBmt' => ToBmt \/ Save \/ Remap
         /\ Goal' \in {"programBbt", "build"} => ToBbt
<1> DEFINE Good == /\ Goal' \notin {"scanRaw", "save"}
                   /\ Goal' = "saveBbt" => ProgramBmt /\ req.op = "boot"
                   /\ ToBmt' => ToBmt \/ Save \/ Remap
                   /\ Goal' \in {"programBbt", "build"} => ToBbt
<1>1. Held
  BY StoredFacts
<1>2. CASE Save \/ Remap
  <2>1. Goal' = "writeBmt"
    BY <1>1, <1>2, SaveDoes, RemapDoes
  <2> QED
    BY <1>2, <2>1 DEF ToBmt
<1>3. CASE FindBbtBlock
  <2>1. Goal = "saveBbt" /\ Goal' \in {"programBbt", "build"}
    BY <1>1, <1>3, FindBbtBlockDoes
  <2> QED
    BY <2>1 DEF ToBmt, ToBbt
<1>4. CASE FindBmtBlock \/ PlaceBmt \/ EraseBmt
  <2>1. ToBmt /\ Goal' \in {"placeBmt", "programBmt"}
    BY <1>1, <1>4, FindBmtBlockDoes, PlaceBmtDoes, EraseBmtDoes DEF ToBmt
  <2> QED
    BY <2>1 DEF ToBmt
<1>5. CASE ErasePool \/ ErasePoolDone \/ Scan \/ ScanFails
  <2>1. Goal' = Goal /\ (ToBmt \/ Goal \in {"copy", "placeBmt", "programBbt"})
    BY <1>1, <1>5, ErasePoolDoes, ErasePoolDoneDoes, ScanDoes, ScanFailsDoes
  <2> QED
    BY <2>1 DEF ToBmt, ToBbt
<1>6. CASE ProgramBmt
  <2>1. \/ Goal' = "saveBbt" /\ req.op = "boot"
        \/ Goal' = "done"
        \/ pc' = "mark" /\ mark'.then = "writeBmt"
    BY <1>1, <1>6, ProgramBmtDoes
  <2> QED
    BY <1>6, <2>1 DEF ToBmt, HomesHold
<1>7. CASE ProgramBbt
  <2>1. Goal = "programBbt" /\ (Goal' = "build" \/ (pc' = "mark" /\ mark'.then = "saveBbt"))
    BY <1>1, <1>7, ProgramBbtDoes
  <2> QED
    BY <2>1 DEF ToBmt, ToBbt, HomesHold
<1>8. CASE Mark
  <2>1. Goal' \in {"relocate", "done"}
    BY <1>1, <1>8, MarkDoes, MarksElsewhere
  <2> QED
    BY <2>1 DEF ToBmt
<1>9. CASE CopyPage \/ CopyLast \/ Relocate \/ NothingFound \/ BuildTable \/ Done \/ Refuse \/ Request
           \/ ProgramUser \/ EraseUser
  <2>1. Goal' \in {"copy", "remap", "relocate", "refused", "ready", "dead", "program", "erase", "done"}
    BY <1>1, <1>9, CopyDoes, RelocateDoes, NothingFoundDoes, BuildTableDoes, DoneDoes, RequestDoes,
       ProgramUserDoes, EraseUserDoes
  <2> QED
    BY <2>1 DEF ToBmt
<1> QED
  BY <1>2, <1>3, <1>4, <1>5, <1>6, <1>7, <1>8, <1>9
  DEF Running, SetUp, Find, Update, Serve, Reading

(* Only the end of set-up brings the driver up. *)
LEMMA ComesUp ==
  ASSUME Saved, Running, ~UNCHANGED vars, Up', ~Up
  PROVE  BuildTable
<1>1. Held /\ req.op = "boot" /\ pc # "ready"
  BY StoredFacts DEF Up
<1>2. ~Reading
  BY <1>1, HeldFacts, ReadingFinds DEF Up, SettingUp
<1>3. ~Request /\ ~Done
  BY <1>1, RequestDoes, DoneDoes DEF Up
<1>4. ~Refuse
  BY <1>1, DoneDoes DEF Up
<1>5. CASE BuildTable
  BY <1>5
<1>6. CASE ~BuildTable
  <2>1. req' = req
    BY <1>2, <1>3, <1>4, <1>6 DEF Running, SetUp, Find, Update, Serve, Reading, vars, history,
       Save, FindBbtBlock, ProgramBbt, ErasePool, ErasePoolDone, Scan, ScanFails,
       Relocate, CopyPage, CopyLast, NothingFound, Remap, FindBmtBlock, PlaceBmt, EraseBmt,
       ProgramBmt, Mark, ProgramUser, EraseUser
  <2>2. pc' = "ready"
    BY <1>1, <2>1 DEF Up
  <2>3. ~(Save \/ FindBbtBlock \/ FindBmtBlock \/ Relocate \/ ErasePoolDone \/ NothingFound \/ Remap
          \/ PlaceBmt \/ Scan \/ ScanFails)
    BY <1>1, <2>2, SaveDoes, FindBbtBlockDoes, FindBmtBlockDoes, RelocateDoes, ErasePoolDoneDoes,
       NothingFoundDoes, RemapDoes, PlaceBmtDoes, ScanDoes, ScanFailsDoes
  <2>4. ~(CopyPage \/ CopyLast \/ ProgramBmt \/ ProgramBbt \/ ProgramUser \/ Mark)
    BY <1>1, <2>2, CopyDoes, ProgramBmtDoes, ProgramBbtDoes, ProgramUserDoes, MarkDoes
  <2>5. ~(ErasePool \/ EraseBmt \/ EraseUser)
    BY <1>1, <2>2, ErasePoolDoes, EraseBmtDoes, EraseUserDoes
  <2> QED
    BY <1>2, <1>3, <1>4, <1>6, <2>3, <2>4, <2>5 DEF Running, SetUp, Find, Update, Serve, Reading
<1> QED
  BY <1>5, <1>6

LEMMA HomesStay ==
  ASSUME Saved, Running, HomesHold'
  PROVE  /\ bmtAt' = bmtAt \/ (PlaceBmt /\ bmtAt = 0 /\ bmtAt' = found)
         /\ bbtAt' = bbtAt \/ (ProgramBbt /\ bbtAt = 0 /\ bbtAt' = found)
<1>1. Held
  BY StoredFacts
<1>2. CASE Reading
  BY <1>1, <1>2, HeldFacts, ReadingFinds
<1>3. CASE PlaceBmt
  BY <1>1, <1>3, PlaceBmtDoes
<1>4. CASE ProgramBmt
  BY <1>1, <1>4, ProgramBmtDoes DEF HomesHold
<1>5. CASE ProgramBbt
  <2>1. bmtAt' = bmtAt /\ ToBbt /\ (bbtAt' = found \/ (pc' = "mark" /\ mark'.then = "saveBbt"))
    BY <1>1, <1>5, ProgramBbtDoes DEF ToBbt
  <2> QED
    BY <1>1, <1>5, <2>1, HeldFacts DEF Homeless, HomesHold
<1>6. CASE EraseBmt \/ ErasePool \/ EraseUser \/ Mark \/ CopyPage \/ CopyLast \/ ProgramUser
  BY <1>1, <1>6, EraseBmtDoes, ErasePoolDoes, EraseUserDoes, MarkDoes, CopyDoes, ProgramUserDoes
<1>7. CASE \/ Save \/ FindBbtBlock \/ FindBmtBlock \/ Relocate \/ ErasePoolDone \/ ScanFails \/ Scan
           \/ NothingFound \/ Remap \/ BuildTable \/ Done \/ Refuse \/ Request
  BY <1>1, <1>7, SaveDoes, FindBbtBlockDoes, FindBmtBlockDoes, RelocateDoes, ErasePoolDoneDoes,
     ScanFailsDoes, ScanDoes, NothingFoundDoes, RemapDoes, BuildTableDoes, DoneDoes, RequestDoes
<1>8. CASE UNCHANGED vars
  BY <1>8 DEF vars, tables
<1> QED
  BY <1>2, <1>3, <1>4, <1>5, <1>6, <1>7, <1>8 DEF Running, SetUp, Find, Update, Serve, Reading

(* Only its own erase and its own program touch a table. *)
LEMMA HomeData ==
  ASSUME Saved, Running, NEW b \in {bmtAt, bbtAt} \ {0}, EraseBmt \/ ProgramBmt => b # bmtAt
  PROVE  flash'[b][0].data = flash[b][0].data
<1>1. /\ Held /\ flash \in Flash /\ 0 \in Pages /\ b \in Blocks /\ b \in Pool
      /\ ~Mapped(b) /\ ~Vacant(b) /\ Holds(b)
  BY StoredFacts, HeldFacts DEF Holds
<1>2. CASE \/ Reading \/ Save \/ FindBbtBlock \/ FindBmtBlock \/ Relocate \/ ErasePoolDone
           \/ ScanFails \/ Scan \/ NothingFound \/ Remap \/ PlaceBmt \/ BuildTable
           \/ Done \/ Refuse \/ Request \/ UNCHANGED vars
  BY <1>1, <1>2, QuietLooks
<1>3. CASE ErasePool
  <2>1. i \in Blocks /\ (flash' = flash \/ (Wiped(i) /\ ~Holds(i)))
    BY <1>1, <1>3, ErasePoolDoes DEF ErasePool, device
  <2> QED
    BY <1>1, <2>1, WipedFacts
<1>4. CASE EraseBmt
  <2>1. Wiped(bmtAt) /\ bmtAt \in Blocks /\ b # bmtAt
    BY <1>1, <1>4, EraseBmtDoes, HeldFacts
  <2> QED
    BY <1>1, <2>1, WipedFacts
<1>5. CASE EraseUser
  <2>1. Up /\ req.log \in Logical /\ req.phys = Physical(req.log) /\ Wiped(req.phys) /\ req.phys \in Blocks
    BY <1>1, <1>5, EraseUserDoes, HeldFacts
  <2>2. req.phys # b
    BY <1>1, <2>1, PhysicalIsNot
  <2> QED
    BY <1>1, <2>1, <2>2, WipedFacts
<1>6. CASE ProgramBmt
  <2>1. bmtAt \in Blocks /\ Inked(bmtAt, 0, buf.oob)
    BY <1>1, <1>6, ProgramInks, HeldFacts
  <2> QED
    BY <1>1, <1>6, <2>1 DEF Inked
<1>7. CASE ProgramBbt
  <2>1. Vacant(found) /\ Inked(found, 0, buf.oob)
    BY <1>1, <1>7, ProgramInks, ProgramBbtDoes
  <2> QED
    BY <1>1, <2>1 DEF Inked
<1>8. CASE Mark
  <2>1. mark.blk # b /\ Inked(mark.blk, mark.page, MarkOob(mark.kind))
    BY <1>1, <1>8, MarksElsewhere, MarkInks
  <2> QED
    BY <1>1, <2>1 DEF Inked
<1>9. CASE CopyPage \/ CopyLast
  <2>1. Vacant(found) /\ \E o : Inked(found, i, WithIndex(o))
    BY <1>1, <1>9, CopyInks, CopyDoes
  <2> QED
    BY <1>1, <2>1 DEF Inked
<1>10. CASE ProgramUser
  <2>1. req.op = "write" /\ Inked(req.phys, req.page, req.oob)
    BY <1>1, <1>10, ProgramInks, ProgramUserDoes
  <2>2. req.phys = req.blk
    BY <1>1, <2>1, HeldFacts DEF Undisturbed, Targets
  <2>3. req.phys # b
    BY <2>1, <2>2, StoredFacts
  <2> QED
    BY <1>1, <2>1, <2>3 DEF Inked
<1> QED
  BY <1>2, <1>3, <1>4, <1>5, <1>6, <1>7, <1>8, <1>9, <1>10
  DEF Running, SetUp, Find, Update, Serve, Reading

(* Set-up finds no table on a new chip, and lists system blocks only. *)
LEMMA ReadingBbt ==
  ASSUME Saved, Reading
  PROVE  /\ pc' = "pool" => bbt' = <<>>
         /\ \A m \in DOMAIN bbt' : bbt'[m] < sys'
         /\ pc' \in {"scanRaw", "save"} => needBbt'
<1>1. /\ Held /\ bbt \in Seq(Blocks) /\ i \in Int /\ sys \in Blocks /\ Blocks \subseteq Nat
      /\ Erased \notin BbtPage
  BY StoredFacts, HeldFacts, ErasedAssumption DEF TypeOK
<1>2. /\ pc \in SettingUp /\ Goal = pc
      /\ \A m \in DOMAIN bbt : bbt[m] < sys
      /\ pc = "pool" => bbt = <<>>
      /\ pc = "scanRaw" => needBbt
  <2>1. pc \in SettingUp
    BY <1>1, HeldFacts, ReadingFinds
  <2> QED
    BY <2>1, GoalIs, StoredFacts DEF SettingUp, Written
<1>3. CASE CalcPool
  <2>1. pc = "pool" /\ bbt' = bbt /\ pc' \in {"pool", "dead", "loadBmt"}
    BY <1>3 DEF CalcPool, tables
  <2> QED
    BY <1>2, <2>1
<1>4. CASE LoadBmt \/ LoadBmtFails \/ CheckRaw \/ Reconstruct \/ ReconstructDone
  <2>1. bbt' = bbt /\ sys' = sys
        /\ pc' \in {"loadBmt", "checkRaw", "reconstruct", "loadBbt", "mark"}
    BY <1>4 DEF LoadBmt, LoadBmtFails, CheckRaw, Reconstruct, ReconstructDone, tables, layout, MarkThen
  <2> QED
    BY <1>2, <2>1
<1>5. CASE LoadBbt
  <2>1. pc = "loadBbt" /\ sys' = sys /\ i < NBlocks /\ cache' = Read(flash, cache, i, 0)
    BY <1>5 DEF LoadBbt, layout, Load
  <2>2. i \in Blocks /\ 0 \in Pages
    BY <1>1, <2>1, HeldFacts, ChipFacts DEF TypeInv, Counters, At, Blocks
  <2>3. cache'.data = Erased
    BY <1>1, <1>2, <2>1, <2>2, HeldFacts, BlankRead DEF Undisturbed
  <2>4. ~ValidBbt(cache'.data)
    BY <1>1, <2>3 DEF ValidBbt
  <2>5. bbt' = bbt /\ pc' = pc
    BY <1>5, <2>4 DEF LoadBbt
  <2> QED
    BY <1>2, <2>1, <2>5
<1>6. CASE LoadBbtFails
  <2>1. bbt' = bbt /\ sys' = sys /\ needBbt' /\ pc' = "scanRaw"
    BY <1>6 DEF LoadBbtFails, tables
  <2> QED
    BY <1>2, <2>1
<1>7. CASE ScanRaw
  <2>1. /\ pc = "scanRaw" /\ pc' = pc /\ i < sys /\ sys' = sys /\ needBbt' = needBbt
        /\ bbt' = bbt \/ bbt' = Append(bbt, i)
    BY <1>7 DEF ScanRaw, layout
  <2>2. i \in Blocks
    BY <1>1, <2>1, HeldFacts, ChipFacts DEF TypeInv, Counters, At, Blocks
  <2>3. \A m \in DOMAIN bbt' : bbt'[m] < sys
    <3>1. CASE bbt' = bbt
      BY <1>2, <3>1
    <3>2. CASE bbt' = Append(bbt, i)
      <4>1. \A m \in DOMAIN bbt' : (m \in DOMAIN bbt /\ bbt'[m] = bbt[m]) \/ bbt'[m] = i
        BY <1>1, <2>2, <3>2
      <4> QED
        BY <1>2, <2>1, <4>1
    <3> QED
      BY <2>1, <3>1, <3>2
  <2> QED
    BY <1>2, <2>1, <2>3
<1>8. CASE ScanRawDone
  <2>1. bbt' = bbt /\ sys' = sys /\ pc = "scanRaw" /\ pc' = "save" /\ needBbt' = needBbt
    BY <1>8 DEF ScanRawDone, tables, layout
  <2> QED
    BY <1>2, <2>1
<1> QED
  BY <1>3, <1>4, <1>5, <1>6, <1>7, <1>8 DEF Reading

LEMMA BbtKept ==
  ASSUME Saved, Running, ~Reading
  PROVE  bbt' = bbt /\ sys' = sys /\ needBbt' = needBbt /\ (pc' = "pool" => pc = "pool")
<1>1. Held
  BY StoredFacts
<1>2. pc' = "pool" => pc = "pool"
  BY <1>1, FoundNext DEF Reading
<1>3. bbt' = bbt /\ sys' = sys /\ needBbt' = needBbt
  BY DEF Running, SetUp, Find, Update, Serve, Reading, vars, tables, layout,
     Save, FindBbtBlock, ProgramBbt, BuildTable, ErasePool, ErasePoolDone, Scan, ScanFails,
     Relocate, CopyPage, CopyLast, NothingFound, Remap, FindBmtBlock, PlaceBmt, EraseBmt,
     ProgramBmt, Mark, ProgramUser, EraseUser, Done, Refuse, Request, BeginErase, BeginWrite, UserRead
<1> QED
  BY <1>2, <1>3

LEMMA GoalSame ==
  ASSUME UNCHANGED vars
  PROVE  /\ Goal' = Goal /\ (ToBmt' <=> ToBmt) /\ (ToBbt' <=> ToBbt) /\ (Up' <=> Up)
         /\ flash' = flash /\ UNCHANGED <<bmt, bmtAt, bbt, bbtAt, sys, pc, needBbt, req>>
<1>1. UNCHANGED <<pc, find, mark, req, flash, bmt, bmtAt, bbt, bbtAt, sys, needBbt>>
  BY DEF vars, control, device, tables, layout, history
<1>2. Goal' = Goal
  BY <1>1 DEF Goal, At
<1> QED
  BY <1>1, <1>2 DEF ToBmt, ToBbt, Up

LEMMA NeededNext ==
  ASSUME Saved, Running, HomesHold'
  PROVE  Goal' \in {"scanRaw", "save", "saveBbt"} \/ (ToBmt' /\ ~Up') => needBbt'
<1>1. /\ Held
      /\ Goal \in {"scanRaw", "save", "saveBbt"} \/ (ToBmt /\ ~Up) => needBbt
  BY StoredFacts DEF Written
<1>2. CASE Reading
  <2>1. pc' \in SettingUp \cup {"dead", "save"}
    BY <1>1, <1>2, HeldFacts, ReadingFinds
  <2>2. Goal' = pc' /\ ~ToBmt' /\ Goal' # "saveBbt"
    BY <2>1, GoalIs DEF SettingUp, ToBmt
  <2> QED
    BY <1>2, <2>2, ReadingBbt
<1>3. CASE UNCHANGED vars
  BY <1>1, <1>3, GoalSame
<1>4. CASE ~Reading /\ ~UNCHANGED vars
  <2>1. needBbt' = needBbt /\ Goal' \notin {"scanRaw", "save"}
    BY <1>4, BbtKept, GoalFrom
  <2>2. Goal' = "saveBbt" => needBbt
    <3> SUFFICES ASSUME Goal' = "saveBbt" PROVE needBbt
      OBVIOUS
    <3>1. ProgramBmt /\ req.op = "boot"
      BY <1>4, GoalFrom
    <3>2. ToBmt /\ ~Up
      BY <1>1, <3>1, ProgramBmtDoes DEF ToBmt, Up
    <3> QED
      BY <1>1, <3>2
  <2>3. ToBmt' /\ ~Up' => needBbt
    <3> SUFFICES ASSUME ToBmt', ~Up' PROVE needBbt
      OBVIOUS
    <3>1. ~Up
      BY <1>1, <1>4, StaysUp
    <3>2. ~Remap
      BY <1>1, <3>1, RemapDoes DEF Up
    <3>3. Save => Goal = "save"
      BY <1>1, SaveDoes
    <3> QED
      BY <1>1, <1>4, <3>1, <3>2, <3>3, GoalFrom
  <2> QED
    BY <2>1, <2>2, <2>3
<1> QED
  BY <1>2, <1>3, <1>4

(* The BMT is on the chip, but for the time it is being written. *)
LEMMA BmtNext ==
  ASSUME Saved, Running, HomesHold', Up' \/ ToBbt' \/ Goal' = "build"
  PROVE  bmtAt' # 0 /\ (ToBmt' \/ flash'[bmtAt'][0].data = [bmt |-> bmt'])
<1>1. Held /\ 0 \in Pages /\ bmtAt \in Blocks
  BY StoredFacts, HeldFacts
<1>2. ASSUME Up \/ ToBbt \/ Goal = "build"
      PROVE  bmtAt # 0 /\ (ToBmt \/ flash[bmtAt][0].data = [bmt |-> bmt])
  BY <1>2, StoredFacts DEF Written
<1>3. CASE ProgramBmt
  <2>1. PICK r : /\ Wrote(bmtAt, 0, Want(0), r) /\ Want(0) = [bmt |-> bmt]
                 /\ bmtAt # 0 /\ bmt' = bmt
                 /\ (r = "ok" /\ bmtAt' = bmtAt) \/ (pc' = "mark" /\ mark'.then = "writeBmt")
    BY <1>1, <1>3, ProgramBmtDoes DEF Same
  <2>2. r = "ok" /\ bmtAt' = bmtAt
    BY <2>1 DEF HomesHold
  <2>3. [bmt |-> bmt] # Erased
    BY <1>1, HeldFacts, ErasedAssumption DEF BmtPage, TypeOK
  <2>4. flash'[bmtAt][0].data = [bmt |-> bmt]
    BY <2>1, <2>2, <2>3 DEF Wrote
  <2> QED
    BY <2>1, <2>2, <2>4
<1>4. CASE UNCHANGED vars
  BY <1>2, <1>4, GoalSame
<1>5. CASE ~ProgramBmt /\ ~UNCHANGED vars
  <2>1. ~Reading
    <3>1. Reading => pc' \in SettingUp \cup {"dead", "save"} /\ req' = req /\ req.op = "boot"
      BY <1>1, HeldFacts, ReadingFinds
    <3>2. Reading => Goal' = pc'
      BY <3>1, GoalIs DEF SettingUp
    <3> QED
      BY <3>1, <3>2 DEF SettingUp, Up, ToBbt
  <2>2. Up \/ ToBbt \/ Goal = "build"
    <3>1. CASE Up'
      BY <1>1, <1>5, <3>1, ComesUp, BuildTableDoes
    <3>2. CASE ToBbt' \/ Goal' = "build"
      BY <1>5, <2>1, <3>2, GoalFrom DEF ToBbt
    <3> QED
      BY <3>1, <3>2
  <2>3. bmtAt # 0 /\ (ToBmt \/ flash[bmtAt][0].data = [bmt |-> bmt])
    BY <1>2, <2>2
  <2>4. bmtAt' = bmtAt
    BY <2>3, HomesStay
  <2>5. CASE ToBmt'
    BY <2>3, <2>4, <2>5
  <2>6. CASE ~ToBmt'
    <3>1. ~Remap /\ ~EraseBmt
      BY <1>1, <2>6, RemapDoes, EraseBmtDoes DEF ToBmt
    <3>2. bmt' = bmt
      BY <2>1, <3>1, TablesChange
    <3>3. flash'[bmtAt][0].data = flash[bmtAt][0].data
      BY <1>5, <2>3, <3>1, HomeData
    <3>4. ~ToBmt
      <4> SUFFICES ASSUME ToBmt PROVE FALSE
        OBVIOUS
      <4>1. ~(Save \/ FindBbtBlock \/ BuildTable \/ Relocate \/ CopyPage \/ CopyLast \/ Remap
              \/ Done \/ Refuse \/ Request \/ ProgramUser \/ EraseUser \/ ProgramBbt)
        BY <1>1, SaveDoes, FindBbtBlockDoes, BuildTableDoes, RelocateDoes, CopyDoes, RemapDoes,
           DoneDoes, RequestDoes, ProgramUserDoes, EraseUserDoes, ProgramBbtDoes DEF ToBmt, Copying
      <4>2. ~(FindBmtBlock \/ PlaceBmt \/ EraseBmt \/ ErasePool \/ ErasePoolDone \/ Scan \/ ScanFails)
        BY <1>1, <2>6, FindBmtBlockDoes, PlaceBmtDoes, EraseBmtDoes, ErasePoolDoes, ErasePoolDoneDoes,
           ScanDoes, ScanFailsDoes DEF ToBmt
      <4>3. ~Mark
        BY <1>1, MarkDoes, MarksElsewhere DEF ToBmt
      <4>4. ~NothingFound
        <5>1. NothingFound => Goal = "placeBmt"
          <6>1. NothingFound => pc \in {"copy", "remap", "placeBmt", "programBbt"}
            BY <1>1, NothingFoundDoes
          <6> QED
            BY <6>1, GoalIs DEF ToBmt
        <5> QED
          BY <1>1, <2>3, <5>1, HeldFacts DEF Homeless
      <4> QED
        BY <1>5, <2>1, <4>1, <4>2, <4>3, <4>4 DEF Running, SetUp, Find, Update, Serve, Reading
    <3> QED
      BY <2>3, <2>4, <3>2, <3>3, <3>4
  <2> QED
    BY <2>5, <2>6
<1> QED
  BY <1>3, <1>4, <1>5

LEMMA BbtNext ==
  ASSUME Saved, Running, HomesHold', Up' \/ Goal' = "build"
  PROVE  bbtAt' # 0 /\ flash'[bbtAt'][0].data = [bbt |-> bbt']
<1>1. Held /\ 0 \in Pages /\ bbtAt \in Blocks
  BY StoredFacts, HeldFacts
<1>2. ASSUME Up \/ Goal = "build"
      PROVE  bbtAt # 0 /\ flash[bbtAt][0].data = [bbt |-> bbt]
  BY <1>2, StoredFacts DEF Written
<1>3. CASE ProgramBbt
  <2>1. PICK r : /\ Wrote(found, 0, Want(0), r) /\ Want(0) = [bbt |-> bbt]
                 /\ found # 0 /\ bbt' = bbt
                 /\ (r = "ok" /\ bbtAt' = found) \/ (pc' = "mark" /\ mark'.then = "saveBbt")
    BY <1>1, <1>3, ProgramBbtDoes DEF Same
  <2>2. r = "ok" /\ bbtAt' = found
    BY <2>1 DEF HomesHold
  <2>3. [bbt |-> bbt] # Erased
    BY <1>1, HeldFacts, ErasedAssumption DEF BbtPage, TypeOK
  <2>4. flash'[found][0].data = [bbt |-> bbt]
    BY <2>1, <2>2, <2>3 DEF Wrote
  <2> QED
    BY <2>1, <2>2, <2>4
<1>4. CASE UNCHANGED vars
  BY <1>2, <1>4, GoalSame
<1>5. CASE ~ProgramBbt /\ ~UNCHANGED vars
  <2>1. ~Reading
    <3>1. Reading => pc' \in SettingUp \cup {"dead", "save"} /\ req' = req /\ req.op = "boot"
      BY <1>1, HeldFacts, ReadingFinds
    <3>2. Reading => Goal' = pc'
      BY <3>1, GoalIs DEF SettingUp
    <3> QED
      BY <3>1, <3>2 DEF SettingUp, Up
  <2>2. Up \/ Goal = "build"
    <3>1. CASE Up'
      BY <1>1, <1>5, <3>1, ComesUp, BuildTableDoes
    <3>2. CASE Goal' = "build"
      <4>1. FindBbtBlock => needBbt
        BY <1>1, FindBbtBlockDoes, StoredFacts DEF Written
      <4>2. FindBbtBlock => Goal' # "build"
        <5>1. FindBbtBlock => FindThen(FALSE, "programBbt")
          BY <4>1 DEF FindBbtBlock
        <5>2. FindBbtBlock => pc' \in {"scan", "erasePool"} /\ find'.then = "programBbt"
          BY <5>1, FindThenIs
        <5> QED
          BY <5>2, GoalIs
      <4>3. ToBbt
        BY <1>5, <2>1, <3>2, GoalFrom
      <4>4. ~(Save \/ BuildTable \/ Relocate \/ CopyPage \/ CopyLast \/ Remap \/ NothingFound
              \/ Done \/ Refuse \/ Request \/ ProgramUser \/ EraseUser \/ ProgramBmt \/ Mark)
        BY <1>1, <3>2, SaveDoes, BuildTableDoes, RelocateDoes, CopyDoes, RemapDoes, NothingFoundDoes,
           DoneDoes, RequestDoes, ProgramUserDoes, EraseUserDoes, ProgramBmtDoes, MarkDoes
      <4>5. ~(FindBmtBlock \/ PlaceBmt \/ EraseBmt \/ ErasePool \/ ErasePoolDone \/ Scan \/ ScanFails)
        BY <1>1, <3>2, FindBmtBlockDoes, PlaceBmtDoes, EraseBmtDoes, ErasePoolDoes, ErasePoolDoneDoes,
           ScanDoes, ScanFailsDoes DEF ToBmt
      <4> QED
        BY <1>5, <2>1, <3>2, <4>2, <4>4, <4>5 DEF Running, SetUp, Find, Update, Serve, Reading
    <3> QED
      BY <3>1, <3>2
  <2>3. bbtAt # 0 /\ flash[bbtAt][0].data = [bbt |-> bbt]
    BY <1>2, <2>2
  <2>4. bbtAt' = bbtAt /\ bbt' = bbt
    BY <1>5, <2>1, <2>3, HomesStay, BbtKept
  <2>5. bbtAt # bmtAt
    BY <1>1, <2>3, HeldFacts DEF Undisturbed, InUseApart
  <2>6. flash'[bbtAt][0].data = flash[bbtAt][0].data
    BY <2>3, <2>5, HomeData
  <2> QED
    BY <2>3, <2>4, <2>6
<1> QED
  BY <1>3, <1>4, <1>5

LEMMA WritesElsewhere ==
  ASSUME Saved, Running, HomesHold', req'.op = "write"
  PROVE  req'.blk \notin {bmtAt', bbtAt'}
<1>1. Held /\ 0 \in Pages
  BY StoredFacts, HeldFacts
<1>2. CASE req' = req
  <2>1. bmtAt # 0 /\ bbtAt # 0 /\ req.blk \notin {bmtAt, bbtAt}
    BY <1>2, StoredFacts
  <2> QED
    BY <1>2, <2>1, HomesStay
<1>3. CASE req' # req
  <2>1. ~Reading /\ ~Done /\ ~Refuse
    BY <1>1, <1>3, HeldFacts, ReadingFinds, DoneDoes
  <2>2. Request
    BY <1>3, <2>1 DEF Running, SetUp, Find, Update, Serve, Reading, vars, history,
       Save, FindBbtBlock, ProgramBbt, BuildTable, ErasePool, ErasePoolDone, Scan, ScanFails,
       Relocate, CopyPage, CopyLast, NothingFound, Remap, FindBmtBlock, PlaceBmt, EraseBmt,
       ProgramBmt, Mark, ProgramUser, EraseUser
  <2>3. Up /\ bmtAt' = bmtAt /\ bbtAt' = bbtAt
    BY <1>1, <2>2, RequestDoes
  <2>4. PICK l \in Logical : req'.blk = Physical(l)
    <3>1. ASSUME NEW l \in Logical, BeginErase(l) PROVE req'.op = "erase"
      BY <3>1 DEF BeginErase, None
    <3>2. ASSUME NEW l \in Logical, NEW p \in Pages, NEW v \in Values, BeginWrite(l, p, v)
          PROVE  req'.blk = Physical(l)
      BY <3>2 DEF BeginWrite
    <3>3. ASSUME NEW l \in Logical, NEW p \in Pages, UserRead(l, p) PROVE req' = req
      BY <3>3 DEF UserRead, history
    <3> QED
      BY <1>3, <2>2, <3>1, <3>2, <3>3 DEF Request
  <2>5. \A b \in {bmtAt, bbtAt} : b \in Pool /\ ~Mapped(b)
    BY <2>3, StoredFacts
  <2> QED
    BY <1>1, <2>3, <2>4, <2>5, PhysicalIsNot
<1> QED
  BY <1>2, <1>3

LEMMA WrittenNext ==
  ASSUME Saved, Running, HomesHold'
  PROVE  Written'
<1>1. pc = "pool" => bbt = <<>>
  BY StoredFacts DEF Written
<1>2. \A m \in DOMAIN bbt : bbt[m] < sys
  BY StoredFacts DEF Written
<1>3. (pc' = "pool" => bbt' = <<>>) /\ \A m \in DOMAIN bbt' : bbt'[m] < sys'
  <2>1. CASE Reading
    BY <2>1, ReadingBbt
  <2>2. CASE ~Reading
    BY <1>1, <1>2, <2>2, BbtKept
  <2> QED
    BY <2>1, <2>2
<1> QED
  BY <1>3, NeededNext, BmtNext, BbtNext, WritesElsewhere DEF Written

LEMMA StoredNext ==
  ASSUME Saved, Running, HomesHold'
  PROVE  Stored'
  BY SignedNext, ClearHomesNext, PlainNext, WrittenNext DEF Stored

LEMMA StoredInit == Init => Stored
<1> SUFFICES ASSUME Init PROVE Stored
  OBVIOUS
<1>1. /\ pc = "pool" /\ cache = ColdCache /\ req = None
      /\ bmtAt = 0 /\ bbt = <<>> /\ bbtAt = 0
  BY DEF Init, PowerOn
<1>2. /\ Goal = "pool" /\ req.op = "boot" /\ ~Up /\ ~ToBmt /\ ~ToBbt
      /\ \A b : cache.page # <<b, 0>>
  BY <1>1, GoalIs DEF None, ColdCache, NoPage, Up, ToBmt, ToBbt
<1>3. \A b \in Blocks : flash[b][0].data = Erased
  BY IntactInit, UndisturbedInit, ChipFacts, <1>1 DEF Undisturbed, BlankChip, At, SettingUp
<1>4. Signed
  BY <1>3, ErasedAssumption DEF Signed
<1>5. ClearHomes
  BY <1>1, <1>2 DEF ClearHomes
<1>6. Plain
  BY <1>2 DEF Plain, Knows
<1>7. Written
  BY <1>1, <1>2 DEF Written
<1> QED
  BY <1>4, <1>5, <1>6, <1>7 DEF Stored

LEMMA StoredIsSaved ==
  ASSUME Held, Stored
  PROVE  TablesSaved
<1> SUFFICES ASSUME pc = "ready"
             PROVE  /\ SavedBmt # {} /\ flash[Last(SavedBmt)][0].data.bmt = bmt
                    /\ SavedBbt # {} /\ flash[First(SavedBbt)][0].data.bbt = bbt
  BY DEF TablesSaved
<1>1. Signed /\ ClearHomes /\ Written /\ Up /\ Goal = "ready"
  BY GoalIs DEF Stored, Up
<1>2. /\ bmtAt # 0 /\ flash[bmtAt][0].data = [bmt |-> bmt]
      /\ bbtAt # 0 /\ flash[bbtAt][0].data = [bbt |-> bbt]
      /\ \A m \in DOMAIN bbt : bbt[m] < sys
  BY <1>1 DEF Written, ToBmt
<1>3. /\ bmtAt \in Pool /\ bbtAt \in Pool /\ Pool \subseteq Blocks
      /\ \A m \in DOMAIN bmt : bmt[m].mapped \in Pool
      /\ bmt \in Seq(Entry) /\ bbt \in Seq(Blocks)
  BY <1>2, HeldFacts DEF Ranges, TypeOK
<1>4. Unmarked(bmtAt) /\ Unmarked(bbtAt)
  BY <1>1, <1>2 DEF ClearHomes, Clear
<1>5. ValidBmt(flash[bmtAt][0].data) /\ ValidBbt(flash[bbtAt][0].data)
  BY <1>2, <1>3 DEF ValidBmt, ValidBbt, BmtPage, BbtPage
<1>6. SavedBmt = {bmtAt} /\ SavedBbt = {bbtAt}
  BY <1>1, <1>3, <1>4, <1>5 DEF SavedBmt, SavedBbt, Signed, ValidBmt, ValidBbt
<1>7. Last({bmtAt}) = bmtAt /\ First({bbtAt}) = bbtAt
  <2>1. bmtAt <= bmtAt /\ bbtAt <= bbtAt
    BY <1>3, HeldFacts
  <2> QED
    BY <2>1 DEF Last, First
<1> QED
  BY <1>2, <1>6, <1>7

(* Until power is lost an idle driver has both tables on the chip as they  *)
(* are in memory, each in one block that no mark hides from the next       *)
(* set-up.  Besides the conditions of ReadBackUntilPowerLoss it needs that *)
(* no program of a table fails and no data of the users looks like a       *)
(* table.  (write_bmt_to_flash, write_bbt_to_flash, load_bmt_data,         *)
(* load_bbt_data.)                                                         *)
THEOREM TablesSavedUntilPowerLoss ==
  ASSUME CleanFailures, TablesTold
  PROVE  Spec /\ [](crashes = 0 /\ MarkIsSeen /\ HomesHold) => []TablesSaved
<1> DEFINE J == crashes = 0 => Intact /\ Stored
<1>1. Init => IInv /\ J
  BY TypeInit, UndisturbedInit, IntactInit, StoredInit DEF IInv, FirstPower
<1>2. IInv /\ J /\ (crashes = 0 /\ MarkIsSeen /\ HomesHold) /\ HomesHold' /\ [Next]_vars => J'
  <2> SUFFICES ASSUME IInv, Intact, Stored, crashes = 0, MarkIsSeen, HomesHold, HomesHold', [Next]_vars,
                      crashes' = 0
               PROVE  Intact' /\ Stored'
    OBVIOUS
  <2>1. Held
    BY DEF Held, IInv, FirstPower
  <2>2. ~PowerCut
    BY DEF PowerCut
  <2>3. Running
    BY <2>2 DEF Running, Next, Driver
  <2> QED
    BY <2>1, <2>3, IntactNext, StoredNext DEF Saved
<1>3. IInv /\ J /\ (crashes = 0 /\ MarkIsSeen /\ HomesHold) => TablesSaved
  BY StoredIsSaved DEF Held, IInv, FirstPower
<1>4. (crashes = 0 /\ MarkIsSeen /\ HomesHold)' => HomesHold'
  OBVIOUS
<1> HIDE DEF J
<1> QED
  BY <1>1, <1>2, <1>3, <1>4, InvariantNext, PTL DEF Spec
=============================================================================
