------------------------- MODULE BulkUpgradeProofs --------------------------
(***************************************************************************)
(* What the two multicast protocols write, for any files, any memory and    *)
(* any number of lost, repeated, reordered and damaged packets.             *)
(*                                                                         *)
(* The order of the packets is not what makes the written image one file:   *)
(* the collection may hold pieces of several.  The checksum over the memory *)
(* does (Agreed), and that nothing is written before it agrees              *)
(* (WrittenOnce): each path to the flash passes it, but those that leave    *)
(* the boot loader and tclinux alone, a romfile over its part excepted.     *)
(* The parameters of the board go with the boot loader's erase and come     *)
(* back with its write if that reaches their place (ParametersStay).  The   *)
(* order is what bounds the count of pieces: it is the way around the       *)
(* circle from the first piece (Around), also when files of several         *)
(* lengths are mixed and the count passes the last piece of the first of    *)
(* them.                                                                    *)
(***************************************************************************)
EXTENDS BulkUpgrade, TLAPS

Content == Files \cup {NoFile, TftpData} \cup {Damaged(f) : f \in Files}

MemType == mem \in [Places -> Content]

SenderType == cur \in Files /\ pos \in 1..cur.len

FlagTypes ==
    /\ build \in {"upgrade", "boot"}
    /\ started \in BOOLEAN /\ finish \in BOOLEAN /\ badimg \in BOOLEAN

\* Nothing is written before the end of a collection, and then it is one image.
WrittenOnce ==
    /\ ~finish => flash = [p \in Parts |-> Old]
    /\ WrittenIsOneImage /\ ParametersStay

\* The pieces of a collection: from its start up to old, or around the circle to old.
Circle(start, old, recv_, max) ==
    /\ start \in 1..max /\ max \in Places /\ old \in 0..Pieces
    /\ \/ /\ old >= start - 1 /\ recv_ = old - start + 1
          /\ start = 1 => old < max
       \/ /\ old < start - 1 /\ recv_ = max - start + 1 + old

CountTypes ==
    /\ startSeq \in -1..Pieces /\ oldSeq \in -1..Pieces
    /\ maxSeq \in 0..Pieces /\ recv \in 0..Pieces

Around ==
    /\ build = "upgrade" /\ ~finish /\ startSeq # -1 =>
           Circle(startSeq, oldSeq, recv, maxSeq)
    /\ build = "boot" /\ ~finish =>
           (oldSeq = -1 /\ recv = 0) \/ (oldSeq \in 0..Pieces /\ recv = oldSeq)

IInv == MemType /\ SenderType /\ FlagTypes /\ WrittenOnce /\ CountTypes /\ Around

-----------------------------------------------------------------------------
(* Files, packets and the memory.                                          *)

\* What the network brings: pieces of files, damaged or not.
Packets == Files \cup {Damaged(f) : f \in Files}

LEMMA SizeFacts ==
    /\ Pieces \in Nat /\ Pieces >= 3 /\ Files \subseteq File
    /\ \A f \in Files : f.kind = "aio" => f.len >= 3
    /\ 1 \in Places /\ Places \subseteq Nat
BY BulkAssumption DEF Places

LEMMA PacketFacts ==
    ASSUME NEW f \in Packets
    PROVE  f \in Content /\ f.len \in Places /\ 1..f.len \subseteq Places
<1>1. f \in Content
  BY DEF Packets, Content
<1>2. f.len \in Places
  BY SizeFacts DEF Packets, Damaged, File
<1>3. QED
  BY <1>1, <1>2, SizeFacts DEF Places

LEMMA DamagedIs ==
    ASSUME NEW f \in Files
    PROVE  Damaged(f).len = f.len /\ Damaged(f) \in Packets
BY DEF Damaged, Packets

\* Only the pieces of a delivered file are intact.
LEMMA IntactIs ==
    ASSUME NEW c \in Content, c.intact
    PROVE  c \in Files
<1>1. NoFile.intact = FALSE /\ TftpData.intact = FALSE
  BY DEF NoFile, TftpData
<1>2. \A f \in Files : Damaged(f).intact = FALSE
  BY DEF Damaged
<1>3. QED
  BY <1>1, <1>2 DEF Content

LEMMA MemoryAfter ==
    ASSUME MemType, NEW f \in Packets, NEW seq \in 1..f.len
    PROVE  After(f, seq) \in [Places -> Content]
BY PacketFacts DEF After, MemType

\* When the checksum agrees the memory holds one file of Files.
LEMMA Agreed ==
    ASSUME NEW m \in [Places -> Content], NEW f \in Packets, NEW k, CrcAgrees(k, f, m)
    PROVE  /\ m[1] \in Files /\ m[1].intact /\ m[1].kind = k /\ m[1].len = f.len
           /\ \A i \in 1..f.len : m[i] = m[1]
BY SizeFacts, IntactIs DEF CrcAgrees

\* The boot loader and tclinux of one file, or what was there before.
LEMMA OneImage ==
    ASSUME NEW m, NEW g \in Files, g.intact, \A i \in 1..g.len : m[i] = g,
           NEW b \in 1..g.len, NEW a \in 1..g.len,
           flash'["boot"] = Old \/ flash'["boot"] = Written(m, 1, b),
           flash'["linux"] = Old \/ flash'["linux"] = Written(m, a, g.len)
    PROVE  WrittenIsOneImage'
<1>1. g.len \in Nat
  BY SizeFacts DEF File, Places
<1>2. Old[1] # "written"
  BY DEF Old
<1>3. ASSUME NEW x \in 1..g.len, NEW y \in 1..g.len, NEW p, flash'[p] = Written(m, x, y)
      PROVE  /\ DOMAIN flash'[p][2] = x..y
             /\ \A k \in x..y : flash'[p][2][k] = g
  <2>1. flash'[p][2] = [k \in x..y |-> m[k]]
    BY <1>3 DEF Written
  <2>2. x..y \subseteq 1..g.len
    BY <1>1
  <2>3. QED
    BY <2>1, <2>2
<1>4. flash'["boot"][1] = "written" =>
          \A k \in DOMAIN flash'["boot"][2] : flash'["boot"][2][k] = g
  <2>1. 1 \in 1..g.len
    BY <1>1
  <2>2. QED
    BY <1>2, <1>3, <2>1
<1>5. flash'["linux"][1] = "written" =>
          /\ \A k \in DOMAIN flash'["linux"][2] : flash'["linux"][2][k] = g
          /\ g.len \in DOMAIN flash'["linux"][2]
  <2>1. g.len \in 1..g.len /\ g.len \in a..g.len
    BY <1>1
  <2>2. QED
    BY <1>2, <1>3, <2>1
<1>6. \A p \in {"boot", "linux"} : flash'[p][1] # "written" => flash'[p] = Old
  BY DEF Written
<1>7. QED
  BY <1>4, <1>5, <1>6 DEF WrittenIsOneImage, Holds

\* A step that leaves the boot loader, tclinux and the parameters as delivered,
\* but for what the end of a romfile is written over.
LEMMA NoImage ==
    ASSUME flash'["conf"] = Old, flash'["boot"] = Old,
           \/ flash'["linux"] = Old
           \/ \E f \in Files : /\ flash'["linux"] = Overrun(f)
                               /\ f.kind = "romfile" /\ f.size = "over"
    PROVE  WrittenIsOneImage' /\ ParametersStay'
<1>1. Old[1] # "written" /\ \A f : Overrun(f)[1] # "written"
  BY DEF Old, Overrun
<1>2. QED
  BY <1>1 DEF WrittenIsOneImage, ParametersStay

-----------------------------------------------------------------------------
(* The flash and the memory.                                               *)

LEMMA FlashStays ==
    ASSUME WrittenOnce, UNCHANGED flash, UNCHANGED finish
    PROVE  WrittenOnce'
BY DEF WrittenOnce, WrittenIsOneImage, ParametersStay, Holds

\* Before the end of a collection the flash is as delivered.
LEMMA Delivered ==
    ASSUME WrittenOnce, ~finish
    PROVE  /\ flash = [p \in Parts |-> Old]
           /\ flash["boot"] = Old /\ flash["linux"] = Old /\ flash["conf"] = Old
           /\ {"boot", "conf", "romfile", "linux", "romd", "backup"} = Parts
BY DEF WrittenOnce, Parts

LEMMA Checked ==
    ASSUME NEW f \in Packets, NEW m, Check(f, m) \notin {"error", "toobig"}
    PROVE  \/ Check(f, m) = "bin" /\ CrcAgrees("bin", f, m)
           \/ Check(f, m) = "aio" /\ CrcAgrees("aio", f, m)
BY DEF Check

LEMMA FinishWrites ==
    ASSUME MemType, WrittenOnce, FlagTypes, ~finish,
           NEW f \in Packets, NEW seq \in 1..f.len, NEW c, Finish(f, seq, c)
    PROVE  WrittenOnce' /\ finish' \in BOOLEAN /\ badimg' \in BOOLEAN
<1> DEFINE m == After(f, seq)
           what == Check(f, m)
           short == c.recv + 1 < f.len
<1>1. badimg' \in BOOLEAN
  BY DEF Finish, FlagTypes
<1>2. CASE short \/ what \in {"error", "toobig"}
  <2>1. UNCHANGED flash /\ UNCHANGED finish
    BY <1>2 DEF Finish, Error
  <2>2. QED
    BY <1>1, <2>1, FlashStays DEF FlagTypes
<1>3. CASE ~(short \/ what \in {"error", "toobig"})
  <2>1. finish' = TRUE /\ IF what = "bin" THEN WriteBin(f, m) ELSE WriteAllInOne(f, m)
    BY <1>3 DEF Finish
  <2>2. m \in [Places -> Content]
    BY MemoryAfter
  <2>3. \/ what = "bin" /\ CrcAgrees("bin", f, m)
        \/ what = "aio" /\ CrcAgrees("aio", f, m)
    BY <1>3, Checked
  <2> HIDE DEF m, what
  <2>4. /\ m[1] \in Files /\ m[1].intact /\ m[1].len = f.len
        /\ \A i \in 1..m[1].len : m[i] = m[1]
        /\ what = "aio" => m[1].kind = "aio"
    BY <2>2, <2>3, Agreed
  <2>5. f.len \in Nat /\ f.len >= 1 /\ 1 \in 1..f.len
    BY PacketFacts, SizeFacts DEF Places
  <2>6. CASE what = "bin"
    <3>1. flash' = [flash EXCEPT !["romfile"] = Erased, !["backup"] = Erased,
                                 !["linux"] = Written(m, 1, f.len)]
      BY <2>1, <2>6 DEF WriteBin
    <3>2. /\ flash'["conf"] = Old /\ flash'["boot"] = Old
          /\ flash'["linux"] = Written(m, 1, f.len)
      BY <3>1, Delivered
    <3>3. WrittenIsOneImage'
      BY <2>4, <2>5, <3>2, OneImage
    <3>4. QED
      BY <1>1, <2>1, <3>2, <3>3 DEF WrittenOnce, ParametersStay
  <2>7. CASE what # "bin"
    <3>1. /\ flash'["conf"] = Old /\ flash'["boot"] = Written(m, 1, 1)
          /\ flash'["linux"] = Written(m, 3, f.len)
      BY <2>1, <2>7, Delivered DEF WriteAllInOne, PastTheEnd, BootBlock, KeepConf
    <3>2. 3 \in 1..f.len
      BY <2>3, <2>4, <2>5, <2>7, SizeFacts
    <3>3. WrittenIsOneImage'
      BY <2>4, <2>5, <3>1, <3>2, OneImage
    <3>4. QED
      BY <1>1, <2>1, <3>1, <3>3 DEF WrittenOnce, ParametersStay
  <2>8. QED
    BY <2>6, <2>7
<1>4. QED
  BY <1>2, <1>3

LEMMA UpgradeWrites ==
    ASSUME MemType, WrittenOnce, FlagTypes,
           NEW f \in Packets, NEW seq \in 1..f.len, MultiUpgradeHandle(f, seq)
    PROVE  MemType' /\ WrittenOnce' /\ finish' \in BOOLEAN /\ badimg' \in BOOLEAN
<1> DEFINE c == First(f, seq)
<1>1. CASE finish
  <2>1. UNCHANGED mem /\ UNCHANGED flash /\ UNCHANGED finish /\ UNCHANGED badimg
    BY <1>1 DEF MultiUpgradeHandle, progress
  <2>2. QED
    BY <2>1, FlashStays DEF MemType, FlagTypes
<1>2. CASE ~finish /\ ~InOrder(c, seq)
  <2>1. UNCHANGED mem /\ UNCHANGED flash /\ UNCHANGED finish /\ UNCHANGED badimg
    BY <1>2 DEF MultiUpgradeHandle, Error
  <2>2. QED
    BY <2>1, FlashStays DEF MemType, FlagTypes
<1>3. CASE ~finish /\ InOrder(c, seq)
  <2>1. MemType'
    BY <1>3, MemoryAfter DEF MultiUpgradeHandle, MemType
  <2>2. CASE IsLast(c, seq)
    <3>1. Finish(f, seq, c)
      BY <1>3, <2>2 DEF MultiUpgradeHandle
    <3>2. QED
      BY <1>3, <2>1, <3>1, FinishWrites
  <2>3. CASE ~IsLast(c, seq)
    <3>1. UNCHANGED flash /\ UNCHANGED finish /\ UNCHANGED badimg
      BY <1>3, <2>3 DEF MultiUpgradeHandle
    <3>2. QED
      BY <2>1, <3>1, FlashStays DEF FlagTypes
  <2>4. QED
    BY <2>2, <2>3
<1>4. QED
  BY <1>1, <1>2, <1>3

\* The parts that each kind of file is written to.
LEMMA BootWrites ==
    ASSUME WrittenOnce, ~finish, NEW f \in Packets, NEW m \in [Places -> Content],
           \E i \in 1..f.len : m[i] = f, PacketSum(f),
           BootChecks(f, m), flash' = BootWrite(f, m), finish' = TRUE
    PROVE  WrittenOnce'
<1> DEFINE t == BootFileType(f, m)
<1>1. f.len \in Nat /\ f.len >= 1 /\ 1 \in 1..f.len /\ f.len \in 1..f.len
  BY PacketFacts, SizeFacts DEF Places
<1>2. t \in {"boot", "romfile", "romd", "tclinux", "all in one"}
  BY DEF BootFileType, BootFileTypes
<1> HIDE DEF t
<1>3. CASE t = "boot"
  <2>1. /\ CrcAgrees("boot", f, m)
        /\ flash' = PastTheEnd(BootBlock(flash, m, Fitting(f), f.size # "short"), f, "romfile")
    BY <1>3 DEF BootChecks, BootWrite, t
  <2>2. /\ flash'["boot"] = Written(m, 1, Fitting(f)) /\ flash'["linux"] = Old
        /\ flash'["conf"] = IF f.size = "short" THEN Erased ELSE Old
    BY <2>1, Delivered DEF PastTheEnd, BootBlock, KeepConf
  <2>3. /\ m[1] \in Files /\ m[1].intact /\ m[1].len = f.len /\ m[1].kind = "boot"
        /\ \A i \in 1..m[1].len : m[i] = m[1]
    BY <2>1, Agreed
  <2>4. m[1] = f
    BY <2>3
  <2>5. Fitting(f) \in 1..f.len /\ (f.size = "short" => Fitting(f) = f.len)
    <3>1. f.size = "over" => f.len >= 2
      BY <2>3, <2>4, BulkAssumption
    <3>2. QED
      BY <1>1, <3>1 DEF Fitting
  <2>6. WrittenIsOneImage'
    BY <1>1, <2>2, <2>3, <2>5, OneImage
  <2>7. ParametersStay'
    <3>1. CASE f.size # "short"
      BY <2>2, <3>1 DEF ParametersStay
    <3>2. CASE f.size = "short"
      <4>1. flash'["boot"] = <<"written", [k \in 1..f.len |-> m[k]]>> /\ flash'["conf"] = Erased
        BY <2>2, <2>5, <3>2 DEF Written
      <4>2. \A k \in DOMAIN flash'["boot"][2] : flash'["boot"][2][k] = f
        BY <2>3, <2>4, <4>1
      <4>3. Holds("boot", f)'
        BY <2>3, <2>4, <4>2 DEF Holds
      <4>4. QED
        BY <2>3, <2>4, <3>2, <4>1, <4>3 DEF ParametersStay
    <3>3. QED
      BY <3>1, <3>2
  <2>8. QED
    BY <2>6, <2>7 DEF WrittenOnce
<1>4. CASE t = "tclinux"
  <2>1. CrcAgrees("bin", f, m) /\ flash' = BootLinux(f, m)
    BY <1>4 DEF BootChecks, BootWrite, t
  <2>2. flash'["conf"] = Old /\ flash'["boot"] = Old /\ flash'["linux"] = Written(m, 1, f.len)
    BY <2>1, Delivered DEF BootLinux, PastTheEnd
  <2>3. /\ m[1] \in Files /\ m[1].intact /\ m[1].len = f.len
        /\ \A i \in 1..m[1].len : m[i] = m[1]
    BY <2>1, Agreed
  <2>4. WrittenIsOneImage'
    BY <1>1, <2>2, <2>3, OneImage
  <2>5. QED
    BY <2>2, <2>4 DEF WrittenOnce, ParametersStay
<1>5. CASE t = "all in one"
  <2>1. CrcAgrees("aio", f, m) /\ flash' = BootAllInOne(f, m)
    BY <1>5 DEF BootChecks, BootWrite, t
  <2>2. /\ flash'["conf"] = Old /\ flash'["boot"] = Written(m, 1, 1)
        /\ flash'["linux"] = Written(m, 3, f.len)
    BY <2>1, Delivered DEF BootAllInOne, BootBlock, KeepConf
  <2>3. /\ m[1] \in Files /\ m[1].intact /\ m[1].len = f.len /\ m[1].kind = "aio"
        /\ \A i \in 1..m[1].len : m[i] = m[1]
    BY <2>1, Agreed
  <2>4. 3 \in 1..f.len
    BY <1>1, <2>3, SizeFacts
  <2>5. WrittenIsOneImage'
    BY <1>1, <2>2, <2>3, <2>4, OneImage
  <2>6. QED
    BY <2>2, <2>5 DEF WrittenOnce, ParametersStay
<1>6. CASE t = "romd"
  <2>1. flash' = PastTheEnd([flash EXCEPT !["romd"] = Written(m, 1, Fitting(f))], f, "backup")
    BY <1>6 DEF BootWrite, t
  <2>2. flash'["conf"] = Old /\ flash'["boot"] = Old /\ flash'["linux"] = Old
    BY <2>1, Delivered DEF PastTheEnd
  <2>3. QED
    BY <2>2, NoImage DEF WrittenOnce
<1>7. CASE t = "romfile"
  <2>1. flash' = PastTheEnd([flash EXCEPT !["romfile"] = Written(m, 1, Fitting(f))], f, "linux")
    BY <1>7 DEF BootWrite, t
  <2>2. /\ flash'["conf"] = Old /\ flash'["boot"] = Old
        /\ flash'["linux"] = IF f.size = "over" THEN Overrun(f) ELSE Old
    BY <2>1, Delivered DEF PastTheEnd
  <2>3. f.kind = "romfile"
    BY <1>7 DEF t, BootFileType, BootFileTypes
  <2>4. f \in Files
    BY <2>3 DEF PacketSum, Packets, Damaged
  <2>5. QED
    BY <2>2, <2>3, <2>4, NoImage DEF WrittenOnce
<1>8. QED
  BY <1>2, <1>3, <1>4, <1>5, <1>6, <1>7

LEMMA BootHandleWrites ==
    ASSUME MemType, WrittenOnce, FlagTypes,
           NEW f \in Packets, NEW seq \in 1..f.len, MultiBootHandle(f, seq)
    PROVE  /\ MemType' /\ WrittenOnce'
           /\ finish' \in BOOLEAN /\ badimg' \in BOOLEAN /\ started' \in BOOLEAN
<1> DEFINE old == IF seq = 1 THEN 0 ELSE oldSeq
           got == IF seq = 1 THEN 0 ELSE recv
<1>1. CASE finish
  <2>1. /\ UNCHANGED mem /\ UNCHANGED flash /\ UNCHANGED finish /\ UNCHANGED badimg
        /\ UNCHANGED started
    BY <1>1 DEF MultiBootHandle, progress
  <2>2. QED
    BY <2>1, FlashStays DEF MemType, FlagTypes
<1>2. CASE ~finish /\ f.kind \in {"clear romfile", "clear romd"}
  <2>1. ClearFlag(f)
    BY <1>2 DEF MultiBootHandle
  <2>2. /\ UNCHANGED mem /\ UNCHANGED badimg /\ finish' = TRUE /\ started' = TRUE
        /\ \/ flash' = [flash EXCEPT !["romfile"] = Erased]
           \/ flash' = [flash EXCEPT !["romd"] = Erased]
    BY <2>1 DEF ClearFlag, progress
  <2>3. flash'["conf"] = Old /\ flash'["boot"] = Old /\ flash'["linux"] = Old
    BY <1>2, <2>2, Delivered
  <2>4. QED
    BY <2>2, <2>3, NoImage DEF WrittenOnce, MemType, FlagTypes
<1>3. CASE ~finish /\ f.kind \notin {"clear romfile", "clear romd"} /\ seq # old + 1
  <2>1. /\ UNCHANGED mem /\ UNCHANGED flash /\ UNCHANGED finish /\ UNCHANGED badimg
        /\ started' = TRUE
    BY <1>3 DEF MultiBootHandle, progress
  <2>2. QED
    BY <2>1, FlashStays DEF MemType, FlagTypes
<1>4. CASE ~finish /\ f.kind \notin {"clear romfile", "clear romd"} /\ seq = old + 1
  <2>1. mem' = After(f, seq) /\ UNCHANGED badimg
    BY <1>4 DEF MultiBootHandle
  <2>2. After(f, seq) \in [Places -> Content] /\ MemType'
    BY <2>1, MemoryAfter DEF MemType
  <2>3. CASE PacketSum(f) /\ got + 1 >= f.len
    <3>1. Complete(f, seq)
      BY <1>4, <2>3 DEF MultiBootHandle
    <3>2. CASE BootChecks(f, After(f, seq))
      <4>1. started' = TRUE /\ flash' = BootWrite(f, After(f, seq)) /\ finish' = TRUE
        BY <3>1, <3>2 DEF Complete
      <4>2. \E i \in 1..f.len : After(f, seq)[i] = f
        BY <2>2, PacketFacts DEF After, MemType
      <4>3. WrittenOnce'
        BY <1>4, <2>2, <2>3, <3>2, <4>1, <4>2, BootWrites
      <4>4. QED
        BY <2>1, <2>2, <4>1, <4>3 DEF FlagTypes
    <3>3. CASE ~BootChecks(f, After(f, seq))
      <4>1. started' = FALSE /\ UNCHANGED flash /\ UNCHANGED finish
        BY <3>1, <3>3 DEF Complete
      <4>2. QED
        BY <2>1, <2>2, <4>1, FlashStays DEF FlagTypes
    <3>4. QED
      BY <3>2, <3>3
  <2>4. CASE ~(PacketSum(f) /\ got + 1 >= f.len)
    <3>1. started' = TRUE /\ UNCHANGED flash /\ UNCHANGED finish
      BY <1>4, <2>4 DEF MultiBootHandle
    <3>2. QED
      BY <2>1, <2>2, <3>1, FlashStays DEF FlagTypes
  <2>5. QED
    BY <2>3, <2>4
<1>5. QED
  BY <1>1, <1>2, <1>3, <1>4

-----------------------------------------------------------------------------
(* The count of the pieces.                                                *)

LEMMA CircleBounds ==
    ASSUME NEW start, NEW old, NEW n, NEW max, Circle(start, old, n, max)
    PROVE  /\ start \in 1..Pieces /\ max \in 1..Pieces /\ old \in 0..Pieces
           /\ n \in 0..Pieces
BY SizeFacts DEF Circle, Places

\* A piece in its turn takes the collection one step around the circle.
LEMMA CircleGoesOn ==
    ASSUME NEW start, NEW old, NEW n, NEW max, NEW seq \in Places,
           Circle(start, old, n, max),
           seq = old + 1 \/ (seq = 1 /\ old = max)
    PROVE  /\ n + 1 \in 0..Pieces
           /\ \/ Circle(start, seq, n + 1, max)
              \/ start # 1 /\ seq = start - 1
              \/ start = 1 /\ seq = max
<1>1. /\ start \in 1..max /\ max \in 1..Pieces /\ old \in 0..Pieces /\ seq \in 1..Pieces
      /\ Pieces \in Nat
  BY SizeFacts DEF Circle, Places
<1>2. CASE old >= start - 1 /\ n = old - start + 1 /\ (start = 1 => old < max)
  <2>1. CASE seq = old + 1
    <3>1. seq >= start - 1 /\ n + 1 = seq - start + 1 /\ n + 1 \in 0..Pieces
      BY <1>1, <1>2, <2>1
    <3>2. start = 1 => seq < max \/ seq = max
      BY <1>1, <1>2, <2>1
    <3>3. QED
      BY <1>1, <3>1, <3>2 DEF Circle, Places
  <2>2. CASE seq = 1 /\ old = max
    <3>1. start # 1
      BY <1>1, <1>2, <2>2
    <3>2. n + 1 = max - start + 1 + seq /\ n + 1 \in 0..Pieces
      BY <1>1, <1>2, <2>2, <3>1
    <3>3. seq < start - 1 \/ seq = start - 1
      BY <1>1, <2>2, <3>1
    <3>4. QED
      BY <1>1, <3>1, <3>2, <3>3 DEF Circle, Places
  <2>3. QED
    BY <2>1, <2>2
<1>3. CASE old < start - 1 /\ n = max - start + 1 + old
  <2>1. seq = old + 1 /\ start # 1
    BY <1>1, <1>3
  <2>2. n + 1 = max - start + 1 + seq /\ n + 1 \in 0..Pieces
    BY <1>1, <1>3, <2>1
  <2>3. seq < start - 1 \/ seq = start - 1
    BY <1>1, <1>3, <2>1
  <2>4. QED
    BY <1>1, <2>1, <2>2, <2>3 DEF Circle, Places
<1>4. QED
  BY <1>2, <1>3 DEF Circle

LEMMA UpgradeCounts ==
    ASSUME CountTypes, Around, build = "upgrade", UNCHANGED build,
           NEW f \in Packets, NEW seq \in 1..f.len, MultiUpgradeHandle(f, seq)
    PROVE  CountTypes' /\ Around'
<1> DEFINE c == First(f, seq)
<1>1. CASE finish
  <2>1. /\ UNCHANGED startSeq /\ UNCHANGED oldSeq /\ UNCHANGED maxSeq /\ UNCHANGED recv
        /\ UNCHANGED finish
    BY <1>1 DEF MultiUpgradeHandle, progress
  <2>2. QED
    BY <1>1, <2>1 DEF CountTypes, Around
<1>2. ASSUME ~finish PROVE Circle(c.start, c.old, c.recv, c.max)
  <2>1. CASE startSeq = -1
    <3>1. c.start = seq /\ c.old = seq - 1 /\ c.recv = 0 /\ c.max = f.len
      BY <2>1 DEF First
    <3>2. f.len \in Places /\ seq - 1 \in 0..Pieces
      BY PacketFacts, SizeFacts DEF Places
    <3>3. Circle(seq, seq - 1, 0, f.len)
      BY <3>2, SizeFacts DEF Circle, Places
    <3> HIDE DEF c
    <3>4. QED
      BY <3>1, <3>3
  <2>2. CASE startSeq # -1
    <3>1. c.start = startSeq /\ c.old = oldSeq /\ c.recv = recv /\ c.max = maxSeq
      BY <2>2 DEF First
    <3> HIDE DEF c
    <3>2. QED
      BY <1>2, <2>2, <3>1 DEF Around
  <2>3. QED
    BY <2>1, <2>2
<1> HIDE DEF c
<1>3. seq \in Places
  BY PacketFacts
<1>4. CASE ~finish /\ ~InOrder(c, seq)
  <2>1. startSeq' = -1 /\ maxSeq' = 0 /\ oldSeq' = c.old /\ recv' = c.recv
    BY <1>4 DEF MultiUpgradeHandle, Error, c
  <2>2. c.old \in 0..Pieces /\ c.recv \in 0..Pieces
    BY <1>2, <1>4, CircleBounds
  <2>3. QED
    BY <2>1, <2>2, SizeFacts DEF CountTypes, Around
<1>5. CASE ~finish /\ InOrder(c, seq)
  <2>1. /\ c.recv + 1 \in 0..Pieces
        /\ Circle(c.start, seq, c.recv + 1, c.max) \/ IsLast(c, seq)
    BY <1>2, <1>3, <1>5, CircleGoesOn DEF InOrder, IsLast
  <2>2. c.start \in 1..Pieces /\ c.max \in 1..Pieces
    BY <1>2, <1>5, CircleBounds
  <2>3. ASSUME Collected(c, seq) PROVE CountTypes'
    BY <1>3, <2>1, <2>2, <2>3, SizeFacts DEF Collected, CountTypes, Places
  <2>4. CASE ~IsLast(c, seq)
    <3>1. Collected(c, seq)
      BY <1>5, <2>4 DEF MultiUpgradeHandle, c
    <3>2. QED
      BY <2>1, <2>3, <2>4, <3>1 DEF Collected, Around
  <2>5. CASE IsLast(c, seq)
    <3>1. Finish(f, seq, c)
      BY <1>5, <2>5 DEF MultiUpgradeHandle, c
    <3>2. ASSUME Collected(c, seq) /\ finish' = TRUE PROVE CountTypes' /\ Around'
      BY <2>3, <3>2 DEF Around
    <3>3. ASSUME NEW d, d.recv \in 0..Pieces, Error(d, seq) PROVE CountTypes' /\ Around'
      BY <1>3, <3>3, SizeFacts DEF Error, CountTypes, Around, Places
    <3>4. /\ [c EXCEPT !.recv = 0].recv \in 0..Pieces
          /\ [c EXCEPT !.recv = @ + 1].recv \in 0..Pieces
      <4>1. /\ [c EXCEPT !.recv = 0].recv = 0
            /\ [c EXCEPT !.recv = @ + 1].recv = c.recv + 1
        BY DEF c, First
      <4>2. QED
        BY <2>1, <4>1, SizeFacts
    <3>5. \/ Collected(c, seq) /\ finish' = TRUE
          \/ Error([c EXCEPT !.recv = 0], seq)
          \/ Error([c EXCEPT !.recv = @ + 1], seq)
      BY <3>1 DEF Finish
    <3>6. QED
      BY <3>2, <3>3, <3>4, <3>5
  <2>6. QED
    BY <2>4, <2>5
<1>6. QED
  BY <1>1, <1>4, <1>5

LEMMA BootCounts ==
    ASSUME CountTypes, Around, build = "boot", UNCHANGED build,
           NEW f \in Packets, NEW seq \in 1..f.len, MultiBootHandle(f, seq)
    PROVE  CountTypes' /\ Around'
<1> DEFINE old == IF seq = 1 THEN 0 ELSE oldSeq
           got == IF seq = 1 THEN 0 ELSE recv
<1>1. CASE \/ finish
           \/ f.kind \in {"clear romfile", "clear romd"}
           \/ seq # old + 1
  <2>1. /\ UNCHANGED startSeq /\ UNCHANGED oldSeq /\ UNCHANGED maxSeq /\ UNCHANGED recv
        /\ finish => finish'
    BY <1>1 DEF MultiBootHandle, ClearFlag, progress
  <2>2. QED
    BY <2>1 DEF CountTypes, Around
<1>2. CASE ~finish /\ f.kind \notin {"clear romfile", "clear romd"} /\ seq = old + 1
  <2>1. /\ UNCHANGED startSeq /\ UNCHANGED maxSeq
        /\ \/ oldSeq' = seq /\ recv' = got + 1
           \/ oldSeq' = -1 /\ recv' = 0
    BY <1>2 DEF MultiBootHandle
  <2>2. seq \in 1..Pieces
    BY PacketFacts DEF Places
  <2>3. got + 1 = seq
    <3>1. CASE seq = 1
      BY <3>1
    <3>2. CASE seq # 1
      <4>1. old = oldSeq /\ got = recv /\ seq = oldSeq + 1
        BY <1>2, <3>2
      <4>2. (oldSeq = -1 /\ recv = 0) \/ (oldSeq \in 0..Pieces /\ recv = oldSeq)
        BY <1>2 DEF Around
      <4> HIDE DEF old, got
      <4>3. QED
        BY <2>2, <3>2, <4>1, <4>2, SizeFacts
    <3>3. QED
      BY <3>1, <3>2
  <2>4. QED
    BY <2>1, <2>2, <2>3, SizeFacts DEF CountTypes, Around
<1>3. QED
  BY <1>1, <1>2

-----------------------------------------------------------------------------
(* The invariant.                                                          *)

LEMMA Start ==
    Init => IInv
<1> SUFFICES ASSUME Init PROVE IInv
  OBVIOUS
<1>1. MemType
  BY DEF Init, InitMemory, MemType, Content
<1>2. SenderType
  BY DEF Init, SenderType
<1>3. FlagTypes
  BY BulkAssumption DEF Init, FlagTypes
<1>4. WrittenOnce
  <2>1. flash = [p \in Parts |-> Old] /\ Old[1] # "written"
    BY DEF Init, InitMemory, Old
  <2>2. flash["boot"] = Old /\ flash["linux"] = Old /\ flash["conf"] = Old
    BY <2>1 DEF Parts
  <2>3. QED
    BY <2>1, <2>2 DEF WrittenOnce, WrittenIsOneImage, ParametersStay
<1>5. CountTypes /\ Around
  BY SizeFacts DEF Init, CountTypes, Around
<1>6. QED
  BY <1>1, <1>2, <1>3, <1>4, <1>5 DEF IInv

LEMMA PacketKeeps ==
    ASSUME IInv, NEW f \in Packets, NEW seq \in 1..f.len, ip_rcv_packet(f, seq)
    PROVE  (MemType /\ FlagTypes /\ WrittenOnce /\ CountTypes /\ Around)'
<1>1. UNCHANGED build
  BY DEF ip_rcv_packet
<1>2. CASE build = "upgrade" /\ started' = TRUE /\ MultiUpgradeHandle(f, seq)
  <2>1. MemType' /\ WrittenOnce' /\ finish' \in BOOLEAN /\ badimg' \in BOOLEAN
    BY <1>2, UpgradeWrites DEF IInv
  <2>2. CountTypes' /\ Around'
    BY <1>1, <1>2, UpgradeCounts DEF IInv
  <2>3. QED
    BY <1>1, <1>2, <2>1, <2>2 DEF IInv, FlagTypes
<1>3. CASE build = "boot" /\ MultiBootHandle(f, seq)
  <2>1. /\ MemType' /\ WrittenOnce'
        /\ finish' \in BOOLEAN /\ badimg' \in BOOLEAN /\ started' \in BOOLEAN
    BY <1>3, BootHandleWrites DEF IInv
  <2>2. CountTypes' /\ Around'
    BY <1>1, <1>3, BootCounts DEF IInv
  <2>3. QED
    BY <1>1, <2>1, <2>2 DEF IInv, FlagTypes
<1>4. QED
  BY <1>2, <1>3 DEF ip_rcv_packet

LEMMA NextInv ==
    ASSUME IInv, [Next]_vars
    PROVE  IInv'
<1>1. ASSUME pos' = (IF pos < cur.len THEN pos + 1 ELSE 1), UNCHANGED cur PROVE SenderType'
  <2>1. cur.len \in Nat /\ cur.len >= 1 /\ pos \in 1..cur.len
    BY SizeFacts DEF IInv, SenderType, File, Places
  <2>2. pos' \in 1..cur.len
    BY <1>1, <2>1
  <2>3. QED
    BY <1>1, <2>2 DEF IInv, SenderType
<1>2. ASSUME Deliver PROVE IInv'
  <2>1. cur \in Packets /\ pos \in 1..cur.len
    BY DEF IInv, SenderType, Packets
  <2>2. QED
    BY <1>1, <1>2, <2>1, PacketKeeps DEF Deliver, IInv
<1>3. ASSUME Damage PROVE IInv'
  <2>1. Damaged(cur) \in Packets /\ pos \in 1..Damaged(cur).len
    BY DamagedIs DEF IInv, SenderType
  <2>2. QED
    BY <1>1, <1>3, <2>1, PacketKeeps DEF Damage, IInv
<1>4. ASSUME UNCHANGED <<flash, build, started, finish, progress>>
      PROVE  (FlagTypes /\ WrittenOnce /\ CountTypes /\ Around)'
  <2>1. /\ UNCHANGED flash /\ UNCHANGED build /\ UNCHANGED started /\ UNCHANGED finish
        /\ UNCHANGED startSeq /\ UNCHANGED oldSeq /\ UNCHANGED maxSeq /\ UNCHANGED recv
        /\ UNCHANGED badimg
    BY <1>4 DEF progress
  <2>2. WrittenOnce'
    BY <2>1, FlashStays DEF IInv
  <2>3. QED
    BY <2>1, <2>2 DEF IInv, FlagTypes, CountTypes, Around
<1>5. ASSUME Jump PROVE IInv'
  <2>1. /\ UNCHANGED <<flash, build, started, finish, progress>> /\ UNCHANGED mem
        /\ cur' \in Files /\ pos' \in 1..cur'.len
    BY <1>5 DEF Jump
  <2>2. QED
    BY <1>4, <2>1 DEF IInv, MemType, SenderType
<1>6. ASSUME udp_rcv_packet PROVE IInv'
  <2>1. /\ UNCHANGED <<flash, build, started, finish, progress>>
        /\ UNCHANGED cur /\ UNCHANGED pos
        /\ \E k \in Places : mem' = [mem EXCEPT ![k] = TftpData]
    BY <1>6 DEF udp_rcv_packet, sender
  <2>2. MemType'
    BY <2>1 DEF IInv, MemType, Content
  <2>3. QED
    BY <1>4, <2>1, <2>2 DEF IInv, SenderType
<1>7. ASSUME UNCHANGED vars PROVE IInv'
  <2>1. /\ UNCHANGED <<flash, build, started, finish, progress>> /\ UNCHANGED mem
        /\ UNCHANGED cur /\ UNCHANGED pos
    BY <1>7 DEF vars, sender
  <2>2. QED
    BY <1>4, <2>1 DEF IInv, MemType, SenderType
<1>8. QED
  BY <1>2, <1>3, <1>5, <1>6, <1>7 DEF Next

\* The inductive invariant of both protocols (MultiUpgradeHandle, MultiBootHandle).
THEOREM Invariant == Spec => []IInv
<1>1. IInv /\ [Next]_vars => IInv'
  BY NextInv
<1>2. QED
  BY Start, <1>1, PTL DEF Spec

\* Whatever packets come, in whatever order, damaged or from several files, for any number of
\* faults and files of any length: the boot loader and tclinux are as delivered or of one
\* intact file; only a romfile over its part spoils a tclinux (ip.c:654-757, 912-1151).
THEOREM WrittenIsOneImageAlways == Spec => []WrittenIsOneImage
<1>1. IInv => WrittenIsOneImage
  BY DEF IInv, WrittenOnce
<1>2. QED
  BY <1>1, Invariant, PTL

\* The parameters of the board survive the erase of the boot loader they lie in, whatever
\* packets come, unless the boot loader written is one that ends before them (ip.c:988-994).
THEOREM ParametersStayAlways == Spec => []ParametersStay
<1>1. IInv => ParametersStay
  BY DEF IInv, WrittenOnce
<1>2. QED
  BY <1>1, Invariant, PTL

\* The count of pieces and the sequence numbers stay within the memory, however the files
\* that are mixed differ in length (ip.c:532-596).
THEOREM TypeInvariant == Spec => []TypeOK
<1>1. IInv => TypeOK
  BY DEF IInv, TypeOK, MemType, SenderType, FlagTypes, CountTypes, Content
<1>2. QED
  BY <1>1, Invariant, PTL
=============================================================================
