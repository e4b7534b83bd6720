----------------------------- MODULE BulkUpgrade ----------------------------
(***************************************************************************)
(* The multicast upgrade and the multicast boot of the boot loader,        *)
(* src/bootloader-en7512-net-src/ip.c.  A PC repeats the pieces of a file  *)
(* in a circle; a device may join anywhere.  A build has one of the two    *)
(* protocols (variable build): "upgrade" is MultiUpgradeHandle, "boot" is  *)
(* MultiBootHandle.  A handler runs inside the receive interrupt, so it is *)
(* one action for each packet that ip_rcv_packet hands it.                 *)
(*                                                                         *)
(* The sender is at piece pos of file cur.  Jump moves it anywhere: it     *)
(* stands for lost, repeated and reordered packets and for a PC that turns *)
(* to another file; with Damage it happens at most MaxFaults times.        *)
(***************************************************************************)
EXTENDS Integers, BulkImages

CONSTANTS Builds, MaxFaults

ASSUME BulkAssumption ==
    /\ Pieces \in Nat /\ Pieces >= 3 /\ MaxFaults \in Nat
    /\ Builds \subseteq {"upgrade", "boot"}
    /\ Files \subseteq File
    \* An all-in-one file has at least a piece of each of its three parts.
    /\ \A f \in Files : f.kind = "aio" => f.len >= 3
    \* What is over lies in a piece of its own.
    /\ \A f \in Files : f.size = "over" => f.len >= 2

VARIABLES build,      \* the protocol compiled in
          installed,  \* the installed tclinux ends before rom-d
          started,    \* startMultiUpgrade, startMultiBoot
          finish,     \* finishMultiUpgrade, finishMultiBoot
          startSeq, oldSeq, maxSeq,
          recv,       \* receive_len, rcv_len in pieces
          badimg,     \* a file was too big (upgrade)
          cur, pos, faults

progress == <<startSeq, oldSeq, maxSeq, recv, badimg>>
sender == <<cur, pos, faults>>
vars == <<mem, flash, build, installed, started, finish, progress, sender>>

Init ==
    /\ InitMemory
    /\ build \in Builds /\ installed \in BOOLEAN
    /\ started = FALSE /\ finish = FALSE
    /\ startSeq = -1 /\ oldSeq = -1 /\ maxSeq = 0 /\ recv = 0 /\ badimg = FALSE
    /\ cur \in Files /\ pos \in 1..cur.len /\ faults = 0
-----------------------------------------------------------------------------
(* MultiUpgradeHandle.  The collection starts with whatever piece comes
   first (first), goes on in order around the circle and ends with the piece
   before the first.  Anything else forgets the start: the next packet is
   the first again. *)

\* Mutation: the number of pieces received is kept when a new start is made.
FirstKeepsCount(f, seq) ==
    IF startSeq = -1 THEN [start |-> seq, old |-> seq - 1, recv |-> recv, max |-> f.len]
                     ELSE [start |-> startSeq, old |-> oldSeq, recv |-> recv, max |-> maxSeq]

First(f, seq) ==
    IF startSeq = -1 THEN [start |-> seq, old |-> seq - 1, recv |-> 0, max |-> f.len]
                     ELSE [start |-> startSeq, old |-> oldSeq, recv |-> recv, max |-> maxSeq]

InOrder(c, seq) == seq = c.old + 1 \/ (seq = 1 /\ c.old = c.max)

IsLast(c, seq) ==
    \/ c.start # 1 /\ seq = c.start - 1
    \/ c.start = 1 /\ seq = c.max

\* Mutation: the start is kept on an error.
ErrorKeepsStart(c, old) ==
    /\ startSeq' = c.start /\ maxSeq' = c.max
    /\ oldSeq' = old /\ recv' = c.recv
    /\ UNCHANGED <<flash, finish>>

\* error: startSeq = -1; maxSeq = 0.  What else the step sets is c's.
Error(c, old) ==
    /\ startSeq' = -1 /\ maxSeq' = 0
    /\ oldSeq' = old /\ recv' = c.recv
    /\ UNCHANGED <<flash, finish>>

Collected(c, seq) ==
    /\ startSeq' = c.start /\ maxSeq' = c.max /\ oldSeq' = seq /\ recv' = c.recv + 1

\* MultiWriteImage, a tclinux: both romfiles are erased, for the defaults.
WriteBin(f, m) ==
    flash' = [flash EXCEPT !["romfile"] = Erased, !["backup"] = Erased,
                           !["linux"] = Written(m, 1, f.len)]

\* MultiWriteImage, an all-in-one file: boot loader, romfile and tclinux.  Its
\* size is not compared; it may reach the blocks at the end of the flash.
WriteAllInOne(f, m) ==
    flash' = PastTheEnd([BootBlock(flash, m, 1, TRUE) EXCEPT
                             !["romfile"] = Written(m, 2, 2),
                             !["linux"] = Written(m, 3, f.len)], f, "backup")

\* Mutation: the checksum of a tclinux is not compared.
CheckNoCrc(f, m) ==
    IF m[1].kind = "bin"
    THEN IF badimg \/ f.size = "over" THEN "toobig" ELSE "bin"
    ELSE IF m[3].kind = "aio" /\ CrcAgrees("aio", f, m) THEN "aio" ELSE "error"

\* The header in memory decides what the file is.  badimg is never cleared.
Check(f, m) ==
    IF m[1].kind = "bin"
    THEN IF ~CrcAgrees("bin", f, m) THEN "error"
         ELSE IF badimg \/ f.size = "over" THEN "toobig" ELSE "bin"
    ELSE IF m[3].kind = "aio" /\ CrcAgrees("aio", f, m) THEN "aio" ELSE "error"

\* The last piece has come: check and write.
Finish(f, seq, c) ==
    LET m == After(f, seq)
        what == Check(f, m)
        short == c.recv + 1 < f.len
    IN  /\ IF short \/ what \in {"error", "toobig"}
           THEN Error([c EXCEPT !.recv = IF short THEN 0 ELSE @ + 1], seq)
           ELSE /\ Collected(c, seq) /\ finish' = TRUE
                /\ IF what = "bin" THEN WriteBin(f, m) ELSE WriteAllInOne(f, m)
        /\ badimg' = (badimg \/ (~short /\ what = "toobig"))

MultiUpgradeHandle(f, seq) ==
    LET c == First(f, seq)
    IN  IF finish THEN UNCHANGED <<mem, flash, finish, progress>>
        ELSE IF ~InOrder(c, seq)
        THEN Error(c, c.old) /\ UNCHANGED <<mem, badimg>>
        ELSE /\ mem' = After(f, seq)
             /\ IF IsLast(c, seq) THEN Finish(f, seq, c)
                ELSE Collected(c, seq) /\ UNCHANGED <<flash, finish, badimg>>
-----------------------------------------------------------------------------
(* MultiBootHandle.  The collection starts with piece 1; a packet out of
   order is ignored.  Only the packets of a romfile and of a rom-d carry a
   checksum of their own (a damaged one is f.name = "damaged"). *)

BootFileTypes == {"boot", "romfile", "romd"}
PacketSum(f) == f.kind \in {"romfile", "romd"} => f.name # "damaged"

\* A file that is none of these is a tclinux or an all-in-one file, as the
\* memory says.
BootFileType(f, m) ==
    IF f.kind \in BootFileTypes THEN f.kind
    ELSE IF m[1].kind = "bin" THEN "tclinux" ELSE "all in one"

\* Mutation: the checksum of an all-in-one file is not compared.
BootChecksNoCrc(f, m) ==
    CASE BootFileType(f, m) = "boot" -> CrcAgrees("boot", f, m)
      [] BootFileType(f, m) = "tclinux" -> CrcAgrees("bin", f, m) /\ installed
      [] BootFileType(f, m) = "all in one" -> m[2].kind = "aio" /\ f.size # "over"
      [] BootFileType(f, m) = "romd" -> installed
      [] OTHER -> TRUE

\* The size that is compared for a tclinux and for rom-d is that of the
\* tclinux in the flash; a romfile is not checked as a whole, nor is rom-d.
BootChecks(f, m) ==
    CASE BootFileType(f, m) = "boot" -> CrcAgrees("boot", f, m)
      [] BootFileType(f, m) = "tclinux" -> CrcAgrees("bin", f, m) /\ installed
      [] BootFileType(f, m) = "all in one" ->
            m[2].kind = "aio" /\ CrcAgrees("aio", f, m) /\ f.size # "over"
      [] BootFileType(f, m) = "romd" -> installed
      [] OTHER -> TRUE

\* Erased and written over its whole length, rom-d included.
BootLinux(f, m) == PastTheEnd([flash EXCEPT !["linux"] = Written(m, 1, f.len)], f, "romd")

BootAllInOne(f, m) == [BootBlock(flash, m, 1, TRUE) EXCEPT
                           !["romfile"] = Written(m, 2, 2),
                           !["linux"] = Written(m, 3, f.len)]

\* A boot loader, a romfile and a rom-d are written with the length they have,
\* after an erase of the size of their part.
BootWrite(f, m) ==
    CASE BootFileType(f, m) = "boot" ->
            PastTheEnd(BootBlock(flash, m, Fitting(f), f.size # "short"), f, "romfile")
      [] BootFileType(f, m) = "tclinux" -> BootLinux(f, m)
      [] BootFileType(f, m) = "all in one" -> BootAllInOne(f, m)
      [] BootFileType(f, m) = "romd" ->
            PastTheEnd([flash EXCEPT !["romd"] = Written(m, 1, Fitting(f))], f, "backup")
      [] OTHER ->
            PastTheEnd([flash EXCEPT !["romfile"] = Written(m, 1, Fitting(f))], f, "linux")

\* The packet of one piece that asks to clear the romfile or rom-d.
ClearFlag(f) ==
    /\ flash' = [flash EXCEPT ![IF f.kind = "clear romfile" THEN "romfile" ELSE "romd"] = Erased]
    /\ finish' = TRUE
    /\ started' = TRUE /\ UNCHANGED <<mem, progress>>

\* started is set by ip_rcv_packet before and cleared here on an error.
Complete(f, seq) ==
    IF BootChecks(f, After(f, seq))
    THEN started' = TRUE /\ flash' = BootWrite(f, After(f, seq)) /\ finish' = TRUE
    ELSE started' = FALSE /\ UNCHANGED <<flash, finish>>

MultiBootHandle(f, seq) ==
    LET old == IF seq = 1 THEN 0 ELSE oldSeq
        got == IF seq = 1 THEN 0 ELSE recv
    IN  IF finish THEN UNCHANGED <<mem, flash, started, finish, progress>>
        ELSE IF f.kind \in {"clear romfile", "clear romd"} THEN ClearFlag(f)
        ELSE IF seq # old + 1
        THEN started' = TRUE /\ UNCHANGED <<mem, flash, finish, progress>>
        ELSE /\ mem' = After(f, seq) /\ UNCHANGED <<startSeq, maxSeq, badimg>>
             /\ IF PacketSum(f) THEN oldSeq' = seq /\ recv' = got + 1
                ELSE oldSeq' = -1 /\ recv' = 0
             /\ IF PacketSum(f) /\ got + 1 >= f.len THEN Complete(f, seq)
                ELSE started' = TRUE /\ UNCHANGED <<flash, finish>>
-----------------------------------------------------------------------------
\* ip_rcv_packet: a multicast packet with the protocol's tag.
ip_rcv_packet(f, seq) ==
    /\ UNCHANGED <<build, installed>>
    /\ \/ build = "upgrade" /\ started' = TRUE /\ MultiUpgradeHandle(f, seq)
       \/ build = "boot" /\ MultiBootHandle(f, seq)

Deliver ==
    /\ ip_rcv_packet(cur, pos)
    /\ pos' = IF pos < cur.len THEN pos + 1 ELSE 1
    /\ UNCHANGED <<cur, faults>>

\* The content of one packet is damaged on its way.
Damage ==
    /\ faults < MaxFaults /\ faults' = faults + 1
    /\ ip_rcv_packet(Damaged(cur), pos)
    /\ pos' = IF pos < cur.len THEN pos + 1 ELSE 1
    /\ UNCHANGED cur

Jump ==
    /\ faults < MaxFaults /\ faults' = faults + 1
    /\ cur' \in Files /\ pos' \in 1..cur'.len
    /\ UNCHANGED <<mem, flash, build, installed, started, finish, progress>>

\* Any other UDP packet is dropped while a collection is on; else it is for
\* the TFTP server, which collects its image in the same memory (TftpPut).
udp_rcv_packet ==
    /\ ~started
    /\ \E k \in Places : mem' = [mem EXCEPT ![k] = TftpData]
    /\ UNCHANGED <<flash, build, installed, started, finish, progress, sender>>

Next == Deliver \/ Damage \/ Jump \/ udp_rcv_packet

Spec == Init /\ [][Next]_vars

\* The sender repeats its file for ever.
FairSpec == Spec /\ WF_vars(Deliver)
-----------------------------------------------------------------------------
TypeOK ==
    /\ mem \in [Places -> Files \cup {NoFile, TftpData} \cup {Damaged(f) : f \in Files}]
    /\ startSeq \in -1..Pieces /\ oldSeq \in -1..Pieces
    /\ maxSeq \in 0..Pieces /\ recv \in 0..Pieces
    /\ started \in BOOLEAN /\ finish \in BOOLEAN /\ badimg \in BOOLEAN
    /\ cur \in Files /\ pos \in 1..cur.len

\* Part p holds pieces of the intact file f and no others.
Holds(p, f) == f.intact /\ \A k \in DOMAIN flash[p][2] : flash[p][2][k] = f

\* Whatever packets come, in whatever order, damaged or from several files:
\* the boot loader and tclinux are as delivered or from one intact file, the
\* same for both, a tclinux with its last piece; only a romfile longer than
\* its part spoils the tclinux after it (ip.c:654-757, 912-1151).
WrittenIsOneImage ==
    LET new == {p \in {"boot", "linux"} : flash[p][1] = "written"}
        From(f) == /\ \A p \in new : Holds(p, f)
                   /\ "linux" \in new => f.len \in DOMAIN flash["linux"][2]
        Spoilt(p) == \E f \in Files : /\ p = "linux" /\ flash[p] = Overrun(f)
                                     /\ f.kind = "romfile" /\ f.size = "over"
    IN  /\ new # {} => \E f \in Files : From(f)
        /\ \A p \in {"boot", "linux"} \ new : flash[p] = Old \/ Spoilt(p)

\* The parameters of the board stay when the boot loader around them is erased
\* and written again, but when the new one is an intact file that ends before
\* their place: then they are lost (ip.c:757, :988-994, :1083).
ParametersStay ==
    \/ flash["conf"] = Old
    \/ /\ flash["conf"] = Erased /\ flash["boot"][1] = "written"
       /\ \E f \in Files : f.kind = "boot" /\ f.size = "short" /\ Holds("boot", f)

\* A file the device can take, in the state it is in, and has room for.
Acceptable(f) ==
    /\ f.intact /\ f.size # "over"
    /\ build = "upgrade" => f.kind = "aio" \/ (f.kind = "bin" /\ ~badimg)
    /\ build = "boot" => f.kind # "text" /\ (f.kind \in {"bin", "romd"} => installed)

\* Where the pieces of f belong.
Place(f) ==
    CASE f.kind = "aio" -> [boot |-> 1..1, romfile |-> 2..2, linux |-> 3..f.len]
      [] f.kind = "bin" -> [linux |-> 1..f.len]
      [] f.kind = "boot" -> [boot |-> 1..f.len]
      [] f.kind = "romfile" -> [romfile |-> 1..f.len]
      [] OTHER -> [romd |-> 1..f.len]

\* The whole of f is in the flash, where it belongs.
InFlash(f) ==
    CASE f.kind = "clear romfile" -> flash["romfile"] = Erased
      [] f.kind = "clear romd" -> flash["romd"] = Erased
      [] OTHER -> \A p \in DOMAIN Place(f) : flash[p] = <<"written", [k \in Place(f)[p] |-> f]>>

\* A romfile and a rom-d have a checksum in each packet and none over the
\* whole: pieces of another file may be before the last.
EndInFlash(f) ==
    f.kind \in {"romfile", "romd"} /\ f.len \in DOMAIN flash[f.kind][2] /\ flash[f.kind][2][f.len] = f

\* A device that is sent one file it can take, for long enough, ends, from
\* whatever piece it joined and whatever it collected before; and a device
\* that ends has the whole of the file it is being sent in the flash, unless
\* there is no room for it (ip.c:532-763, :912-1164).
GoodIsWritten ==
    /\ <>[]Acceptable(cur) => <>finish
    /\ [][finish' # finish => cur.size = "over" \/ InFlash(cur)' \/ EndInFlash(cur)']_vars
=============================================================================
