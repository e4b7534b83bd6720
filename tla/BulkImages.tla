----------------------------- MODULE BulkImages -----------------------------
(***************************************************************************)
(* What the two multicast protocols of src/bootloader-en7512-net-src/ip.c  *)
(* share: the image files a PC sends to many devices at once, the memory   *)
(* at MULTI_BUF_BASE in which their pieces are collected, and the flash.   *)
(*                                                                         *)
(* A file is a record: its kind, its number of pieces (packets of 1024     *)
(* bytes), whether it is intact (its checksum agrees with its content) and *)
(* its size against the part of the flash it is for: it fits, its end is   *)
(* over that of the part, or it is short (of a boot loader: it ends before *)
(* the place of mi.conf).  The same memory is the image buffer of the TFTP *)
(* server (module Tftp), so a piece of it may hold "tftp" data.            *)
(***************************************************************************)
EXTENDS Naturals

CONSTANTS Files, Pieces

VARIABLES mem,      \* the memory, piece by piece: the file that wrote it
          flash     \* the parts of the flash: what is in them

None == "none"

Places == 1..Pieces
File == [name : STRING, kind : STRING, len : Places, intact : BOOLEAN,
         size : {"short", "fits", "over"}]

NoFile == [name |-> None, kind |-> None, len |-> 1, intact |-> FALSE, size |-> "fits"]
TftpData == [NoFile EXCEPT !.name = "tftp"]

\* A piece of f whose content was damaged on its way.
Damaged(f) == [name |-> "damaged", kind |-> f.kind, len |-> f.len,
               intact |-> FALSE, size |-> f.size]

\* In the order of a SPI flash.  conf, the parameters of the board (mi.conf),
\* lies at the end of the boot loader's TCBOOT_SIZE bytes.
Parts == {"boot", "conf", "romfile", "linux", "romd", "backup"}

\* What a part holds: as delivered, erased, overwritten by the end of a file
\* that did not fit before it, or the pieces written to it.
Old == <<"old">>
Erased == <<"erased">>
Overrun(f) == <<"overrun", f>>
Written(m, first, last) == <<"written", [k \in first..last |-> m[k]]>>

InitMemory ==
    /\ mem = [k \in Places |-> NoFile]
    /\ flash = [p \in Parts |-> Old]

\* memcpy(MULTI_BUF_BASE + (seq - 1) * 1024, data, 1024)
After(f, seq) == [mem EXCEPT ![seq] = f]

\* The first f.len pieces are those of one intact file of kind k.  Each kind
\* has its checksum in its own place and order: in the header of a tclinux,
\* in the last bytes of the others.
CrcAgrees(k, f, m) ==
    /\ m[1].kind = k /\ m[1].intact /\ m[1].len = f.len
    /\ \A i \in 1..f.len : m[i] = m[1]

\* Mutation: mi.conf is not read before the erase, the file's own is written.
FileConf(m) == Written(m, 1, 1)

\* flash_read(TCBOOT_BASE + MICONF_OFFSET, MICONF_SIZE, .., MULTI_BUF_BASE +
\* MICONF_OFFSET): the parameters in the flash replace those of the file in
\* memory before the boot loader is erased.
KeepConf(m) == flash.conf

\* TCBOOT_SIZE bytes are erased, mi.conf with them, and what is in memory is
\* written; far says whether it reaches the place of mi.conf.
BootBlock(parts, m, last, far) ==
    [parts EXCEPT !["boot"] = Written(m, 1, last),
                  !["conf"] = IF far THEN KeepConf(m) ELSE Erased]

\* A file that is written to a part without a look at its length: the pieces
\* of it that lie in the part, and the next part, which its end is written
\* over without an erase.  Files are over by less than the next part.
Fitting(f) == IF f.size = "over" THEN f.len - 1 ELSE f.len

PastTheEnd(parts, f, next) ==
    [parts EXCEPT ![next] = IF f.size = "over" THEN Overrun(f) ELSE @]
=============================================================================
