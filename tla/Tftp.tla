-------------------------------- MODULE Tftp --------------------------------
(***************************************************************************)
(* The boot loader's TFTP server: bootloader-en7512-net-src/tftp.c and     *)
(* tftpput.c, with the part of arp.c, ip.c and udp.c that decides whether  *)
(* an acknowledgement leaves the device.                                   *)
(*                                                                         *)
(* A client uploads a file: a write request (WRQ), then 512-byte blocks    *)
(* numbered from 1, each sent again until it is acknowledged; a block      *)
(* shorter than 512 bytes is the last.  The network loses, delays, copies  *)
(* and reorders packets.  The loader handles one packet at a time, from    *)
(* the frame to the answer, so one packet is one action; but after the     *)
(* answer to the last block it checks and writes the image, while the      *)
(* clients and the network go on: that is an action of its own (EndOfFile) *)
(* that comes before the loader looks at another packet.                   *)
(***************************************************************************)
EXTENDS Integers, Sequences

CONSTANTS
  Sessions,    (* uploads; a client program opens a new port for each      *)
  Host, Port,  (* where session s comes from                               *)
  Name,        (* the name in its WRQ                                      *)
  File,        (* its file: a sequence of nonempty pieces of 512 bytes, the *)
               (* last one possibly shorter                                *)
  Bytes,       (* what a piece may hold                                    *)
  Others,      (* hosts that use ARP and upload nothing                    *)
  NoHost,      (* the address in an unused slot of arp_cache               *)
  ArpSlots,    (* ARP_CACHE_SIZE                                           *)
  LimitSize,   (* limit_size: half the DRAM                                *)
  BootLen, KernelAbove, KernelMax, RootfsAbove, RootfsMax, FlashLen,
               (* the sizes checkfile knows images by                      *)
  TcbootSize,  (* TCBOOT_SIZE                                              *)
  Sealed,      (* the images whose checksum is right                       *)
  Copies,      (* whether a delivered packet may stay, to be delivered     *)
               (* again: a subset of BOOLEAN                               *)
  MaxLosses,   (* bound: packets lost                                      *)
  Orderly      (* clients take turns and wait until nothing is under way   *)
               (* before they send again or give up                        *)

SEGSIZE == 512
U16     == 65536   (* how many values the block number has *)
Hosts   == {Host[s] : s \in Sessions} \cup Others
Ports   == {Port[s] : s \in Sessions}
Names   == {"tcboot.bin", "tclinux.bin", "other"}
Piece   == [bytes : Bytes, len : 1 .. SEGSIZE]
Nothing == [bytes |-> "", len |-> 0]

(* A file whose size is a multiple of 512 ends with an empty block. *)
Blocks(s) == IF Len(File[s]) # 0 /\ File[s][Len(File[s])].len < SEGSIZE
             THEN Len(File[s]) ELSE Len(File[s]) + 1
Block(s, b) == IF b <= Len(File[s]) THEN File[s][b] ELSE Nothing

ASSUME TftpAssumption ==
  /\ NoHost \notin Hosts
  /\ ArpSlots \in Nat \ {0}
  /\ LimitSize \in Nat /\ MaxLosses \in Nat
  /\ {BootLen, KernelAbove, KernelMax, RootfsAbove, RootfsMax, FlashLen, TcbootSize} \subseteq Nat
  /\ Copies \in SUBSET BOOLEAN /\ Copies # {}
  /\ Orderly \in BOOLEAN
  /\ Name \in [Sessions -> Names]
  /\ File \in [Sessions -> Seq(Piece)]
  /\ \A s \in Sessions : \A i \in 1 .. Len(File[s]) - 1 : File[s][i].len = SEGSIZE

(* Two uploads never share address and port. *)
ASSUME PortAssumption ==
  \A s, t \in Sessions : Host[s] = Host[t] /\ Port[s] = Port[t] => s = t

(* The 16-bit block number does not wrap: images are of at most 8 MB. *)
ASSUME BlockAssumption == \A s \in Sessions : Blocks(s) < U16 - 1

VARIABLES
  client_ip, client_port, client_block, filetype, rcvdata_size,  (* tftp.c *)
  buf, data_len, put_begin,                                   (* tftpput.c *)
  ending,      (* tftp_rcv_data is past the answer to the last block       *)
  arp_cache, arp_chche_cur,                                       (* arp.c *)
  flash,       (* what was last written to each part of the flash          *)
  net,         (* the TFTP packets under way                               *)
  asked,       (* the hosts an ARP request is under way to                 *)
  phase, at,   (* the clients: at[s] is the block not yet acknowledged     *)
  got,         (* history: the highest block ever stored for a session     *)
  verdict,     (* history: what checkfile said of a session's image        *)
  losses

server  == <<client_ip, client_port, client_block, filetype, rcvdata_size,
             buf, data_len, put_begin, ending, flash>>
arp     == <<arp_cache, arp_chche_cur>>
clients == <<phase, at>>
history == <<got, verdict>>
vars    == <<server, arp, net, asked, clients, history, losses>>

Slots     == 0 .. ArpSlots - 1
BufPieces == 1 .. LimitSize \div SEGSIZE + 1
Types     == {"none", "TCBOOT", "TCLINUX", "TPKERNEL", "TPROOTFS", "TPFLASH", "ERRFILE"}
Parts     == {"TCBOOT", "TPKERNEL", "TPROOTFS", "TPFLASH"}

Wrq(s)     == [op |-> "WRQ", ip |-> Host[s], port |-> Port[s], name |-> Name[s]]
Data(s, b) == [op |-> "DATA", ip |-> Host[s], port |-> Port[s], block |-> b, data |-> Block(s, b)]
Ack(ip, port, b) == [op |-> "ACK", ip |-> ip, port |-> port, block |-> b]

Init ==
  /\ client_ip = NoHost /\ client_port = 0 /\ client_block = 0
  /\ filetype = "none" /\ rcvdata_size = 0
  /\ buf = [i \in BufPieces |-> Nothing] /\ data_len = 0 /\ put_begin = FALSE
  /\ ending = FALSE
  /\ arp_cache = [i \in Slots |-> NoHost] /\ arp_chche_cur = 0
  /\ flash = [p \in Parts |-> <<>>]
  /\ net = {} /\ asked = {}
  /\ phase = [s \in Sessions |-> "idle"] /\ at = [s \in Sessions |-> 0]
  /\ got = [s \in Sessions |-> 0] /\ verdict = [s \in Sessions |-> "none"]
  /\ losses = 0

-----------------------------------------------------------------------------
(* The address cache.                                                      *)

Knows(ip) == \E i \in Slots : arp_cache[i] = ip

(* An ARP packet from a host, a request or a reply, enters it in the cache; *)
(* the oldest entry gives way.  A request is answered first.               *)
ArpAddCache(ip) ==
  IF Knows(ip)
  THEN UNCHANGED arp
  ELSE /\ arp_cache' = [arp_cache EXCEPT ![arp_chche_cur] = ip]
       /\ arp_chche_cur' = (arp_chche_cur + 1) % ArpSlots

ArpRequest(h) ==
  /\ ~ending
  /\ ArpAddCache(h)
  /\ UNCHANGED <<server, net, asked, clients, history, losses>>

ArpReply(h) ==
  /\ ~ending /\ h \in asked
  /\ ArpAddCache(h)
  /\ \E keep \in Copies : asked' = IF keep THEN asked ELSE asked \ {h}
  /\ UNCHANGED <<server, net, clients, history, losses>>

-----------------------------------------------------------------------------
(* What the loader does with a TFTP packet.                                *)

(* The packets left under way once m is delivered. *)
Left(m) == {IF keep THEN net ELSE net \ {m} : keep \in Copies}

(* Mutation: nobody asks for a missing address. *)
TftpSendAckSilent(left, ip, port, b) ==
  /\ net' = left \cup IF Knows(ip) THEN {Ack(ip, port, b)} ELSE {}
  /\ asked' = asked

(* An acknowledgement to a host that is not in the cache is dropped, and   *)
(* the host is asked for its address.                                      *)
TftpSendAck(left, ip, port, b) ==
  /\ net' = left \cup IF Knows(ip) THEN {Ack(ip, port, b)} ELSE {}
  /\ asked' = asked \cup IF Knows(ip) THEN {} ELSE {ip}

FileType(name) ==
  CASE name = "tcboot.bin"  -> "TCBOOT"
    [] name = "tclinux.bin" -> "TCLINUX"
    [] OTHER                -> "ERRFILE"

RcvWrq(m) ==
  /\ m.op = "WRQ"
  /\ client_ip' = m.ip /\ client_port' = m.port
  /\ filetype' = FileType(m.name)
  /\ \E left \in Left(m) : TftpSendAck(left, m.ip, m.port, 0)
  /\ client_block' = 1
  /\ put_begin' = TRUE /\ data_len' = 0
  /\ rcvdata_size' = 0
  /\ UNCHANGED <<buf, ending, flash, arp, clients, history, losses>>

(* Mutation: a client is known by its address alone. *)
FromClientHost(m) == m.op = "DATA" /\ m.ip = client_ip

FromClient(m) == m.op = "DATA" /\ m.ip = client_ip /\ m.port = client_port

(* Mutation: the size of the buffer is not looked at. *)
FitsAlways(len) == put_begin

(* tftp_put takes the piece: an upload is under way and it fits. *)
Fits(len) == put_begin /\ data_len + len <= LimitSize

(* The image in memory, n bytes long. *)
Received(b, n) == [i \in 1 .. (n + SEGSIZE - 1) \div SEGSIZE |-> b[i]]

(* The size of an image overrules its name. *)
SizeType(n, type) ==
  IF n = BootLen THEN "TCBOOT"
  ELSE IF n > KernelAbove /\ n <= KernelMax THEN "TPKERNEL"
  ELSE IF n > RootfsAbove /\ n <= RootfsMax THEN "TPROOTFS"
  ELSE IF n = FlashLen THEN "TPFLASH" ELSE type

CheckFile(type, n, image) ==
  \/ type = "TCBOOT" /\ n <= TcbootSize /\ image \in Sealed
  \/ type = "TCLINUX" /\ n > TcbootSize /\ image \in Sealed
  \/ type \in {"TPKERNEL", "TPROOTFS", "TPFLASH"}

(* tftp_put_end, checkfile and tftp_write_flash, after the last answer.    *)
EndOfFile ==
  LET n     == rcvdata_size
      image == Received(buf, n)
      type  == SizeType(n, filetype)
      good  == CheckFile(type, n, image)
  IN /\ ending /\ ending' = FALSE
     /\ put_begin' = FALSE
     /\ filetype' = type
     /\ flash' = IF good /\ type \in Parts THEN [flash EXCEPT ![type] = image] ELSE flash
     /\ verdict' = [s \in Sessions |->
                      IF Host[s] = client_ip /\ Port[s] = client_port
                      THEN IF good THEN "good" ELSE "bad"
                      ELSE verdict[s]]
     /\ UNCHANGED <<client_ip, client_port, client_block, rcvdata_size, buf, data_len,
                    arp, net, asked, clients, got, losses>>

(* The block that is expected. *)
RcvNext(m) ==
  LET len == m.data.len
  IN /\ FromClient(m) /\ m.block = client_block
     /\ Fits(len)
     /\ buf' = IF len = 0 THEN buf
               ELSE [buf EXCEPT ![data_len \div SEGSIZE + 1] = m.data]
     /\ data_len' = data_len + len
     /\ rcvdata_size' = rcvdata_size + len
     /\ \E left \in Left(m) : TftpSendAck(left, client_ip, client_port, client_block)
     /\ client_block' = (client_block + 1) % U16
     /\ ending' = (len < SEGSIZE)
     /\ got' = [s \in Sessions |->
                  IF Host[s] = client_ip /\ Port[s] = client_port /\ got[s] < m.block
                  THEN m.block ELSE got[s]]
     /\ UNCHANGED <<client_ip, client_port, filetype, put_begin, flash,
                    arp, clients, verdict, losses>>

(* A block that was stored before: its acknowledgement was lost. *)
RcvOld(m) ==
  /\ FromClient(m) /\ m.block < client_block
  /\ \E left \in Left(m) : TftpSendAck(left, client_ip, client_port, m.block)
  /\ UNCHANGED <<server, arp, clients, history, losses>>

(* Mutation: a block out of order is acknowledged as if it were stored. *)
RcvNewerAsIs(m) ==
  /\ FromClient(m) /\ m.block > client_block
  /\ \E left \in Left(m) : TftpSendAck(left, client_ip, client_port, m.block)
  /\ UNCHANGED <<server, arp, clients, history, losses>>

(* A block beyond the one expected. *)
RcvNewer(m) ==
  /\ FromClient(m) /\ m.block > client_block
  /\ \E left \in Left(m) : TftpSendAck(left, client_ip, client_port, client_block)
  /\ UNCHANGED <<server, arp, clients, history, losses>>

(* A block of another client, or one tftp_put refuses: no answer. *)
RcvNothing(m) ==
  /\ m.op = "DATA"
  /\ ~FromClient(m) \/ (m.block = client_block /\ ~Fits(m.data.len))
  /\ net' \in Left(m)
  /\ UNCHANGED <<server, arp, asked, clients, history, losses>>

TftpRcvPacket ==
  /\ ~ending
  /\ \E m \in net : RcvWrq(m) \/ RcvNext(m) \/ RcvOld(m) \/ RcvNewer(m) \/ RcvNothing(m)

-----------------------------------------------------------------------------
(* The clients and the network.                                            *)

Sent(s) == IF at[s] = 0 THEN Wrq(s) ELSE Data(s, at[s])

(* Nothing of this session is under way. *)
Quiet(s) ==
  /\ \A m \in net : m.ip # Host[s] \/ m.port # Port[s]
  /\ Host[s] \notin asked

Start(s) ==
  /\ phase[s] = "idle"
  /\ Orderly => \A t \in Sessions : phase[t] # "sending"
  /\ phase' = [phase EXCEPT ![s] = "sending"]
  /\ net' = net \cup {Wrq(s)}
  /\ UNCHANGED <<server, arp, asked, at, history, losses>>

(* The acknowledgement of what was sent last: send the next block. *)
ClientRcvAck(s) ==
  /\ phase[s] = "sending"
  /\ LET a == Ack(Host[s], Port[s], at[s])
     IN /\ a \in net
        /\ \E left \in Left(a) :
             IF at[s] = Blocks(s)
             THEN /\ phase' = [phase EXCEPT ![s] = "done"]
                  /\ net' = left /\ at' = at
             ELSE /\ at' = [at EXCEPT ![s] = @ + 1]
                  /\ net' = left \cup {Data(s, at[s] + 1)}
                  /\ phase' = phase
  /\ UNCHANGED <<server, arp, asked, history, losses>>

(* Any other acknowledgement is ignored. *)
ClientIgnores(s) ==
  /\ \E a \in net :
       /\ a.op = "ACK" /\ a.ip = Host[s] /\ a.port = Port[s]
       /\ phase[s] = "sending" => a.block # at[s]
       /\ net' \in Left(a)
  /\ UNCHANGED <<server, arp, asked, clients, history, losses>>

Timeout(s) ==
  /\ phase[s] = "sending"
  /\ Orderly => Quiet(s)
  /\ net' = net \cup {Sent(s)}
  /\ UNCHANGED <<server, arp, asked, clients, history, losses>>

GiveUp(s) ==
  /\ phase[s] = "sending"
  /\ Orderly => Quiet(s)
  /\ phase' = [phase EXCEPT ![s] = "gone"]
  /\ UNCHANGED <<server, arp, net, asked, at, history, losses>>

Lose ==
  /\ losses < MaxLosses
  /\ losses' = losses + 1
  /\ \/ \E m \in net : net' = net \ {m} /\ asked' = asked
     \/ \E h \in asked : asked' = asked \ {h} /\ net' = net
  /\ UNCHANGED <<server, arp, clients, history>>

ClientStep == \E s \in Sessions : ClientRcvAck(s) \/ ClientIgnores(s) \/ Timeout(s)

Next ==
  \/ TftpRcvPacket
  \/ EndOfFile
  \/ \E h \in Hosts : ArpRequest(h) \/ ArpReply(h)
  \/ ClientStep
  \/ \E s \in Sessions : Start(s) \/ GiveUp(s)
  \/ Lose

Spec == Init /\ [][Next]_vars

(* The loader polls its interface and ends what it has begun; hosts answer *)
(* themselves.  Uploads need not start, and a client may give up.  Hosts   *)
(* use ARP of their own accord, and drive others out of the cache, only    *)
(* finitely often.                                                         *)
FairSpec ==
  /\ Spec
  /\ WF_vars(TftpRcvPacket)
  /\ WF_vars(EndOfFile)
  /\ WF_vars(\E h \in Hosts : ArpReply(h))
  /\ WF_vars(ClientStep)
  /\ <>[][~\E h \in Hosts : ArpRequest(h)]_vars

-----------------------------------------------------------------------------
(* Properties.                                                             *)

IsPacket(m) ==
  \E s \in Sessions :
    \/ m = Wrq(s)
    \/ \E b \in 1 .. Blocks(s) : m = Data(s, b) \/ m = Ack(Host[s], Port[s], b)
    \/ m = Ack(Host[s], Port[s], 0)

UploadTypes ==
  /\ client_ip \in Hosts \cup {NoHost} /\ client_port \in Ports \cup {0}
  /\ client_block \in 0 .. U16 - 1
  /\ filetype \in Types
  /\ rcvdata_size \in Nat /\ data_len \in 0 .. LimitSize
  /\ put_begin \in BOOLEAN /\ ending \in BOOLEAN
MemoryTypes ==
  /\ buf \in [BufPieces -> Piece \cup {Nothing}]
  /\ flash \in [Parts -> Seq(Piece)]
ArpTypes ==
  /\ arp_cache \in [Slots -> Hosts \cup {NoHost}] /\ arp_chche_cur \in Slots
NetTypes ==
  /\ \A m \in net : IsPacket(m)
  /\ asked \subseteq Hosts
  /\ losses \in 0 .. MaxLosses
ClientTypes ==
  /\ phase \in [Sessions -> {"idle", "sending", "done", "gone"}]
  /\ at \in [Sessions -> Nat] /\ \A s \in Sessions : at[s] <= Blocks(s)
  /\ got \in [Sessions -> Nat]
  /\ verdict \in [Sessions -> {"none", "good", "bad"}]

(* The types of all variables of tftp.c, tftpput.c and arp.c; a packet     *)
(* under way is one that some session sends or gets, and no buffer is      *)
(* filled past its limit.                                                  *)
TypeOK == UploadTypes /\ MemoryTypes /\ ArpTypes /\ NetTypes /\ ClientTypes

(* tftp_rcv_data, tftp_write_flash: whatever packets are lost, repeated or *)
(* late, and however many clients upload at the same time, what is written *)
(* to the flash is one client's file, whole.                               *)
StoredIsSent ==
  \A p \in Parts : flash[p] # <<>> => \E s \in Sessions : flash[p] = File[s]

(* The image of session s has been checked, or is what the loader checks    *)
(* before it does anything else.                                           *)
Checked(s) ==
  verdict[s] # "none" \/ (ending /\ Host[s] = client_ip /\ Port[s] = client_port)

(* tftp_send_ack: the server acknowledges with the number of the block it  *)
(* still waits for when a later one arrives.  Even so, a client that goes  *)
(* on to the next block has had the last one stored, and one that is done  *)
(* has had all of them stored.  The answer to the last block is sent       *)
(* before the image is checked (tftp.c:128-139): the client may be done    *)
(* while no verdict is there, but then no packet of another client comes   *)
(* between the answer and the check.                                       *)
AcknowledgedWasStored ==
  \A s \in Sessions :
    /\ got[s] + 1 >= at[s]
    /\ phase[s] = "done" => got[s] >= Blocks(s) /\ Checked(s)

(* The loader never gets stuck on a lost packet, an unknown address or an  *)
(* upload broken off before: every upload is given up, or ends and its     *)
(* image is checked.                                                       *)
UploadEnds ==
  \A s \in Sessions :
    phase[s] = "sending" ~> phase[s] = "gone" \/ (phase[s] = "done" /\ verdict[s] # "none")
=============================================================================
