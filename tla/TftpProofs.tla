----------------------------- MODULE TftpProofs -----------------------------
(***************************************************************************)
(* The TFTP server against any network and any clients: for every set of   *)
(* uploads and files, every size of the buffer, of the address cache and   *)
(* of the images, and whether delivered packets stay under way or not.     *)
(*                                                                         *)
(* While an upload is under way the memory holds the first pieces of the   *)
(* client's file (UploadInv), and between the answer to the last block and *)
(* its check the whole file (EndingInv).  No packet under way, no client   *)
(* and no server is ahead of what was stored (NetAhead, ServerAhead): the  *)
(* acknowledgement of a block that was not stored just now is of one that  *)
(* its client has left behind.                                             *)
(***************************************************************************)
EXTENDS Tftp, TLAPS

Client(s) == Host[s] = client_ip /\ Port[s] = client_port

UploadOf(s) ==
  /\ client_block \in 1 .. Blocks(s)
  /\ data_len = SEGSIZE * (client_block - 1)
  /\ rcvdata_size = data_len
  /\ \A i \in 1 .. client_block - 1 : i <= Len(File[s]) /\ buf[i] = File[s][i]

UploadInv ==
  put_begin /\ ~ending => /\ \E s \in Sessions : Client(s)
                          /\ \A s \in Sessions : Client(s) => UploadOf(s)

EndingInv ==
  ending => \E s \in Sessions : Client(s) /\ Received(buf, rcvdata_size) = File[s]

NetAhead ==
  \A s \in Sessions :
    /\ \A b \in 1 .. Blocks(s) : Data(s, b) \in net => b <= got[s] + 1
    /\ \A b \in 0 .. Blocks(s) : Ack(Host[s], Port[s], b) \in net => b <= got[s]
    /\ Ack(Host[s], Port[s], Blocks(s)) \in net => Checked(s)

ServerAhead ==
  \A s \in Sessions : Client(s) =>
    /\ client_block <= got[s] + 1
    /\ client_block > Blocks(s) => Checked(s)

IInv ==
  /\ TypeOK /\ UploadInv /\ EndingInv /\ StoredIsSent
  /\ NetAhead /\ ServerAhead /\ AcknowledgedWasStored

-----------------------------------------------------------------------------
(* Files and packets.                                                      *)

LEMMA SizeFacts ==
  LimitSize \in Nat /\ MaxLosses \in Nat /\ ArpSlots \in Nat \ {0} /\ NoHost \notin Hosts
BY TftpAssumption

LEMMA FileFacts ==
  ASSUME NEW s \in Sessions
  PROVE  /\ Len(File[s]) \in Nat /\ Blocks(s) \in Nat \ {0}
         /\ Len(File[s]) <= Blocks(s) /\ Blocks(s) <= Len(File[s]) + 1
         /\ Blocks(s) < U16 - 1
         /\ \A b \in 1 .. Blocks(s) : Block(s, b) \in Piece \cup {Nothing}
         /\ \A b \in 1 .. Blocks(s) - 1 : Block(s, b).len = SEGSIZE
         /\ Block(s, Blocks(s)).len < SEGSIZE
         /\ File[s] \in Seq(Piece)
<1>1. File[s] \in Seq(Piece) /\ Len(File[s]) \in Nat
  BY TftpAssumption
<1>2. \A i \in 1 .. Len(File[s]) : File[s][i] \in Piece
  BY <1>1
<1>3. \A i \in 1 .. Len(File[s]) : File[s][i].len \in 1 .. SEGSIZE
  BY <1>2 DEF Piece
<1>5. Blocks(s) = IF Len(File[s]) # 0 /\ File[s][Len(File[s])].len < SEGSIZE
                  THEN Len(File[s]) ELSE Len(File[s]) + 1
  BY DEF Blocks
<1>6. Blocks(s) \in Nat \ {0} /\ Len(File[s]) <= Blocks(s) /\ Blocks(s) <= Len(File[s]) + 1
  BY <1>1, <1>5
<1>7. Blocks(s) < U16 - 1
  BY BlockAssumption
<1>8. \A b \in 1 .. Blocks(s) : Block(s, b) \in Piece \cup {Nothing}
  BY <1>1, <1>2, <1>6 DEF Block
<1>9. \A i \in 1 .. Len(File[s]) - 1 : File[s][i].len = SEGSIZE
  BY TftpAssumption
<1>10. ASSUME NEW b \in 1 .. Blocks(s) - 1 PROVE Block(s, b).len = SEGSIZE
  <2>1. b <= Len(File[s])
    BY <1>1, <1>6
  <2>2. Block(s, b) = File[s][b]
    BY <2>1 DEF Block
  <2>3. CASE b < Len(File[s])
    BY <2>2, <2>3, <1>1, <1>9
  <2>4. CASE b = Len(File[s])
    <3>1. Len(File[s]) # 0 /\ Blocks(s) # Len(File[s])
      BY <2>4, <1>1, <1>6
    <3>2. ~(File[s][Len(File[s])].len < SEGSIZE)
      BY <3>1, <1>5
    <3>3. File[s][Len(File[s])].len \in 1 .. SEGSIZE
      BY <3>1, <1>1, <1>3
    <3>4. File[s][Len(File[s])].len = SEGSIZE
      <4>1. \A x \in 1 .. SEGSIZE : ~(x < SEGSIZE) => x = SEGSIZE
        BY DEF SEGSIZE
      <4> QED BY <3>2, <3>3, <4>1
    <3> QED BY <2>2, <2>4, <3>4
  <2> QED BY <2>1, <2>3, <2>4, <1>1, <1>6
<1>11. Block(s, Blocks(s)).len < SEGSIZE
  <2>1. CASE Blocks(s) = Len(File[s])
    BY <2>1, <1>1, <1>5 DEF Block
  <2>2. CASE Blocks(s) = Len(File[s]) + 1
    <3>1. Block(s, Blocks(s)) = Nothing
      BY <2>2, <1>1 DEF Block
    <3>2. Nothing.len = 0
      BY DEF Nothing
    <3> QED BY <3>1, <3>2 DEF SEGSIZE
  <2> QED BY <2>1, <2>2, <1>1, <1>6
<1> QED BY <1>1, <1>6, <1>7, <1>8, <1>10, <1>11

LEMMA WrqForm ==
  ASSUME NEW m, IsPacket(m), m.op = "WRQ"
  PROVE  \E s \in Sessions : m = Wrq(s)
BY DEF IsPacket, Wrq, Data, Ack

LEMMA DataForm ==
  ASSUME NEW m, IsPacket(m), m.op = "DATA"
  PROVE  \E s \in Sessions : \E b \in 1 .. Blocks(s) : m = Data(s, b)
BY DEF IsPacket, Wrq, Data, Ack

(* What tells packets apart. *)
LEMMA PacketsDiffer ==
  /\ \A s, t \in Sessions : \A b, c \in Nat :
       /\ Wrq(s) # Data(t, c)
       /\ Data(s, b) = Data(t, c) => s = t /\ b = c
       /\ Ack(Host[s], Port[s], b) = Ack(Host[t], Port[t], c) => s = t /\ b = c
       /\ Ack(Host[s], Port[s], b) # Data(t, c)
       /\ Ack(Host[s], Port[s], b) # Wrq(t)
BY PortAssumption DEF Wrq, Data, Ack

LEMMA HostFacts == \A s \in Sessions : Host[s] \in Hosts /\ Port[s] \in Ports
BY DEF Hosts, Ports

(* What an acknowledgement adds to the packets under way. *)
LEMMA AckSent ==
  ASSUME NetTypes, NEW s \in Sessions, NEW b \in 0 .. Blocks(s),
         NEW m, NEW left \in Left(m), TftpSendAck(left, Host[s], Port[s], b)
  PROVE  /\ net' \subseteq net \cup {Ack(Host[s], Port[s], b)}
         /\ \A p \in net' : IsPacket(p)
         /\ asked' \subseteq Hosts
<1>1. left \subseteq net
  BY DEF Left
<1>2. net' \subseteq net \cup {Ack(Host[s], Port[s], b)}
  BY <1>1 DEF TftpSendAck
<1>3. IsPacket(Ack(Host[s], Port[s], b))
  BY FileFacts DEF IsPacket
<1>4. \A p \in net' : IsPacket(p)
  BY <1>2, <1>3 DEF NetTypes
<1>5. asked' \subseteq Hosts
  BY HostFacts DEF TftpSendAck, NetTypes
<1> QED BY <1>2, <1>4, <1>5

(* History only grows, so what is under way stays behind it. *)
LEMMA NetKept ==
  ASSUME ClientTypes, NetAhead, NEW s \in Sessions, NEW b \in 0 .. Blocks(s),
         net' \subseteq net \cup {Ack(Host[s], Port[s], b)},
         \A t \in Sessions : /\ got'[t] \in Nat /\ got[t] <= got'[t]
                             /\ Checked(t) => Checked(t)',
         b <= got'[s], b = Blocks(s) => Checked(s)'
  PROVE  NetAhead'
<1> SUFFICES ASSUME NEW t \in Sessions
    PROVE /\ \A c \in 1 .. Blocks(t) : Data(t, c) \in net' => c <= got'[t] + 1
          /\ \A c \in 0 .. Blocks(t) : Ack(Host[t], Port[t], c) \in net' => c <= got'[t]
          /\ Ack(Host[t], Port[t], Blocks(t)) \in net' => Checked(t)'
  BY DEF NetAhead
<1>1. Blocks(t) \in Nat \ {0} /\ Blocks(s) \in Nat \ {0} /\ got[t] \in Nat /\ got'[t] \in Nat
  BY FileFacts DEF ClientTypes
<1>2. \A c \in 1 .. Blocks(t) : Data(t, c) \in net' => Data(t, c) \in net
  BY <1>1, PacketsDiffer
<1>3. \A c \in 0 .. Blocks(t) :
        Ack(Host[t], Port[t], c) \in net' => Ack(Host[t], Port[t], c) \in net \/ (s = t /\ b = c)
  BY <1>1, PacketsDiffer
<1>4. ASSUME NEW c \in 1 .. Blocks(t), Data(t, c) \in net' PROVE c <= got'[t] + 1
  <2>1. c <= got[t] + 1
    BY <1>2, <1>4 DEF NetAhead
  <2> QED BY <2>1, <1>1
<1>5. ASSUME NEW c \in 0 .. Blocks(t), Ack(Host[t], Port[t], c) \in net' PROVE c <= got'[t]
  <2>1. CASE Ack(Host[t], Port[t], c) \in net
    <3>1. c <= got[t]
      BY <2>1 DEF NetAhead
    <3> QED BY <3>1, <1>1
  <2>2. CASE s = t /\ b = c
    BY <2>2
  <2> QED BY <2>1, <2>2, <1>3, <1>5
<1>6. ASSUME Ack(Host[t], Port[t], Blocks(t)) \in net' PROVE Checked(t)'
  <2>1. CASE Ack(Host[t], Port[t], Blocks(t)) \in net
    BY <2>1 DEF NetAhead
  <2>2. CASE s = t /\ b = Blocks(t)
    BY <2>2
  <2>3. Blocks(t) \in 0 .. Blocks(t)
    BY <1>1
  <2> QED BY <2>1, <2>2, <2>3, <1>3, <1>6
<1> QED BY <1>4, <1>5, <1>6

-----------------------------------------------------------------------------
(* The initial state. *)

LEMMA InitInv == Init => IInv
<1> SUFFICES ASSUME Init PROVE IInv
  OBVIOUS
<1>1. TypeOK
  <2>1. MemoryTypes
    BY DEF Init, MemoryTypes
  <2>2. ArpTypes
    BY SizeFacts DEF Init, Slots, ArpTypes
  <2>3. UploadTypes
    <3>1. /\ client_ip = NoHost /\ client_port = 0 /\ client_block = 0
          /\ filetype = "none" /\ rcvdata_size = 0 /\ data_len = 0
          /\ put_begin = FALSE /\ ending = FALSE
      BY DEF Init
    <3>2. filetype \in Types
      BY <3>1 DEF Types
    <3>3. 0 \in Nat /\ 0 \in 0 .. LimitSize /\ 0 \in 0 .. U16 - 1
      BY SizeFacts DEF U16
    <3>4. client_ip \in Hosts \cup {NoHost} /\ client_port \in Ports \cup {0}
      BY <3>1
    <3>5. put_begin \in BOOLEAN /\ ending \in BOOLEAN
      BY <3>1
    <3>6. client_block \in 0 .. U16 - 1 /\ rcvdata_size \in Nat /\ data_len \in 0 .. LimitSize
      BY <3>1, <3>3
    <3> QED BY <3>2, <3>4, <3>5, <3>6 DEF UploadTypes
  <2>4. ClientTypes
    BY FileFacts DEF Init, ClientTypes
  <2>5. NetTypes
    BY SizeFacts DEF Init, NetTypes
  <2> QED BY <2>1, <2>2, <2>3, <2>4, <2>5 DEF TypeOK
<1>2. UploadInv /\ EndingInv
  BY DEF Init, UploadInv, EndingInv
<1>3. StoredIsSent
  BY DEF Init, StoredIsSent
<1>4. ASSUME NEW s \in Sessions PROVE ~Client(s)
  BY SizeFacts, HostFacts DEF Init, Client
<1>5. NetAhead
  <2>1. net = {}
    BY DEF Init
  <2> QED BY <2>1 DEF NetAhead
<1>6. ServerAhead
  BY <1>4 DEF ServerAhead
<1>7. AcknowledgedWasStored
  <2>1. /\ at = [s \in Sessions |-> 0] /\ got = [s \in Sessions |-> 0]
        /\ phase = [s \in Sessions |-> "idle"]
    BY DEF Init
  <2>2. \A s \in Sessions : got[s] = 0 /\ at[s] = 0 /\ phase[s] = "idle"
    BY <2>1
  <2>3. ASSUME NEW s \in Sessions PROVE got[s] + 1 >= at[s]
    <3>1. got[s] = 0 /\ at[s] = 0
      BY <2>2
    <3> QED BY <3>1
  <2>4. \A s \in Sessions : phase[s] # "done"
    BY <2>2
  <2> QED BY <2>3, <2>4 DEF AcknowledgedWasStored
<1> QED BY <1>1, <1>2, <1>3, <1>5, <1>6, <1>7 DEF IInv

-----------------------------------------------------------------------------
(* The loader's steps. *)

LEMMA WrqInv ==
  ASSUME IInv, ~ending, NEW m \in net, RcvWrq(m)
  PROVE  IInv'
<1> USE DEF IInv
<1>1. PICK s \in Sessions : m = Wrq(s)
  BY WrqForm DEF TypeOK, NetTypes, RcvWrq
<1>2. m.ip = Host[s] /\ m.port = Port[s] /\ m.name = Name[s]
  BY <1>1 DEF Wrq
<1>3. PICK left \in Left(m) : TftpSendAck(left, Host[s], Port[s], 0)
  BY <1>2 DEF RcvWrq
<1>4. 0 \in 0 .. Blocks(s)
  BY FileFacts
<1>5. /\ net' \subseteq net \cup {Ack(Host[s], Port[s], 0)}
      /\ \A p \in net' : IsPacket(p)
      /\ asked' \subseteq Hosts
  BY <1>3, <1>4, AckSent DEF TypeOK
<1>6. /\ client_ip' = Host[s] /\ client_port' = Port[s] /\ client_block' = 1
      /\ put_begin' = TRUE /\ data_len' = 0 /\ rcvdata_size' = 0
      /\ UNCHANGED <<buf, ending, flash, arp, clients, history, losses>>
      /\ filetype' = FileType(m.name)
  BY <1>2 DEF RcvWrq
<1>7. TypeOK'
  <2>1. filetype' \in Types
    BY <1>6 DEF FileType, Types
  <2>2. UploadTypes'
    <3>1. 0 \in Nat /\ 0 \in 0 .. LimitSize /\ 1 \in 0 .. U16 - 1
      BY SizeFacts DEF U16
    <3>2. client_ip' \in Hosts \cup {NoHost} /\ client_port' \in Ports \cup {0}
      BY <1>6, HostFacts
    <3>3. client_block' \in 0 .. U16 - 1 /\ rcvdata_size' \in Nat /\ data_len' \in 0 .. LimitSize
      BY <1>6, <3>1
    <3>4. put_begin' \in BOOLEAN /\ ending' \in BOOLEAN
      BY <1>6, Zenon DEF TypeOK, UploadTypes
    <3> QED BY <2>1, <3>2, <3>3, <3>4, Zenon DEF UploadTypes
  <2>3. (MemoryTypes /\ ArpTypes /\ ClientTypes)'
    BY <1>6 DEF TypeOK, MemoryTypes, ArpTypes, ClientTypes, arp, clients, history
  <2>4. NetTypes'
    BY <1>5, <1>6 DEF TypeOK, NetTypes
  <2> QED BY <2>2, <2>3, <2>4 DEF TypeOK
<1>8. (UploadInv /\ EndingInv)'
  <2>1. ASSUME NEW t \in Sessions PROVE UploadOf(t)'
    <3>1. SEGSIZE * (1 - 1) = 0
      BY DEF SEGSIZE
    <3>2. Blocks(t) \in Nat \ {0}
      BY FileFacts
    <3> QED BY <1>6, <3>1, <3>2 DEF UploadOf
  <2>2. Client(s)'
    BY <1>6 DEF Client
  <2> QED BY <2>1, <2>2, <1>6 DEF UploadInv, EndingInv
<1>9. StoredIsSent'
  BY <1>6 DEF StoredIsSent
<1>10. UNCHANGED <<got, verdict>> /\ \A t \in Sessions : got[t] \in Nat
  BY <1>6 DEF history, TypeOK, ClientTypes
<1>11. NetAhead'
  <2>1. \A t \in Sessions : Checked(t) => Checked(t)'
    BY <1>10 DEF Checked
  <2> QED BY <2>1, <1>4, <1>5, <1>10, NetKept, FileFacts DEF TypeOK
<1>12. ServerAhead'
  BY <1>6, <1>10, FileFacts DEF ServerAhead
<1>13. AcknowledgedWasStored'
  BY <1>6 DEF AcknowledgedWasStored, Checked, clients, history
<1> QED BY <1>7, <1>8, <1>9, <1>11, <1>12, <1>13

(* A block of the server's client, and what it is. *)
LEMMA FromClientForm ==
  ASSUME IInv, NEW m \in net, FromClient(m)
  PROVE  \E s \in Sessions : \E b \in 1 .. Blocks(s) :
           /\ m = Data(s, b) /\ m.block = b /\ m.data = Block(s, b)
           /\ Client(s) /\ client_ip = Host[s] /\ client_port = Port[s]
<1>1. IsPacket(m) /\ m.op = "DATA"
  BY DEF IInv, TypeOK, NetTypes, FromClient
<1>2. PICK s \in Sessions : \E b \in 1 .. Blocks(s) : m = Data(s, b)
  BY <1>1, DataForm
<1>3. PICK b \in 1 .. Blocks(s) : m = Data(s, b)
  BY <1>2
<1>4. m.ip = Host[s] /\ m.port = Port[s] /\ m.block = b /\ m.data = Block(s, b)
  BY <1>3 DEF Data
<1>5. m.ip = client_ip /\ m.port = client_port
  BY DEF FromClient
<1>6. Client(s) /\ client_ip = Host[s] /\ client_port = Port[s]
  BY <1>4, <1>5 DEF Client
<1> QED BY <1>3, <1>4, <1>6

LEMMA ModSmall ==
  ASSUME NEW m \in Nat, NEW n \in Nat, n < m
  PROVE  n % m = n
<1>1. m > 0
  OBVIOUS
<1> QED BY <1>1

LEMMA BelowWrap ==
  ASSUME NEW n \in Nat, n < U16 - 1
  PROVE  (n + 1) % U16 = n + 1 /\ n + 1 \in 0 .. U16 - 1
<1>1. U16 \in Nat
  BY DEF U16
<1>2. n + 1 \in Nat /\ n + 1 < U16 /\ n + 1 \in 0 .. U16 - 1
  BY <1>1
<1> QED BY <1>1, <1>2, ModSmall

LEMMA InNat ==
  ASSUME NEW a \in Nat, NEW n \in 0 .. a
  PROVE  n \in Nat
OBVIOUS

LEMMA NumberFacts ==
  ASSUME IInv
  PROVE  /\ client_block \in 0 .. U16 - 1 /\ client_block \in Nat
         /\ data_len \in 0 .. LimitSize /\ data_len \in Nat /\ rcvdata_size \in Nat
         /\ \A s \in Sessions : /\ got[s] \in Nat /\ at[s] \in Nat
                                /\ at[s] <= Blocks(s) /\ Blocks(s) \in Nat \ {0}
<1>1. UploadTypes /\ ClientTypes
  BY DEF IInv, TypeOK
<1>2. client_block \in 0 .. U16 - 1 /\ data_len \in 0 .. LimitSize /\ rcvdata_size \in Nat
  BY <1>1 DEF UploadTypes
<1>3. \A s \in Sessions : got[s] \in Nat /\ at[s] \in Nat /\ at[s] <= Blocks(s)
  BY <1>1 DEF ClientTypes
<1>4. client_block \in Nat /\ data_len \in Nat
  <2>1. U16 - 1 \in Nat /\ LimitSize \in Nat
    BY SizeFacts DEF U16
  <2>2. QED
    BY <1>2, <2>1, InNat
<1>5. ASSUME NEW s \in Sessions PROVE Blocks(s) \in Nat \ {0}
  BY FileFacts
<1> QED BY <1>2, <1>3, <1>4, <1>5, Zenon

(* What does not change keeps its type. *)
LEMMA SameTypes ==
  /\ UploadTypes /\ MemoryTypes /\ UNCHANGED server => UploadTypes' /\ MemoryTypes'
  /\ ArpTypes /\ UNCHANGED arp => ArpTypes'
  /\ ClientTypes /\ UNCHANGED <<clients, history>> => ClientTypes'
<1>1. ASSUME UploadTypes, UNCHANGED server PROVE UploadTypes'
  <2>1. client_ip' = client_ip /\ client_port' = client_port
    BY <1>1 DEF server
  <2>2. client_block' = client_block /\ filetype' = filetype
    BY <1>1 DEF server
  <2>3. /\ rcvdata_size' = rcvdata_size /\ data_len' = data_len
        /\ put_begin' = put_begin /\ ending' = ending
    BY <1>1 DEF server
  <2> QED BY <1>1, <2>1, <2>2, <2>3, Zenon DEF UploadTypes
<1>2. MemoryTypes /\ UNCHANGED server => MemoryTypes'
  BY Zenon DEF MemoryTypes, server
<1>3. ArpTypes /\ UNCHANGED arp => ArpTypes'
  BY Zenon DEF ArpTypes, arp
<1>4. ClientTypes /\ UNCHANGED <<clients, history>> => ClientTypes'
  BY Zenon DEF ClientTypes, clients, history
<1> QED BY <1>1, <1>2, <1>3, <1>4

(* Acknowledging without storing anything. *)
LEMMA OnlyAckInv ==
  ASSUME IInv, NEW s \in Sessions, NEW b \in 0 .. Blocks(s), NEW m, NEW left \in Left(m),
         TftpSendAck(left, Host[s], Port[s], b),
         UNCHANGED <<server, arp, clients, history, losses>>,
         b <= got[s], b = Blocks(s) => Checked(s)
  PROVE  IInv'
<1> USE DEF IInv
<1>1. /\ net' \subseteq net \cup {Ack(Host[s], Port[s], b)}
      /\ \A p \in net' : IsPacket(p)
      /\ asked' \subseteq Hosts
  BY AckSent DEF TypeOK
<1>2. TypeOK'
  <2>1. (UploadTypes /\ MemoryTypes /\ ArpTypes /\ ClientTypes)'
    BY SameTypes DEF TypeOK
  <2>2. NetTypes'
    BY <1>1 DEF TypeOK, NetTypes
  <2> QED BY <2>1, <2>2 DEF TypeOK
<1>3. UNCHANGED <<got, verdict>> /\ \A t \in Sessions : got[t] \in Nat
  BY DEF history, TypeOK, ClientTypes
<1>4. NetAhead'
  <2>1. \A t \in Sessions : Checked(t)' <=> Checked(t)
    BY <1>3 DEF Checked, server
  <2> QED BY <2>1, <1>1, <1>3, NetKept DEF TypeOK
<1>5. (UploadInv /\ EndingInv /\ StoredIsSent /\ ServerAhead /\ AcknowledgedWasStored)'
  BY DEF server, clients, history, UploadInv, UploadOf, EndingInv, Client, StoredIsSent,
         ServerAhead, AcknowledgedWasStored, Checked
<1> QED BY <1>2, <1>4, <1>5

LEMMA OldInv ==
  ASSUME IInv, NEW m \in net, RcvOld(m)
  PROVE  IInv'
<1>1. PICK s \in Sessions : \E b \in 1 .. Blocks(s) :
        /\ m.block = b /\ Client(s) /\ client_ip = Host[s] /\ client_port = Port[s]
  BY FromClientForm DEF RcvOld
<1> DEFINE b == m.block
<1>2. client_block \in Nat /\ got[s] \in Nat /\ Blocks(s) \in Nat
  BY NumberFacts
<1>3. /\ b < client_block
      /\ \E left \in Left(m) : TftpSendAck(left, Host[s], Port[s], b)
      /\ UNCHANGED <<server, arp, clients, history, losses>>
  BY <1>1 DEF RcvOld
<1>4. client_block <= got[s] + 1 /\ (client_block > Blocks(s) => Checked(s))
  BY <1>1 DEF IInv, ServerAhead
<1>5. b \in 1 .. Blocks(s)
  BY <1>1
<1>6. b <= got[s] /\ (b = Blocks(s) => client_block > Blocks(s)) /\ b \in 0 .. Blocks(s)
  BY <1>2, <1>3, <1>4, <1>5
<1> QED BY <1>3, <1>4, <1>6, OnlyAckInv

LEMMA NewerInv ==
  ASSUME IInv, NEW m \in net, RcvNewer(m)
  PROVE  IInv'
<1>1. PICK s \in Sessions : \E b \in 1 .. Blocks(s) :
        /\ m = Data(s, b) /\ m.block = b
        /\ Client(s) /\ client_ip = Host[s] /\ client_port = Port[s]
  BY FromClientForm DEF RcvNewer
<1> DEFINE b == m.block
<1>2. client_block \in Nat /\ got[s] \in Nat /\ Blocks(s) \in Nat
  BY NumberFacts
<1>3. /\ b > client_block
      /\ \E left \in Left(m) : TftpSendAck(left, Host[s], Port[s], client_block)
      /\ UNCHANGED <<server, arp, clients, history, losses>>
  BY <1>1 DEF RcvNewer
<1>4. b <= got[s] + 1 /\ b \in 1 .. Blocks(s)
  BY <1>1 DEF IInv, NetAhead
<1>5. client_block <= got[s] /\ client_block # Blocks(s) /\ client_block \in 0 .. Blocks(s)
  BY <1>2, <1>3, <1>4
<1> QED BY <1>3, <1>5, OnlyAckInv

(* Steps that touch neither the server nor what the clients were told, and *)
(* put nothing on the net.                                                 *)
LEMMA ShrinkInv ==
  ASSUME IInv, net' \subseteq net, asked' \subseteq Hosts, ArpTypes',
         losses' \in 0 .. MaxLosses, UNCHANGED <<server, at, got, verdict>>,
         phase' \in [Sessions -> {"idle", "sending", "done", "gone"}],
         \A s \in Sessions : phase'[s] = "done" => phase[s] = "done"
  PROVE  IInv'
<1> USE DEF IInv
<1>1. TypeOK'
  <2>1. (UploadTypes /\ MemoryTypes)'
    BY SameTypes DEF TypeOK
  <2>2. ClientTypes'
    BY DEF TypeOK, ClientTypes
  <2>3. NetTypes'
    BY DEF TypeOK, NetTypes
  <2> QED BY <2>1, <2>2, <2>3 DEF TypeOK
<1>2. NetAhead'
  BY DEF NetAhead, Checked, server
<1>3. (UploadInv /\ EndingInv /\ StoredIsSent /\ ServerAhead)'
  BY DEF server, UploadInv, UploadOf, EndingInv, Client, StoredIsSent, ServerAhead, Checked
<1>4. AcknowledgedWasStored'
  BY DEF AcknowledgedWasStored, Checked, server
<1> QED BY <1>1, <1>2, <1>3, <1>4

(* Pieces and bytes. *)
LEMMA SegFacts ==
  /\ SEGSIZE \in Nat \ {0} /\ 0 < SEGSIZE
  /\ \A a \in Nat :
       /\ SEGSIZE * a \in Nat
       /\ (SEGSIZE * a) \div SEGSIZE = a
       /\ (SEGSIZE * a + 0 + SEGSIZE - 1) \div SEGSIZE = a
       /\ \A l \in 1 .. SEGSIZE : (SEGSIZE * a + l + SEGSIZE - 1) \div SEGSIZE = a + 1
       /\ SEGSIZE * a + SEGSIZE = SEGSIZE * ((a + 2) - 1)
       /\ \A l \in Nat : SEGSIZE * a <= l => a <= l \div SEGSIZE
<1>1. SEGSIZE \in Nat \ {0} /\ 0 < SEGSIZE
  BY DEF SEGSIZE
<1>2. ASSUME NEW a \in Nat
      PROVE  /\ SEGSIZE * a \in Nat
             /\ (SEGSIZE * a) \div SEGSIZE = a
             /\ (SEGSIZE * a + 0 + SEGSIZE - 1) \div SEGSIZE = a
             /\ SEGSIZE * a + SEGSIZE = SEGSIZE * ((a + 2) - 1)
  BY DEF SEGSIZE
<1>3. ASSUME NEW a \in Nat, NEW l \in 1 .. SEGSIZE
      PROVE  (SEGSIZE * a + l + SEGSIZE - 1) \div SEGSIZE = a + 1
  BY DEF SEGSIZE
<1>4. ASSUME NEW a \in Nat, NEW l \in Nat, SEGSIZE * a <= l
      PROVE  a <= l \div SEGSIZE
  <2>1. l \div 512 \in Int /\ l < 512 * (l \div 512) + 512
    OBVIOUS
  <2>2. 512 * a <= l
    BY <1>4 DEF SEGSIZE
  <2>3. \A q \in Int : 512 * a <= l /\ l < 512 * q + 512 => a <= q
    OBVIOUS
  <2>4. a <= l \div 512
    BY <2>1, <2>2, <2>3
  <2> QED BY <2>4 DEF SEGSIZE
<1> QED BY <1>1, <1>2, <1>3, <1>4

(* The expected block goes where the file has it.                          *)
LEMMA NextMemory ==
  ASSUME NEW s \in Sessions, UploadOf(s), buf \in [BufPieces -> Piece \cup {Nothing}],
         NEW d, d = Block(s, client_block), data_len + d.len <= LimitSize,
         buf' = IF d.len = 0 THEN buf ELSE [buf EXCEPT ![data_len \div SEGSIZE + 1] = d]
  PROVE  /\ d.len \in 0 .. SEGSIZE
         /\ buf' \in [BufPieces -> Piece \cup {Nothing}]
         /\ d.len = SEGSIZE => /\ client_block < Blocks(s)
                               /\ \A i \in 1 .. client_block :
                                    i <= Len(File[s]) /\ buf'[i] = File[s][i]
         /\ d.len < SEGSIZE => /\ client_block = Blocks(s)
                               /\ Received(buf', rcvdata_size + d.len) = File[s]
<1> DEFINE a == client_block - 1
           L == Len(File[s])
<1>1. /\ client_block \in 1 .. Blocks(s) /\ data_len = SEGSIZE * a /\ rcvdata_size = SEGSIZE * a
      /\ \A i \in 1 .. a : i <= L /\ buf[i] = File[s][i]
  BY DEF UploadOf
<1>2. /\ L \in Nat /\ Blocks(s) \in Nat \ {0} /\ L <= Blocks(s) /\ Blocks(s) <= L + 1
      /\ File[s] \in Seq(Piece)
      /\ d \in Piece \cup {Nothing}
  BY <1>1, FileFacts
<1>3. client_block \in Nat /\ a \in Nat /\ client_block = a + 1
  BY <1>1, <1>2
<1>4. (d \in Piece /\ d.len \in 1 .. SEGSIZE) \/ (d = Nothing /\ d.len = 0)
  <2>1. d \in Piece => d.len \in 1 .. SEGSIZE
    BY DEF Piece
  <2>2. Nothing.len = 0
    BY DEF Nothing
  <2> QED BY <2>1, <2>2, <1>2
<1>5. d.len \in 0 .. SEGSIZE
  BY <1>4, SegFacts
<1>6. (client_block < Blocks(s) => d.len = SEGSIZE) /\ (client_block = Blocks(s) => d.len < SEGSIZE)
  <2>1. \A b \in 1 .. Blocks(s) - 1 : Block(s, b).len = SEGSIZE
    BY FileFacts
  <2>2. Block(s, Blocks(s)).len < SEGSIZE
    BY FileFacts
  <2>3. client_block < Blocks(s) => client_block \in 1 .. Blocks(s) - 1
    BY <1>1, <1>2
  <2> QED BY <2>1, <2>2, <2>3
<1>7. d.len = SEGSIZE => client_block < Blocks(s)
  BY <1>1, <1>2, <1>5, <1>6, SegFacts
<1>8. d.len < SEGSIZE => client_block = Blocks(s)
  BY <1>1, <1>2, <1>5, <1>6, SegFacts
<1>9. data_len \div SEGSIZE + 1 = client_block
  BY <1>1, <1>3, SegFacts
<1>10. d.len # 0 => client_block <= L /\ d = File[s][client_block]
  <2>1. CASE client_block <= L
    <3>1. d = File[s][client_block]
      BY <2>1 DEF Block
    <3> QED BY <2>1, <3>1
  <2>2. CASE ~(client_block <= L)
    <3>1. d = Nothing
      BY <2>2 DEF Block
    <3>2. Nothing.len = 0
      BY DEF Nothing
    <3> QED BY <3>1, <3>2
  <2> QED BY <2>1, <2>2
<1>11. d.len = 0 => L = a
  <2>1. d.len = 0 => client_block = Blocks(s)
    BY <1>8, SegFacts
  <2>2. ASSUME d.len = 0 PROVE ~(client_block <= L)
    <3>1. SUFFICES ASSUME client_block <= L PROVE FALSE
      OBVIOUS
    <3>2. d = File[s][client_block]
      BY <3>1 DEF Block
    <3>3. d \in Piece
      BY <3>1, <3>2, <1>1, <1>2, <1>3
    <3>4. d.len \in 1 .. SEGSIZE
      BY <3>3 DEF Piece
    <3> QED BY <2>2, <3>4, SegFacts
  <2> QED BY <2>1, <2>2, <1>2, <1>3
<1>12. client_block \in BufPieces /\ BufPieces = 1 .. LimitSize \div SEGSIZE + 1
       /\ LimitSize \div SEGSIZE \in Int
  <2>1. SEGSIZE * a <= LimitSize
    BY <1>1, <1>3, <1>5, SegFacts, SizeFacts
  <2>2. a <= LimitSize \div SEGSIZE
    BY <2>1, <1>3, SegFacts, SizeFacts
  <2>3. LimitSize \div SEGSIZE \in Int
    BY SizeFacts DEF SEGSIZE
  <2> QED BY <2>2, <2>3, <1>3 DEF BufPieces
<1>13. buf' \in [BufPieces -> Piece \cup {Nothing}]
  <2>1. CASE d.len = 0
    BY <2>1
  <2>2. CASE d.len # 0
    BY <2>2, <1>2, <1>9
  <2> QED BY <2>1, <2>2
<1>14. \A i \in 1 .. a : buf'[i] = File[s][i]
  <2>1. CASE d.len = 0
    BY <2>1, <1>1
  <2>2. CASE d.len # 0
    <3>1. buf' = [buf EXCEPT ![client_block] = d]
      BY <2>2, <1>9
    <3>2. ASSUME NEW i \in 1 .. a PROVE buf'[i] = File[s][i]
      <4>1. i # client_block
        BY <1>3
      <4>2. buf'[i] = buf[i]
        <5>1. i \in BufPieces
          BY <1>3, <1>12
        <5> QED BY <3>1, <4>1, <5>1
      <4> QED BY <4>2, <1>1
    <3> QED BY <3>2
  <2> QED BY <2>1, <2>2
<1>15. d.len # 0 => buf'[client_block] = File[s][client_block]
  BY <1>9, <1>10, <1>12
<1>16. d.len # 0 => \A i \in 1 .. client_block : i <= L /\ buf'[i] = File[s][i]
  <2>1. \A i \in 1 .. client_block : i \in 1 .. a \/ i = client_block
    BY <1>3
  <2> QED BY <2>1, <1>1, <1>10, <1>14, <1>15
<1>17. ASSUME d.len < SEGSIZE PROVE Received(buf', rcvdata_size + d.len) = File[s]
  <2> DEFINE n == rcvdata_size + d.len + SEGSIZE - 1
  <2>1. n \div SEGSIZE = L /\ \A i \in 1 .. L : buf'[i] = File[s][i]
    <3>1. CASE d.len = 0
      <4>1. rcvdata_size + d.len + SEGSIZE - 1 = SEGSIZE * a + 0 + SEGSIZE - 1
        BY <3>1, <1>1
      <4>2. n \div SEGSIZE = a
        BY <4>1, <1>3, SegFacts
      <4> QED BY <4>2, <3>1, <1>11, <1>14
    <3>2. CASE d.len # 0
      <4>1. d.len \in 1 .. SEGSIZE
        BY <3>2, <1>4
      <4>2. n \div SEGSIZE = a + 1
        BY <4>1, <1>1, <1>3, SegFacts
      <4>3. L = client_block
        BY <3>2, <1>2, <1>8, <1>10, <1>17, <1>3
      <4> QED BY <4>2, <4>3, <3>2, <1>3, <1>16
    <3> QED BY <3>1, <3>2
  <2>2. File[s] = [i \in 1 .. L |-> File[s][i]]
    BY <1>2
  <2>3. Received(buf', rcvdata_size + d.len) = [i \in 1 .. L |-> buf'[i]]
    BY <2>1 DEF Received
  <2>4. [i \in 1 .. L |-> buf'[i]] = [i \in 1 .. L |-> File[s][i]]
    BY <2>1
  <2> QED BY <2>2, <2>3, <2>4
<1>18. SEGSIZE # 0
  BY SegFacts
<1> QED BY <1>5, <1>7, <1>8, <1>13, <1>16, <1>17, <1>18

(* What happens after the answer to the last block.                        *)
LEMMA EndFacts ==
  ASSUME UploadTypes, ClientTypes, EndOfFile
  PROVE  /\ filetype' \in Types
         /\ \/ flash' = flash
            \/ \E p \in Parts : flash' = [flash EXCEPT ![p] = Received(buf, rcvdata_size)]
         /\ verdict' \in [Sessions -> {"none", "good", "bad"}]
         /\ \A s \in Sessions : /\ Client(s) => verdict'[s] # "none"
                                /\ verdict[s] # "none" => verdict'[s] # "none"
<1> DEFINE image == Received(buf, rcvdata_size)
           type == SizeType(rcvdata_size, filetype)
           good == CheckFile(type, rcvdata_size, image)
<1>1. /\ filetype' = type
      /\ flash' = IF good /\ type \in Parts THEN [flash EXCEPT ![type] = image] ELSE flash
  BY DEF EndOfFile
<1>2. verdict' = [s \in Sessions |-> IF Client(s) THEN IF good THEN "good" ELSE "bad"
                                     ELSE verdict[s]]
  BY DEF EndOfFile, Client
<1>3. filetype \in Types /\ verdict \in [Sessions -> {"none", "good", "bad"}]
  BY DEF UploadTypes, ClientTypes
<1>4. type \in Types
  BY <1>3 DEF SizeType, Types
<1>5. flash' = flash \/ \E p \in Parts : flash' = [flash EXCEPT ![p] = image]
  <2> HIDE DEF type, good
  <2> QED BY <1>1
<1>6. ASSUME NEW s \in Sessions
      PROVE  /\ verdict'[s] \in {"none", "good", "bad"}
             /\ Client(s) => verdict'[s] # "none"
             /\ verdict[s] # "none" => verdict'[s] # "none"
  <2> HIDE DEF type, good
  <2>1. verdict'[s] = IF Client(s) THEN IF good THEN "good" ELSE "bad" ELSE verdict[s]
    BY <1>2
  <2> QED BY <2>1, <1>3
<1>7. verdict' \in [Sessions -> {"none", "good", "bad"}]
  <2> HIDE DEF type, good
  <2>1. DOMAIN verdict' = Sessions /\ verdict' = [s \in Sessions |-> verdict'[s]]
    BY <1>2
  <2> QED BY <2>1, <1>6
<1> QED BY <1>1, <1>4, <1>5, <1>6, <1>7

(* The check gives the client of the last block its verdict, and the flash *)
(* the whole file or nothing.                                              *)
LEMMA EndInv ==
  ASSUME IInv, EndOfFile
  PROVE  IInv'
<1>1. PICK s \in Sessions : Client(s) /\ Received(buf, rcvdata_size) = File[s]
  BY DEF IInv, EndingInv, EndOfFile
<1>2. /\ ending /\ ending' = FALSE /\ put_begin' = FALSE
      /\ UNCHANGED <<client_ip, client_port, client_block, rcvdata_size, buf, data_len,
                     arp, net, asked, clients, got, losses>>
  BY DEF EndOfFile
<1>3. /\ UploadTypes /\ MemoryTypes /\ ArpTypes /\ NetTypes /\ ClientTypes
      /\ StoredIsSent /\ NetAhead /\ ServerAhead /\ AcknowledgedWasStored
  BY DEF IInv, TypeOK
<1>4. /\ filetype' \in Types
      /\ flash' = flash \/ \E p \in Parts : flash' = [flash EXCEPT ![p] = File[s]]
      /\ verdict' \in [Sessions -> {"none", "good", "bad"}]
      /\ \A t \in Sessions : /\ Client(t) => verdict'[t] # "none"
                             /\ verdict[t] # "none" => verdict'[t] # "none"
  BY <1>1, <1>3, EndFacts
<1>5. UNCHANGED <<phase, at, got>>
  BY <1>2 DEF clients
<1>6. \A t \in Sessions : Checked(t) => Checked(t)'
  BY <1>4 DEF Checked, Client
<1>7. TypeOK'
  <2>1. UploadTypes'
    <3>1. client_ip' \in Hosts \cup {NoHost} /\ client_port' \in Ports \cup {0}
      BY <1>2, <1>3 DEF UploadTypes
    <3>2. client_block' \in 0 .. U16 - 1 /\ rcvdata_size' \in Nat /\ data_len' \in 0 .. LimitSize
      BY <1>2, <1>3 DEF UploadTypes
    <3>3. put_begin' \in BOOLEAN /\ ending' \in BOOLEAN
      BY <1>2
    <3> QED BY <3>1, <3>2, <3>3, <1>4, Zenon DEF UploadTypes
  <2>2. MemoryTypes'
    <3>1. flash \in [Parts -> Seq(Piece)] /\ File[s] \in Seq(Piece)
      BY <1>3, FileFacts DEF MemoryTypes
    <3>2. flash' \in [Parts -> Seq(Piece)]
      BY <3>1, <1>4
    <3> QED BY <3>2, <1>2, <1>3 DEF MemoryTypes
  <2>3. ArpTypes'
    BY <1>2, <1>3, SameTypes
  <2>4. NetTypes'
    BY <1>2, <1>3 DEF NetTypes
  <2>5. ClientTypes'
    BY <1>3, <1>4, <1>5 DEF ClientTypes
  <2> QED BY <2>1, <2>2, <2>3, <2>4, <2>5 DEF TypeOK
<1>8. (UploadInv /\ EndingInv)'
  BY <1>2 DEF UploadInv, EndingInv
<1>9. StoredIsSent'
  <2>1. \A p \in Parts : flash'[p] = flash[p] \/ flash'[p] = File[s]
    <3>1. flash \in [Parts -> Seq(Piece)]
      BY <1>3 DEF MemoryTypes
    <3> QED BY <3>1, <1>4
  <2> QED BY <2>1, <1>3 DEF StoredIsSent
<1>10. NetAhead'
  BY <1>2, <1>3, <1>6 DEF NetAhead
<1>11. ServerAhead'
  BY <1>2, <1>3, <1>6 DEF ServerAhead, Client
<1>12. AcknowledgedWasStored'
  BY <1>3, <1>5, <1>6 DEF AcknowledgedWasStored
<1> QED BY <1>7, <1>8, <1>9, <1>10, <1>11, <1>12 DEF IInv

(* The expected block, and what storing it changes.                        *)
LEMMA NextFacts ==
  ASSUME IInv, ~ending, NEW m \in net, RcvNext(m)
  PROVE  \E s \in Sessions :
           /\ \A t \in Sessions : Client(t) <=> t = s
           /\ client_ip = Host[s] /\ client_port = Port[s]
           /\ client_block \in 1 .. Blocks(s) /\ m.block = client_block
           /\ m.data = Block(s, client_block)
           /\ UploadOf(s)
<1>1. FromClient(m) /\ m.block = client_block /\ put_begin
  BY DEF RcvNext, Fits
<1>2. PICK s \in Sessions : \E b \in 1 .. Blocks(s) :
        /\ m = Data(s, b) /\ m.block = b /\ m.data = Block(s, b)
        /\ Client(s) /\ client_ip = Host[s] /\ client_port = Port[s]
  BY <1>1, FromClientForm
<1>3. \A t \in Sessions : Client(t) <=> t = s
  BY <1>2, PortAssumption DEF Client
<1>4. UploadOf(s)
  BY <1>1, <1>2 DEF IInv, UploadInv
<1> QED BY <1>1, <1>2, <1>3, <1>4

LEMMA NextInv ==
  ASSUME IInv, ~ending, NEW m \in net, RcvNext(m)
  PROVE  IInv'
<1>1. PICK s \in Sessions :
        /\ \A t \in Sessions : Client(t) <=> t = s
        /\ client_ip = Host[s] /\ client_port = Port[s]
        /\ client_block \in 1 .. Blocks(s) /\ m.block = client_block
        /\ m.data = Block(s, client_block)
        /\ UploadOf(s)
  BY NextFacts
<1> DEFINE d == m.data
           b == client_block
<1>2. /\ put_begin /\ data_len + d.len <= LimitSize
      /\ buf' = IF d.len = 0 THEN buf ELSE [buf EXCEPT ![data_len \div SEGSIZE + 1] = d]
      /\ data_len' = data_len + d.len /\ rcvdata_size' = rcvdata_size + d.len
      /\ client_block' = (b + 1) % U16
      /\ ending' = (d.len < SEGSIZE)
      /\ UNCHANGED <<client_ip, client_port, filetype, put_begin, flash,
                     arp, clients, verdict, losses>>
  BY DEF RcvNext, Fits
<1>3. PICK left \in Left(m) : TftpSendAck(left, Host[s], Port[s], b)
  BY <1>1 DEF RcvNext
<1>4. \A t \in Sessions : Client(t)' <=> t = s
  BY <1>1, <1>2 DEF Client
<1>5. got' = [t \in Sessions |-> IF Client(t) /\ got[t] < b THEN b ELSE got[t]]
  BY <1>1 DEF RcvNext, Client
<1>6. /\ b \in Nat /\ b \in 1 .. Blocks(s) /\ Blocks(s) \in Nat /\ Blocks(s) < U16 - 1
      /\ data_len \in Nat /\ rcvdata_size \in Nat /\ LimitSize \in Nat
      /\ \A t \in Sessions : got[t] \in Nat /\ at[t] \in Nat /\ at[t] <= Blocks(t) /\ Blocks(t) \in Nat
  BY <1>1, NumberFacts, FileFacts, SizeFacts
<1>7. client_block' = b + 1 /\ b + 1 \in 0 .. U16 - 1
  <2>1. U16 \in Nat
    BY DEF U16
  <2>2. b < U16 - 1
    BY <1>6, <2>1
  <2>3. (b + 1) % U16 = b + 1 /\ b + 1 \in 0 .. U16 - 1
    BY <1>6, <2>2, BelowWrap
  <2> QED BY <1>2, <2>3
<1>8. /\ UploadTypes /\ MemoryTypes /\ ArpTypes /\ NetTypes /\ ClientTypes
      /\ StoredIsSent /\ NetAhead /\ ServerAhead /\ AcknowledgedWasStored
  BY DEF IInv, TypeOK
<1>9. /\ d.len \in 0 .. SEGSIZE
      /\ buf' \in [BufPieces -> Piece \cup {Nothing}]
      /\ d.len = SEGSIZE => /\ b < Blocks(s)
                            /\ \A i \in 1 .. b : i <= Len(File[s]) /\ buf'[i] = File[s][i]
      /\ d.len < SEGSIZE => /\ b = Blocks(s)
                            /\ Received(buf', rcvdata_size + d.len) = File[s]
  <2>1. buf \in [BufPieces -> Piece \cup {Nothing}]
    BY <1>8 DEF MemoryTypes
  <2> QED BY <2>1, <1>1, <1>2, NextMemory
<1>10. d.len \in Nat /\ (d.len = SEGSIZE \/ d.len < SEGSIZE)
  BY <1>9, SegFacts
<1>11. (d.len < SEGSIZE => Checked(s)') /\ \A t \in Sessions : Checked(t) => Checked(t)'
  BY <1>1, <1>2 DEF Checked
<1> HIDE DEF d, b
<1>12. \A t \in Sessions : got'[t] = IF t = s /\ got[t] < b THEN b ELSE got[t]
  BY <1>1, <1>5
<1>13. /\ got' \in [Sessions -> Nat] /\ b <= got'[s]
       /\ \A t \in Sessions : got'[t] \in Nat /\ got[t] <= got'[t]
  <2>1. ASSUME NEW t \in Sessions PROVE got'[t] \in Nat /\ got[t] <= got'[t]
    BY <1>6, <1>12
  <2>2. got' = [t \in Sessions |-> got'[t]]
    BY <1>5
  <2>3. b <= got'[s]
    BY <1>6, <1>12
  <2> QED BY <2>1, <2>2, <2>3
<1>14. b \in 0 .. Blocks(s) /\ (b = Blocks(s) => Checked(s)')
  <2>1. b = Blocks(s) => d.len < SEGSIZE
    BY <1>6, <1>9, <1>10
  <2> QED BY <2>1, <1>6, <1>11
<1>15. /\ net' \subseteq net \cup {Ack(Host[s], Port[s], b)}
       /\ \A p \in net' : IsPacket(p)
       /\ asked' \subseteq Hosts
  BY <1>3, <1>8, <1>14, AckSent
<1>16. ending' \in BOOLEAN /\ (ending' <=> d.len < SEGSIZE)
  <2> DEFINE last == d.len < SEGSIZE
  <2>1. last \in BOOLEAN
    OBVIOUS
  <2>2. ending' = last
    BY <1>2
  <2> HIDE DEF last
  <2>3. ending' \in BOOLEAN /\ (ending' <=> last)
    BY <2>1, <2>2, Zenon
  <2> QED BY <2>3 DEF last
<1>17. TypeOK'
  <2>1. UploadTypes'
    <3>1. client_ip' \in Hosts \cup {NoHost} /\ client_port' \in Ports \cup {0}
      BY <1>2, <1>8 DEF UploadTypes
    <3>2. client_block' \in 0 .. U16 - 1
      BY <1>7
    <3>3. rcvdata_size' \in Nat /\ data_len' \in 0 .. LimitSize
      BY <1>2, <1>6, <1>10
    <3>4. filetype' \in Types /\ put_begin' \in BOOLEAN
      BY <1>2, <1>8 DEF UploadTypes
    <3> QED BY <3>1, <3>2, <3>3, <3>4, <1>16, Zenon DEF UploadTypes
  <2>2. MemoryTypes'
    BY <1>2, <1>8, <1>9 DEF MemoryTypes
  <2>3. ArpTypes'
    BY <1>2, <1>8, SameTypes
  <2>4. NetTypes'
    BY <1>2, <1>8, <1>15 DEF NetTypes
  <2>5. ClientTypes'
    <3>1. UNCHANGED <<phase, at, verdict>>
      BY <1>2 DEF clients
    <3> QED BY <3>1, <1>8, <1>13 DEF ClientTypes
  <2> QED BY <2>1, <2>2, <2>3, <2>4, <2>5 DEF TypeOK
<1>18. EndingInv'
  <2>1. SUFFICES ASSUME ending' PROVE Client(s)' /\ Received(buf', rcvdata_size') = File[s]
    BY DEF EndingInv
  <2>2. Received(buf', rcvdata_size') = File[s]
    BY <2>1, <1>2, <1>9, <1>16
  <2> QED BY <2>2, <1>4
<1>19. UploadInv'
  <2>1. SUFFICES ASSUME ~ending' PROVE UploadOf(s)'
    BY <1>4 DEF UploadInv
  <2>2. d.len = SEGSIZE
    BY <2>1, <1>10, <1>16
  <2>3. client_block' \in 1 .. Blocks(s) /\ client_block' - 1 = b
    BY <2>2, <1>6, <1>7, <1>9
  <2>4. data_len = SEGSIZE * (b - 1) /\ rcvdata_size = data_len
    BY <1>1 DEF UploadOf, b
  <2>5. SEGSIZE * (b - 1) + SEGSIZE = SEGSIZE * b
    BY <1>6 DEF SEGSIZE
  <2>6. data_len' = SEGSIZE * (client_block' - 1) /\ rcvdata_size' = data_len'
    BY <2>2, <2>3, <2>4, <2>5, <1>2
  <2>7. \A i \in 1 .. b : i <= Len(File[s]) /\ buf'[i] = File[s][i]
    BY <2>2, <1>9
  <2> QED BY <2>3, <2>6, <2>7 DEF UploadOf
<1>20. StoredIsSent'
  BY <1>2, <1>8 DEF StoredIsSent
<1>21. NetAhead'
  BY <1>8, <1>11, <1>13, <1>14, <1>15, NetKept
<1>22. ServerAhead'
  <2>1. client_block' <= got'[s] + 1
    BY <1>6, <1>7, <1>13
  <2>2. client_block' > Blocks(s) => Checked(s)'
    BY <1>6, <1>7, <1>14
  <2> QED BY <2>1, <2>2, <1>4 DEF ServerAhead
<1>23. AcknowledgedWasStored'
  <2>1. UNCHANGED <<phase, at>>
    BY <1>2 DEF clients
  <2>2. ASSUME NEW t \in Sessions PROVE got'[t] + 1 >= at'[t]
    <3>1. got[t] + 1 >= at[t]
      BY <1>8 DEF AcknowledgedWasStored
    <3> QED BY <3>1, <2>1, <1>6, <1>13
  <2>3. ASSUME NEW t \in Sessions, phase'[t] = "done" PROVE got'[t] >= Blocks(t) /\ Checked(t)'
    <3>1. got[t] >= Blocks(t) /\ Checked(t)
      BY <2>1, <2>3, <1>8 DEF AcknowledgedWasStored
    <3> QED BY <3>1, <1>6, <1>11, <1>13
  <2> QED BY <2>2, <2>3 DEF AcknowledgedWasStored
<1> QED BY <1>17, <1>18, <1>19, <1>20, <1>21, <1>22, <1>23 DEF IInv

LEMMA ArpInv ==
  ASSUME ArpTypes, NEW h \in Hosts, ArpAddCache(h)
  PROVE  ArpTypes'
<1>1. arp_cache \in [Slots -> Hosts \cup {NoHost}] /\ arp_chche_cur \in Slots
  BY DEF ArpTypes
<1>2. CASE UNCHANGED arp
  BY <1>2, SameTypes
<1>3. CASE /\ arp_cache' = [arp_cache EXCEPT ![arp_chche_cur] = h]
           /\ arp_chche_cur' = (arp_chche_cur + 1) % ArpSlots
  <2>1. arp_cache' \in [Slots -> Hosts \cup {NoHost}]
    BY <1>1, <1>3
  <2>2. arp_chche_cur \in Nat /\ ArpSlots \in Nat \ {0}
    BY <1>1, SizeFacts DEF Slots
  <2>3. (arp_chche_cur + 1) % ArpSlots \in 0 .. ArpSlots - 1
    BY <2>2
  <2> QED BY <2>1, <2>3, <1>3 DEF ArpTypes, Slots
<1> QED BY <1>2, <1>3 DEF ArpAddCache

-----------------------------------------------------------------------------
(* The steps of the clients and of the network. *)

(* A client puts its request, or a block the server may get, on the net.   *)
LEMMA SendInv ==
  ASSUME IInv, NEW s \in Sessions, NEW p,
         p = Wrq(s) \/ \E b \in 1 .. Blocks(s) : p = Data(s, b) /\ b <= got[s] + 1,
         net' \subseteq net \cup {p}, UNCHANGED <<server, arp, asked, history, losses>>,
         ClientTypes', AcknowledgedWasStored'
  PROVE  IInv'
<1>1. /\ UploadTypes /\ MemoryTypes /\ ArpTypes /\ NetTypes /\ ClientTypes
      /\ UploadInv /\ EndingInv /\ StoredIsSent /\ NetAhead /\ ServerAhead
  BY DEF IInv, TypeOK
<1>2. IsPacket(p)
  BY DEF IsPacket
<1>3. NetTypes'
  BY <1>1, <1>2 DEF NetTypes
<1>4. TypeOK'
  BY <1>1, <1>3, SameTypes DEF TypeOK
<1>5. UNCHANGED <<got, verdict>>
  BY DEF history
<1>6. NetAhead'
  <2> SUFFICES ASSUME NEW t \in Sessions
      PROVE /\ \A c \in 1 .. Blocks(t) : Data(t, c) \in net' => c <= got[t] + 1
            /\ \A c \in 0 .. Blocks(t) : Ack(Host[t], Port[t], c) \in net' => c <= got[t]
            /\ Ack(Host[t], Port[t], Blocks(t)) \in net' => Checked(t)
    BY <1>5 DEF NetAhead, Checked, server
  <2>1. Blocks(t) \in Nat \ {0} /\ Blocks(s) \in Nat \ {0}
    BY FileFacts
  <2>2. \A c \in 0 .. Blocks(t) : Ack(Host[t], Port[t], c) \in net' => Ack(Host[t], Port[t], c) \in net
    <3>1. ASSUME NEW c \in 0 .. Blocks(t) PROVE Ack(Host[t], Port[t], c) # p
      <4>1. CASE p = Wrq(s)
        BY <4>1, <2>1, PacketsDiffer
      <4>2. CASE \E b \in 1 .. Blocks(s) : p = Data(s, b)
        <5>1. c \in Nat /\ \A b \in 1 .. Blocks(s) : b \in Nat
          BY <2>1
        <5> QED BY <4>2, <5>1, PacketsDiffer
      <4> QED BY <4>1, <4>2
    <3> QED BY <3>1
  <2>3. \A c \in 1 .. Blocks(t) :
          Data(t, c) \in net' => Data(t, c) \in net \/ (s = t /\ c <= got[s] + 1)
    BY <2>1, PacketsDiffer
  <2>4. \A c \in 1 .. Blocks(t) : Data(t, c) \in net => c <= got[t] + 1
    BY <1>1 DEF NetAhead
  <2>5. Blocks(t) \in 0 .. Blocks(t)
    BY <2>1
  <2>6. /\ \A c \in 0 .. Blocks(t) : Ack(Host[t], Port[t], c) \in net => c <= got[t]
        /\ Ack(Host[t], Port[t], Blocks(t)) \in net => Checked(t)
    BY <1>1 DEF NetAhead
  <2> QED BY <2>2, <2>3, <2>4, <2>5, <2>6
<1>7. (UploadInv /\ EndingInv /\ StoredIsSent /\ ServerAhead)'
  BY <1>1, <1>5 DEF server, UploadInv, UploadOf, EndingInv, Client, StoredIsSent, ServerAhead,
                    Checked
<1> QED BY <1>4, <1>6, <1>7 DEF IInv

LEMMA StartInv ==
  ASSUME IInv, NEW s \in Sessions, Start(s)
  PROVE  IInv'
<1>1. /\ phase' = [phase EXCEPT ![s] = "sending"]
      /\ net' \subseteq net \cup {Wrq(s)}
      /\ UNCHANGED <<server, arp, asked, at, history, losses>>
  BY DEF Start
<1>2. ClientTypes /\ AcknowledgedWasStored
  BY DEF IInv, TypeOK
<1>3. UNCHANGED <<at, got, verdict>>
  BY <1>1 DEF history
<1>4. ClientTypes'
  BY <1>1, <1>2, <1>3 DEF ClientTypes
<1>5. \A t \in Sessions : phase'[t] = "done" => phase[t] = "done"
  BY <1>1, <1>2 DEF ClientTypes
<1>6. AcknowledgedWasStored'
  BY <1>1, <1>2, <1>3, <1>5 DEF AcknowledgedWasStored, Checked, server
<1> QED BY <1>1, <1>4, <1>6, SendInv

LEMMA TimeoutInv ==
  ASSUME IInv, NEW s \in Sessions, Timeout(s)
  PROVE  IInv'
<1>1. net' \subseteq net \cup {Sent(s)} /\ UNCHANGED <<server, arp, asked, clients, history, losses>>
  BY DEF Timeout
<1>2. ClientTypes /\ AcknowledgedWasStored
  BY DEF IInv, TypeOK
<1>3. (ClientTypes /\ AcknowledgedWasStored)'
  BY <1>1, <1>2, SameTypes DEF server, clients, history, AcknowledgedWasStored, Checked
<1>4. got[s] \in Nat /\ at[s] \in Nat /\ at[s] <= Blocks(s) /\ Blocks(s) \in Nat
  BY NumberFacts
<1>5. got[s] + 1 >= at[s]
  BY <1>2 DEF AcknowledgedWasStored
<1>6. Sent(s) = Wrq(s) \/ \E b \in 1 .. Blocks(s) : Sent(s) = Data(s, b) /\ b <= got[s] + 1
  <2>1. CASE at[s] = 0
    BY <2>1 DEF Sent
  <2>2. CASE at[s] # 0
    <3>1. Sent(s) = Data(s, at[s])
      BY <2>2 DEF Sent
    <3>2. at[s] \in 1 .. Blocks(s) /\ at[s] <= got[s] + 1
      BY <2>2, <1>4, <1>5
    <3> QED BY <3>1, <3>2
  <2> QED BY <2>1, <2>2
<1> QED BY <1>1, <1>3, <1>6, SendInv

(* The acknowledgement of at[s] says that at[s] was stored, so the next    *)
(* block is at most one ahead.                                             *)
LEMMA ClientRcvAckInv ==
  ASSUME IInv, NEW s \in Sessions, ClientRcvAck(s)
  PROVE  IInv'
<1> DEFINE a == Ack(Host[s], Port[s], at[s])
<1>1. /\ a \in net
      /\ UNCHANGED <<server, arp, asked, history, losses>>
  BY DEF ClientRcvAck
<1>2. PICK left \in Left(a) :
        IF at[s] = Blocks(s)
        THEN /\ phase' = [phase EXCEPT ![s] = "done"]
             /\ net' = left /\ at' = at
        ELSE /\ at' = [at EXCEPT ![s] = @ + 1]
             /\ net' = left \cup {Data(s, at[s] + 1)}
             /\ phase' = phase
  BY DEF ClientRcvAck
<1>3. left \subseteq net
  BY DEF Left
<1>4. /\ ArpTypes /\ NetTypes /\ ClientTypes /\ NetAhead /\ AcknowledgedWasStored
  BY DEF IInv, TypeOK
<1>5. \A t \in Sessions : /\ got[t] \in Nat /\ at[t] \in Nat
                          /\ at[t] <= Blocks(t) /\ Blocks(t) \in Nat
  BY NumberFacts
<1>6. UNCHANGED <<got, verdict>>
  BY <1>1 DEF history
<1>7. at[s] <= got[s] /\ (at[s] = Blocks(s) => Checked(s))
  <2>1. at[s] \in 0 .. Blocks(s)
    BY <1>5
  <2> QED BY <2>1, <1>1, <1>4 DEF NetAhead
<1>8. CASE at[s] = Blocks(s)
  <2>1. phase' = [phase EXCEPT ![s] = "done"] /\ net' \subseteq net \cup {Wrq(s)} /\ at' = at
    BY <1>2, <1>3, <1>8
  <2>2. ClientTypes'
    BY <2>1, <1>4, <1>6 DEF ClientTypes
  <2>3. \A t \in Sessions : phase'[t] = "done" => t = s \/ phase[t] = "done"
    BY <2>1, <1>4 DEF ClientTypes
  <2>4. got[s] >= Blocks(s) /\ Checked(s)
    BY <1>7, <1>8
  <2>5. AcknowledgedWasStored'
    <3>1. \A t \in Sessions : Checked(t)' <=> Checked(t)
      BY <1>1, <1>6 DEF Checked, server
    <3> QED BY <3>1, <2>1, <2>3, <2>4, <1>4, <1>6 DEF AcknowledgedWasStored
  <2> QED BY <2>1, <2>2, <2>5, <1>1, SendInv
<1>9. CASE at[s] # Blocks(s)
  <2> DEFINE b == at[s] + 1
  <2>1. at' = [at EXCEPT ![s] = at[s] + 1] /\ net' \subseteq net \cup {Data(s, b)} /\ phase' = phase
    BY <1>2, <1>3, <1>9
  <2>2. b \in 1 .. Blocks(s) /\ b <= got[s] + 1
    BY <1>5, <1>7, <1>9
  <2>3. \A t \in Sessions : at'[t] = IF t = s THEN b ELSE at[t]
    BY <2>1, <1>4 DEF ClientTypes
  <2>4. ClientTypes'
    <3>1. at' \in [Sessions -> Nat]
      BY <2>1, <1>4, <1>5 DEF ClientTypes
    <3>2. \A t \in Sessions : at'[t] <= Blocks(t)
      BY <2>2, <2>3, <1>5
    <3> QED BY <3>1, <3>2, <2>1, <1>4, <1>6 DEF ClientTypes
  <2>5. AcknowledgedWasStored'
    <3>1. \A t \in Sessions : got[t] + 1 >= at'[t]
      <4>1. \A t \in Sessions : got[t] + 1 >= at[t]
        BY <1>4 DEF AcknowledgedWasStored
      <4> QED BY <4>1, <2>2, <2>3, <1>5
    <3> QED BY <3>1, <2>1, <1>1, <1>4, <1>6 DEF AcknowledgedWasStored, Checked, server
  <2> QED BY <2>1, <2>2, <2>4, <2>5, <1>1, SendInv
<1> QED BY <1>8, <1>9

(* The other steps put nothing on the net.                                 *)
LEMMA QuietInv ==
  ASSUME IInv,
         \/ \E m \in net : RcvNothing(m)
         \/ \E h \in Hosts : ArpRequest(h) \/ ArpReply(h)
         \/ \E s \in Sessions : ClientIgnores(s) \/ GiveUp(s)
         \/ Lose
  PROVE  IInv'
<1>1. ArpTypes /\ NetTypes /\ ClientTypes
  BY DEF IInv, TypeOK
<1>2. losses \in 0 .. MaxLosses /\ asked \subseteq Hosts
      /\ phase \in [Sessions -> {"idle", "sending", "done", "gone"}]
  BY <1>1 DEF NetTypes, ClientTypes
<1>3. ASSUME NEW m \in net, RcvNothing(m) PROVE IInv'
  <2>1. net' \subseteq net /\ UNCHANGED <<server, arp, asked, clients, history, losses>>
    BY <1>3 DEF RcvNothing, Left
  <2> QED BY <2>1, <1>1, <1>2, SameTypes, ShrinkInv DEF clients, history
<1>4. ASSUME NEW h \in Hosts, ArpRequest(h) \/ ArpReply(h) PROVE IInv'
  <2>1. ArpAddCache(h) /\ asked' \subseteq asked /\ UNCHANGED <<server, net, clients, history, losses>>
    BY <1>4 DEF ArpRequest, ArpReply
  <2>2. ArpTypes'
    BY <2>1, <1>1, ArpInv
  <2> QED BY <2>1, <2>2, <1>2, ShrinkInv DEF clients, history
<1>5. ASSUME NEW s \in Sessions, ClientIgnores(s) PROVE IInv'
  <2>1. net' \subseteq net /\ UNCHANGED <<server, arp, asked, clients, history, losses>>
    BY <1>5 DEF ClientIgnores, Left
  <2> QED BY <2>1, <1>1, <1>2, SameTypes, ShrinkInv DEF clients, history
<1>6. ASSUME NEW s \in Sessions, GiveUp(s) PROVE IInv'
  <2>1. phase' = [phase EXCEPT ![s] = "gone"]
        /\ UNCHANGED <<server, arp, net, asked, at, history, losses>>
    BY <1>6 DEF GiveUp
  <2>2. /\ phase' \in [Sessions -> {"idle", "sending", "done", "gone"}]
        /\ \A t \in Sessions : phase'[t] = "done" => phase[t] = "done"
    BY <2>1, <1>2
  <2> QED BY <2>1, <2>2, <1>1, <1>2, SameTypes, ShrinkInv DEF history
<1>7. ASSUME Lose PROVE IInv'
  <2>1. /\ losses < MaxLosses /\ losses' = losses + 1
        /\ net' \subseteq net /\ asked' \subseteq asked
        /\ UNCHANGED <<server, arp, clients, history>>
    BY <1>7 DEF Lose
  <2>2. losses' \in 0 .. MaxLosses
    BY <2>1, <1>2, SizeFacts
  <2> QED BY <2>1, <2>2, <1>1, <1>2, SameTypes, ShrinkInv DEF clients, history
<1> QED BY <1>3, <1>4, <1>5, <1>6, <1>7

-----------------------------------------------------------------------------
(* The theorems. *)

LEMMA StepInv == IInv /\ [Next]_vars => IInv'
<1> SUFFICES ASSUME IInv, [Next]_vars PROVE IInv'
  OBVIOUS
<1>1. CASE UNCHANGED vars
  <2>1. /\ net' = net /\ asked' = asked /\ losses' = losses /\ phase' = phase
        /\ UNCHANGED <<server, arp, at, got, verdict>>
    BY <1>1 DEF vars, clients, history
  <2>2. ArpTypes /\ NetTypes /\ ClientTypes
    BY DEF IInv, TypeOK
  <2>3. ArpTypes' /\ asked' \subseteq Hosts /\ losses' \in 0 .. MaxLosses
    BY <2>1, <2>2, SameTypes DEF NetTypes
  <2>4. phase' \in [Sessions -> {"idle", "sending", "done", "gone"}]
    BY <2>1, <2>2 DEF ClientTypes
  <2> QED BY <2>1, <2>3, <2>4, ShrinkInv
<1>2. CASE TftpRcvPacket
  <2>1. ~ending /\ \E m \in net :
          RcvWrq(m) \/ RcvNext(m) \/ RcvOld(m) \/ RcvNewer(m) \/ RcvNothing(m)
    BY <1>2 DEF TftpRcvPacket
  <2> QED BY <2>1, WrqInv, NextInv, OldInv, NewerInv, QuietInv
<1>3. CASE \E h \in Hosts : ArpRequest(h) \/ ArpReply(h)
  BY <1>3, QuietInv
<1>4. CASE ClientStep
  <2>1. PICK s \in Sessions : ClientRcvAck(s) \/ ClientIgnores(s) \/ Timeout(s)
    BY <1>4 DEF ClientStep
  <2> QED BY <2>1, ClientRcvAckInv, TimeoutInv, QuietInv
<1>5. CASE \E s \in Sessions : Start(s) \/ GiveUp(s)
  BY <1>5, StartInv, QuietInv
<1>6. CASE Lose
  BY <1>6, QuietInv
<1>7. CASE EndOfFile
  BY <1>7, EndInv
<1> QED BY <1>1, <1>2, <1>3, <1>4, <1>5, <1>6, <1>7 DEF Next

(* The types of tftp.c, tftpput.c and arp.c hold for every network: no     *)
(* image is received past limit_size, and no packet is under way that no   *)
(* session sends or gets.                                                  *)
THEOREM TypeInvariant == Spec => []TypeOK
<1>1. IInv => TypeOK
  BY DEF IInv
<1> QED BY InitInv, StepInv, <1>1, PTL DEF Spec

(* tftp_rcv_data, tftp_write_flash: what is written to the flash is one    *)
(* client's file, whole, whatever the network and the other clients do.    *)
THEOREM StoredIsSentAlways == Spec => []StoredIsSent
<1>1. IInv => StoredIsSent
  BY DEF IInv
<1> QED BY InitInv, StepInv, <1>1, PTL DEF Spec

(* tftp_send_ack: a client that goes on has had its last block stored; a   *)
(* client that is done has had all of them stored, and its image has been  *)
(* checked or is what the loader checks before any other packet.           *)
THEOREM AcknowledgedWasStoredAlways == Spec => []AcknowledgedWasStored
<1>1. IInv => AcknowledgedWasStored
  BY DEF IInv
<1> QED BY InitInv, StepInv, <1>1, PTL DEF Spec
=============================================================================
