----------------------------- MODULE SwitchTest -----------------------------
(***************************************************************************)
(* The self test of the switch, switch_slt_main.c (MT7530_SLT): one        *)
(* processor runs MT7530_SLT_Test once, against a switch that works beside *)
(* it.  The functions of the file are sequences of steps with the ports,   *)
(* registers and values filled in; "goto fail" goes to the next verdict.   *)
(*                                                                         *)
(* The device under test may have one defect: an EEPROM that cannot be     *)
(* written, an MDIO engine that never ends a command, a link that comes up *)
(* late or never, or packets lost at one port in one test.                 *)
(***************************************************************************)
EXTENDS Mt7530, SequencesExt

CONSTANTS
  Devices,    (* the devices tested, records as in DeviceType           *)
  TestPkt,    (* test_pkt: packets sent by a generator                   *)
  Limit10,    (* pkt_loss_limit at 10M                                   *)
  LimitFast,  (* pkt_loss_limit at 100M and 1000M                        *)
  MaxWait,    (* reads of 0x701c before a wait is given up: 10000        *)
  MaxTries    (* reads of the link before a port is given up: 11         *)

ASSUME SwitchTestAssumption ==
  /\ TestPkt \in 1 .. CounterMod - 1
  /\ {Limit10, LimitFast, MaxWait, MaxTries} \subseteq Nat \ {0}

VARIABLES
  pc,       (* the step of the program                                  *)
  polls,    (* reads of 0x701c in the wait under way, -1 outside one     *)
  tries,    (* delay in Chk_Link_Status                                  *)
  value,    (* what was read last                                        *)
  last,     (* last_cnt                                                  *)
  cnt,      (* cnt                                                       *)
  relay,    (* the mode of the relays of the test board                  *)
  result,   (* what the test under way will return: 0 or -1              *)
  ret,      (* ret of MT7530_SLT_Test                                    *)
  bin,      (* the class given to the device, 0 for none                 *)
  lights,   (* the GPIOs that show the class                             *)
  switch,
  device,
  told      (* history: the registers as the program meant to set them   *)

local == <<tries, value, last, cnt, relay>>
verdict == <<result, ret, bin, lights>>
vars == <<pc, polls, local, verdict, switch, device, told>>

Limit(speed) == IF speed = "10M" THEN Limit10 ELSE LimitFast
BinOf(speed) == CASE speed = "10M" -> 3 [] speed = "100M" -> 4 [] speed = "1000M" -> 5

-----------------------------------------------------------------------------
(* Steps, and the sequences of them that the functions stand for. *)

Pbus(addr, val)   == <<[do |-> "store", addr |-> addr, val |-> val]>>
Fetch(addr)       == <<[do |-> "fetch", addr |-> addr]>>
Alter(addr, on, off) ==
  Fetch(addr) \o <<[do |-> "alter", addr |-> addr, on |-> on, off |-> off]>>

Mii(cmd)          == <<[do |-> "mii", cmd |-> cmd]>>
PmiWrite(p, reg, val) == Mii([op |-> "write", port |-> p, reg |-> reg, val |-> val, to |-> <<>>])

phyMiiWrite(p, page, reg, val) ==
  PmiWrite(p, PageRegister, 0) \o PmiWrite(p, PageRegister, page)
    \o Mii([op |-> "write", port |-> p, reg |-> reg, val |-> val,
            to |-> <<"phy", p, page, reg>>])

phyMiiRead(p, reg) ==
  PmiWrite(p, PageRegister, 0) \o PmiWrite(p, PageRegister, 0)
    \o Mii([op |-> "read", port |-> p, reg |-> reg, to |-> <<>>])

FillAddr(p, dev, reg) ==
  Mii([op |-> "fill", port |-> p, dev |-> dev, reg |-> reg, to |-> <<>>])

mtEMiiRegWrite(p, dev, reg, val) ==
  FillAddr(p, dev, reg)
    \o Mii([op |-> "extw", port |-> p, dev |-> dev, val |-> val, to |-> <<"mmd", p, dev, reg>>])

mtEMiiRegRead(p, dev, reg) ==
  FillAddr(p, dev, reg) \o Mii([op |-> "extr", port |-> p, dev |-> dev, to |-> <<>>])

Bpw(p, reg, val, to) == <<[do |-> "bpw", port |-> p, reg |-> reg, val |-> val, to |-> to]>>

(* for (port_num=0; port_num<n; port_num++) *)
Upto(n) == SelectSeq(AllPorts, LAMBDA p : p < n)
Each(n, Body(_)) == FlattenSeq([k \in DOMAIN Upto(n) |-> Body(Upto(n)[k])])

Chk_Link_Status(p) == phyMiiRead(p, 1) \o <<[do |-> "linked", port |-> p]>>

relaySetting(mode) == <<[do |-> "relay", mode |-> mode]>>
CountBefore(p)     == <<[do |-> "last", port |-> p]>>
Tally(p)           == <<[do |-> "tally", port |-> p]>>
Delay(test, speed) == <<[do |-> "delay", test |-> test, speed |-> speed]>>
Judge(p, how, speed) == <<[do |-> "judge", port |-> p, how |-> how, speed |-> speed]>>
Verdict(n, kept)   == <<[do |-> "verdict", bin |-> n, kept |-> kept]>>

macSetGSW ==
  Each(5, LAMBDA p : Pbus(Matrix(p), "all")) \o Each(5, LAMBDA p : Pbus(PortVlan(p), "user"))
    \o Pbus(PollControl, "polled") \o Pbus(\h7b00, "2")

(* Before each group of tests: the PHYs and the switch are reset. *)
Fresh ==
  Each(7, LAMBDA p : phyMiiWrite(p, 0, 0, "reset")) \o Pbus(Reset, "reset") \o macSetGSW

EepromWrite(w, data) == Pbus(Eeprom, [op |-> "write", word |-> w, data |-> data])
EepromRead           == Pbus(Eeprom, [op |-> "read", word |-> 0])
Expect(word)         == <<[do |-> "expect", word |-> word]>>
AfterReset(word)     == Fetch(Mirror) \o Pbus(Reset, "reset") \o Fetch(Mirror) \o Expect(word)

MT7530_EEEPROM_Test ==
  mtEMiiRegWrite(0, \h1f, \h103, "20")
    \o phyMiiWrite(0, 1, \h16, "0") \o phyMiiWrite(4, 1, \h16, "0")
    \o mtEMiiRegWrite(0, \h1f, \h104, "608") \o mtEMiiRegWrite(0, \h1f, \h104, "2608")
    \o Fetch(Mirror) \o Fetch(Eeprom)
    \o EepromWrite(0, "3075") \o EepromRead \o Fetch(Eeprom) \o Expect("3075")
    \o EepromWrite(0, "3075") \o EepromRead \o EepromWrite(2, "1000")
    \o EepromWrite(4, "5555") \o AfterReset("5555")
    \o EepromWrite(0, "0000") \o AfterReset("ffffff00")
    \o EepromWrite(2, "0080") \o AfterReset("ffffff00")

Set_GswPhy_Speed(speed, mode) ==
  IF speed # "1000M"
  THEN Each(7, LAMBDA p : Pbus(MacControl(p), speed) \o phyMiiWrite(p, 0, 0, speed))
  ELSE IF mode = "P0P4"
  THEN FlattenSeq([k \in 1 .. 3 |-> Pbus(MacControl(<<0, 4, 5>>[k]), speed)])
         \o FlattenSeq([k \in 1 .. 3 |-> phyMiiWrite(<<0, 4, 5>>[k], 0, 0, "1000M")])
  ELSE Each(7, LAMBDA p :
         Pbus(MacControl(p), speed)
           \o (IF mode = "LPBK" \/ (mode = "LONG" /\ p < 4)
               THEN phyMiiWrite(p, 0, 9, "1f00") \o phyMiiWrite(p, 0, \h18, "1")
                      \o phyMiiWrite(p, \h52b5, \h11, "8001")
                      \o phyMiiWrite(p, \h52b5, \h12, "2") \o phyMiiWrite(p, \h52b5, \h10, "9782")
               ELSE <<>>)
           \o phyMiiWrite(p, 0, 0, "1000M"))

phy_packet_gen(p) ==
  phyMiiWrite(p, 1, \h11, "unit") \o phyMiiWrite(p, 1, \h1a, "13e7")
    \o phyMiiWrite(p, 1, \h1d, "armed") \o phyMiiWrite(p, 1, \h1d, "sent")

MT7530_Data_Flow_Test(speed) ==
  Pbus(Mirror, 5) \o Pbus(Matrix(4), "1") \o Each(7, CountBefore)
    \o Set_GswPhy_Speed(speed, "LPBK") \o Each(5, Chk_Link_Status)
    \o Each(5, phy_packet_gen) \o Delay("flow", speed) \o Each(6, Tally)
    \o Each(5, LAMBDA p : Judge(p, "lossAtLimit", speed))
    \o Pbus(Mirror, 6) \o phy_packet_gen(4) \o Delay("flow", speed)
    \o Tally(6) \o Judge(6, "lossAtLimit", speed)

MT7530_Performance_Test(speed) ==
  Pbus(Mirror, 5) \o Pbus(Matrix(5), "1") \o Alter(AgeControl, {"local"}, {})
    \o Each(6, CountBefore) \o Set_GswPhy_Speed(speed, "LONG") \o Each(5, Chk_Link_Status)
    \o Each(5, phy_packet_gen) \o Delay("perf", speed) \o Each(5, Tally)
    \o Each(5, LAMBDA p : Judge(p, "lossOverLimit", speed))

MT7530_P5_Gphy_Test(out, in) ==
  Alter(Trap, {"software"}, {}) \o Alter(Trap, {}, {"p5 off"}) \o Alter(Trap, {}, {"p5 apart"})
    \o (IF out = 4 THEN Alter(Trap, {"phy4"}, {}) ELSE Alter(Trap, {}, {"phy4"}))
    \o Pbus(Mirror, 5) \o Pbus(Matrix(out), "all") \o Pbus(Matrix(in), "0")
    \o Pbus(Matrix(5), "10") \o CountBefore(out) \o Set_GswPhy_Speed("1000M", "P0P4")
    \o Chk_Link_Status(in) \o Chk_Link_Status(out)
    \o phy_packet_gen(out) \o Delay("p5", "1000M") \o Tally(out)
    \o Judge(out, "countUnderLimit", "1000M")

(* Each word of the PLL goes in by four frames. *)
PllWord(reg, val) ==
  Bpw(0, 13, [fn |-> "addr", dev |-> \h1f], <<>>) \o Bpw(0, 14, reg, <<>>)
    \o Bpw(0, 13, [fn |-> "data", dev |-> \h1f], <<>>)
    \o Bpw(0, 14, val, <<"mmd", 0, \h1f, reg>>)

MT7530_Speed_High ==
  Pbus(\h7808, "0") \o Pbus(Trap, "1017e8f") \o Pbus(\h7808, "1")
    \o PllWord(\h403, "1800") \o PllWord(\h403, "1c00") \o PllWord(\h401, "c020")
    \o PllWord(\h406, "a030") \o PllWord(\h410, "3") \o Pbus(\h7830, "1")

MT7530_P6_Speed_Test ==
  Pbus(Mirror, 6) \o Pbus(Matrix(0), "1") \o Set_GswPhy_Speed("1000M", "LPBK")
    \o Chk_Link_Status(0)
    \o CountBefore(6) \o phy_packet_gen(0) \o Delay("p6 slow", "1000M")
    \o Tally(6) \o Judge(6, "lossOverLimit", "1000M")
    \o MT7530_Speed_High
    \o CountBefore(6) \o Bpw(0, PageRegister, 1, <<>>)
    \o Bpw(0, \h11, "unit", <<"phy", 0, 1, \h11>>) \o Bpw(0, \h1a, "13e7", <<"phy", 0, 1, \h1a>>)
    \o Bpw(0, \h1d, "armed", <<"phy", 0, 1, \h1d>>) \o Bpw(0, \h1d, "sent", <<"phy", 0, 1, \h1d>>)
    \o Delay("p6 fast", "1000M") \o Tally(6) \o Judge(6, "lossOverLimit", "1000M")

DcOffset(sel) == mtEMiiRegWrite(0, \h1f, \h15, sel) \o mtEMiiRegRead(0, \h1f, \h1a)

(* It reads and prints; nothing is judged. *)
MT7530_DC_offset_SNR_Test ==
  relaySetting("OPEN") \o Set_GswPhy_Speed("1000M", "OPEN")
    \o FlattenSeq([k \in 1 .. 5 |-> DcOffset(<<"108b", "308b", "508b", "708b", "908b">>[k])])
    \o relaySetting("LPBK")
    \o Each(6, LAMBDA p : mtEMiiRegRead(p, \h1e, \h9b) \o mtEMiiRegRead(p, \h1e, \h9c))
    \o Each(6, LAMBDA p : mtEMiiRegRead(p, \h1e, \h9e) \o mtEMiiRegRead(p, \h1e, \h9f)
                            \o mtEMiiRegRead(p, \h1e, \ha0) \o mtEMiiRegRead(p, \h1e, \ha1))

Performance(speed) == MT7530_Performance_Test(speed) \o Verdict(BinOf(speed), TRUE)

(* MT7530_SLT_Test.  The result of the data flow test at 10M is not kept.  *)
Program ==
  MT7530_EEEPROM_Test \o Verdict(6, TRUE)
    \o Fresh \o MT7530_DC_offset_SNR_Test
    \o Fresh \o relaySetting("LPBK")
    \o MT7530_Data_Flow_Test("10M") \o Verdict(3, FALSE)
    \o MT7530_Data_Flow_Test("100M") \o Verdict(4, TRUE)
    \o MT7530_Data_Flow_Test("1000M") \o Verdict(5, TRUE)
    \o Fresh \o relaySetting("LONG")
    \o Performance("10M") \o Performance("100M") \o Performance("1000M")
    \o Fresh \o relaySetting("P0P4")
    \o MT7530_P5_Gphy_Test(0, 4) \o Verdict(5, TRUE)
    \o Fresh \o MT7530_P5_Gphy_Test(4, 0) \o Verdict(5, TRUE)
    \o Fresh \o relaySetting("LPBK") \o MT7530_P6_Speed_Test \o Verdict(7, TRUE)
    \o <<[do |-> "passed"]>>

Ended == Len(Program) + 1
-----------------------------------------------------------------------------
(* The device, and what a step finds of it. *)

DeviceType ==
  [eeprom : BOOLEAN,                 (* its EEPROM can be written           *)
   engine : BOOLEAN,                 (* its MDIO engine ends its commands   *)
   link   : [Ports -> Nat],          (* reads of a link before it is up     *)
   at     : Seq(STRING \cup Ports),  (* a test, a speed and a port, where ... *)
   lost   : 0 .. TestPkt]            (* ... it loses so many packets        *)

LostAt(test, speed, p) == IF device.at = <<test, speed, p>> THEN device.lost ELSE 0

(* External: the ports that have been told to send and whose frames come   *)
(* back over the relays at the speed of their MAC and PHY.                  *)
Sends(p, speed) ==
  /\ p \in switch.fed
  /\ Holds(switch.mem, <<"sw", MacControl(p)>>, speed)
  /\ Holds(switch.mem, <<"phy", p, 0, 0>>, speed)
  /\ relay \in {"LPBK", "LONG"} \/ (relay = "P0P4" /\ p \in {0, 4})

(* What a wait brings: each sender its own packets, the mirror port all.   *)
Arrived(test, speed) ==
  LET senders == {p \in Ports : Sends(p, speed)}
      mirror  == WordAt(switch, Mirror)
  IN [p \in senders \cup ({mirror} \cap Ports) |->
        (IF p = mirror THEN Cardinality(senders) * TestPkt ELSE TestPkt)
          - (IF senders = {} THEN 0 ELSE LostAt(test, speed, p))]

Op == Program[pc]
At(what) == pc < Ended /\ Op.do = what
Advance == pc' = pc + 1

(* goto fail: the test returns -1. *)
NextVerdict == CHOOSE k \in pc .. Len(Program) :
                 /\ Program[k].do = "verdict"
                 /\ \A l \in pc .. k - 1 : Program[l].do # "verdict"
Fail == pc' = NextVerdict /\ result' = -1 /\ UNCHANGED <<ret, bin, lights>>

Means(place, val) == IF place = <<>> THEN told ELSE Landed(told, place, val)

Init ==
  /\ pc = 1 /\ polls = -1 /\ tries = 0 /\ value = {}
  /\ last = [p \in Ports |-> 0] /\ cnt = [p \in Ports |-> 0]
  /\ relay = "OPEN" /\ result = 0 /\ ret = 0 /\ bin = 0 /\ lights = 0
  /\ device \in Devices
  /\ switch = [PoweredUp EXCEPT !.wired = device.eeprom]
  /\ told = <<>>

-----------------------------------------------------------------------------
(* Registers of the switch. *)

Store ==
  /\ At("store") /\ Advance
  /\ switch' = gswPbusWrite(switch, Op.addr, Op.val)
  /\ told' = Landed(told, <<"sw", Op.addr>>, Op.val)
  /\ UNCHANGED <<polls, local, verdict, device>>

FetchWord ==
  /\ At("fetch") /\ Advance
  /\ LET r == gswPbusRead(switch, Op.addr) IN switch' = r.switch /\ value' = r.word
  /\ UNCHANGED <<polls, tries, last, cnt, relay, verdict, device, told>>

(* value |= ..., value &= ~...: what was read goes back changed. *)
AlterWord ==
  LET place == <<"sw", Op.addr>>
      old   == IF place \in DOMAIN told THEN told[place] ELSE {}
      Changed(w) == (w \cup Op.on) \ Op.off
  IN /\ At("alter") /\ Advance
     /\ switch' = gswPbusWrite(switch, Op.addr, Changed(value))
     /\ told' = Landed(told, place, Changed(old))
     /\ UNCHANGED <<polls, local, verdict, device>>

ExpectWord ==
  /\ At("expect")
  /\ IF value = Op.word THEN Advance /\ UNCHANGED verdict ELSE Fail
  /\ UNCHANGED <<polls, local, switch, device, told>>

(* A frame of the processor's own MDIO bus, to a PHY. *)
PassThrough ==
  /\ At("bpw") /\ Advance
  /\ switch' = tcMiiBpw(switch, Op.port, Op.reg, Op.val)
  /\ told' = Means(Op.to, Op.val)
  /\ UNCHANGED <<polls, local, verdict, device>>

-----------------------------------------------------------------------------
(* The engine: a command is written to 0x701c, and 0x701c read until it is *)
(* no longer busy, or too often.                                           *)

Command ==
  /\ At("mii") /\ polls = -1
  /\ switch' = gswPbusWrite(switch, PhyControl, Op.cmd)
  /\ polls' = 0
  /\ UNCHANGED <<pc, local, verdict, device, told>>

(* The bits of the data that the read of a busy command returns. *)
Idle == "0"

CommandEnds ==
  LET done == ~switch.busy
  IN /\ pc' = pc + 1 /\ polls' = -1
     /\ value' = IF Op.cmd.op \in {"read", "extr"} THEN (IF done THEN switch.data ELSE Idle)
                 ELSE value
     /\ told' = IF Op.cmd.to = <<>> THEN told ELSE Landed(told, Op.cmd.to, Op.cmd.val)

(* Mutation: the busy bit is looked at once at most. *)
PollOnce ==
  /\ At("mii") /\ polls >= 0
  /\ switch' = gswPbusRead(switch, PhyControl).switch
  /\ CommandEnds
  /\ UNCHANGED <<tries, last, cnt, relay, verdict, device>>

(* An engine that works has ended within MaxWait reads. *)
Poll ==
  /\ At("mii") /\ polls >= 0
  /\ device.engine /\ polls = MaxWait - 1 => ~switch.busy
  /\ switch' = gswPbusRead(switch, PhyControl).switch
  /\ IF ~switch.busy \/ polls + 1 = MaxWait
     THEN CommandEnds
     ELSE polls' = polls + 1 /\ UNCHANGED <<pc, value, told>>
  /\ UNCHANGED <<tries, last, cnt, relay, verdict, device>>

(* External. *)
EngineDone ==
  /\ switch.busy /\ device.engine
  /\ switch' = CommandDone(switch, IF switch.cmd.op = "read" /\ tries >= device.link[switch.cmd.port]
                                   THEN "link" ELSE Idle)
  /\ UNCHANGED <<pc, polls, local, verdict, device, told>>

-----------------------------------------------------------------------------
(* Links, packets and verdicts. *)

(* The read of the link is the three commands before it. *)
Linked ==
  /\ At("linked")
  /\ CASE value = "link" -> Advance /\ tries' = 0 /\ UNCHANGED verdict
       [] value # "link" /\ tries + 1 < MaxTries ->
            pc' = pc - 3 /\ tries' = tries + 1 /\ UNCHANGED verdict
       [] OTHER -> Fail /\ tries' = 0
  /\ UNCHANGED <<polls, value, last, cnt, relay, switch, device, told>>

SetRelay ==
  /\ At("relay") /\ Advance /\ relay' = Op.mode
  /\ UNCHANGED <<polls, tries, value, last, cnt, verdict, switch, device, told>>

DelayEnds ==
  /\ At("delay") /\ Advance
  /\ switch' = Counted(switch, Arrived(Op.test, Op.speed))
  /\ UNCHANGED <<polls, local, verdict, device, told>>

(* Mutation: the count of an earlier test is kept. *)
TakeCountOnce ==
  LET r == gswPbusRead(switch, Received(Op.port))
  IN /\ At("last") /\ Advance
     /\ switch' = r.switch /\ last' = [last EXCEPT ![Op.port] = IF @ = 0 THEN r.word ELSE @]
     /\ UNCHANGED <<polls, tries, value, cnt, relay, verdict, device, told>>

TakeCount ==
  LET r == gswPbusRead(switch, Received(Op.port))
  IN /\ At("last") /\ Advance
     /\ switch' = r.switch /\ last' = [last EXCEPT ![Op.port] = r.word]
     /\ UNCHANGED <<polls, tries, value, cnt, relay, verdict, device, told>>

(* Mutation: the difference is not cut to the width of the counter. *)
TallyUncut ==
  LET r == gswPbusRead(switch, Received(Op.port))
  IN /\ At("tally") /\ Advance
     /\ switch' = r.switch
     /\ cnt' = [cnt EXCEPT ![Op.port] = r.word - last[Op.port]]
     /\ UNCHANGED <<polls, tries, value, last, relay, verdict, device, told>>

TallyCount ==
  LET r == gswPbusRead(switch, Received(Op.port))
  IN /\ At("tally") /\ Advance
     /\ switch' = r.switch
     /\ cnt' = [cnt EXCEPT ![Op.port] = (r.word - last[Op.port]) % CounterMod]
     /\ UNCHANGED <<polls, tries, value, last, relay, verdict, device, told>>

(* test_pkt - cnt, unsigned. *)
Loss(p) == (TestPkt - cnt[p]) % CounterMod

Bad(p, how, speed) ==
  CASE how = "lossAtLimit"     -> Loss(p) >= Limit(speed)
    [] how = "lossOverLimit"   -> Loss(p) > Limit(speed)
    [] how = "countUnderLimit" -> cnt[p] < Limit(speed)

JudgePort ==
  /\ At("judge")
  /\ IF Bad(Op.port, Op.how, Op.speed) THEN Fail ELSE Advance /\ UNCHANGED verdict
  /\ UNCHANGED <<polls, local, switch, device, told>>

(* binClassify reads gpio_set[id] with an id that is never set. *)
binClassify(n) == bin' = n /\ lights' \in 0 .. 7

ReachVerdict ==
  LET kept == IF Op.kept THEN result ELSE ret
  IN /\ At("verdict")
     /\ ret' = kept /\ result' = 0
     /\ IF kept = -1 THEN pc' = Ended /\ binClassify(Op.bin)
        ELSE Advance /\ UNCHANGED <<bin, lights>>
     /\ UNCHANGED <<polls, local, switch, device, told>>

Pass ==
  /\ At("passed") /\ Advance /\ binClassify(1)
  /\ UNCHANGED <<polls, local, result, ret, switch, device, told>>

Rest == pc = Ended /\ UNCHANGED vars

Next ==
  \/ Store \/ FetchWord \/ AlterWord \/ ExpectWord \/ PassThrough
  \/ Command \/ Poll \/ EngineDone
  \/ Linked \/ SetRelay \/ DelayEnds \/ TakeCount \/ TallyCount
  \/ JudgePort \/ ReachVerdict \/ Pass \/ Rest

Spec == Init /\ [][Next]_vars

-----------------------------------------------------------------------------
(* The counters and the place in the program stay in range. *)
TypeOK ==
  /\ pc \in 1 .. Ended /\ polls \in -1 .. MaxWait - 1 /\ tries \in 0 .. MaxTries - 1
  /\ last \in [Ports -> 0 .. CounterMod - 1] /\ cnt \in [Ports -> 0 .. CounterMod - 1]
  /\ relay \in {"OPEN", "LPBK", "LONG", "P0P4"}
  /\ {result, ret} \subseteq {0, -1} /\ bin \in {0, 1, 3, 4, 5, 6, 7} /\ lights \in 0 .. 7
  /\ switch.busy \in BOOLEAN /\ switch.phyPage \in [Ports -> Nat]
  /\ device.eeprom \in BOOLEAN /\ device.link \in [Ports -> Nat]

(* Between two steps the registers of the switch and of its PHYs are what  *)
(* the program meant to set: no command was lost because the engine was    *)
(* busy, and no write went to another page, through an old address latch   *)
(* or to a register of the last page read.                                 *)
RegistersAsTold ==
  device.engine /\ polls = -1 => switch.mem = told

(* The links MT7530_SLT_Test looks at. *)
LinksUp == \A p \in Ports : p < 5 => device.link[p] < MaxTries

(* Losses the program cannot see: it drops the result of the data flow     *)
(* test at 10M, judges no port 5, and in the tests over port 5 compares    *)
(* what came with the limit of what may be lost.                           *)
Overlooked ==
  \/ device.at[1] = "flow" /\ device.at[2] = "10M"
  \/ device.at[1] \in {"flow", "perf"} /\ device.at[3] = 5
  \/ device.at[1] = "p5" /\ TestPkt - device.lost >= LimitFast

(* The class of a device that loses too much there. *)
ClassOf(at) == IF at[1] \in {"p6 slow", "p6 fast"} THEN 7 ELSE BinOf(at[2])

TooMany == device.lost > Limit(device.at[2])
Whole   == device.eeprom /\ device.engine /\ LinksUp

(* What MT7530_SLT_Test ends with is true of the device: no good device is *)
(* turned away, and one with a defect the tests look for is not passed but *)
(* gets the class of the test that finds it.                               *)
VerdictIsDeserved ==
  pc = Ended =>
    /\ Whole /\ device.lost = 0 => bin = 1
    /\ ~device.eeprom => bin = 6
    /\ device.eeprom /\ ~(device.engine /\ LinksUp) => bin \notin {1, 6}
    /\ Whole /\ TooMany /\ ~Overlooked => bin = ClassOf(device.at)
=============================================================================
