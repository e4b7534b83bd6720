------------------------------- MODULE Mt7530 -------------------------------
(***************************************************************************)
(* The MT7530 switch as switch_slt_main.c reaches it.  The switch answers  *)
(* as PHY 31 of the processor's own MDIO bus; its 32-bit registers lie     *)
(* behind a page register and are moved in two halves.  One of them,       *)
(* 0x701c, is the command register of an MDIO engine inside the switch,    *)
(* the only way to most registers of its PHYs; those have pages again, and *)
(* behind an address latch a second, flat set of registers.                *)
(*                                                                         *)
(* What the switch does on its side is external: it follows from how the   *)
(* code uses it.                                                           *)
(***************************************************************************)
EXTENDS Integers, Sequences, TLC

CONSTANTS
  AllPorts,   (* the ports in the order of the loops: 0 to 6 in the switch *)
  CounterMod  (* the packet counters wrap here: 2^32                       *)

ASSUME SwitchAssumption ==
  /\ \A k, l \in DOMAIN AllPorts : k < l => AllPorts[k] < AllPorts[l]
  /\ \A k \in DOMAIN AllPorts : AllPorts[k] \in 0 .. 6
  /\ CounterMod \in Nat \ {0}

Ports == {AllPorts[k] : k \in DOMAIN AllPorts}

(* Registers of the switch. *)
Mirror      == \h10
AgeControl  == \hc
Reset       == \h7000
PhyControl  == \h701c
Eeprom      == \h7120
Trap        == \h7804
PollControl == \h7018
Matrix(p)     == \h2004 + p * \h100
PortVlan(p)   == \h2010 + p * \h100
MacControl(p) == \h3000 + p * \h100
Received(p)   == \h4090 + p * \h100     (* MIB_RX_PKT_64_CNT *)

PageRegister == 31
HighHalf     == 16

NoCommand == [op |-> "none"]

(* The switch when power comes on. *)
PoweredUp ==
  [page |-> 0, low |-> 0, half |-> "reset",
   busy |-> FALSE, cmd |-> NoCommand, data |-> "reset",
   phyPage |-> [p \in Ports |-> 0], latch |-> [p \in Ports |-> <<0, 0>>],
   byLatch |-> [p \in Ports |-> FALSE],
   mem |-> <<>>, fed |-> {}, rom |-> [w \in {0, 2, 4} |-> "blank"],
   wired |-> TRUE, preload |-> "ffffff00", count |-> [p \in Ports |-> 0]]

Holds(mem, place, val) == place \in DOMAIN mem /\ mem[place] = val

Without(mem, gone(_)) == [x \in {y \in DOMAIN mem : ~gone(y)} |-> mem[x]]

(* What the registers hold after one is written: a reset forgets.          *)
Landed(mem, place, val) ==
  CASE place = <<"sw", Reset>> -> Without(mem, LAMBDA x : x[1] = "sw")
    [] place[1] = "phy" /\ val = "reset" ->
         Without(mem, LAMBDA x : x[1] = "phy" /\ x[2] = place[2])
    [] place = <<"sw", Eeprom>> -> mem
    [] OTHER -> (place :> val) @@ mem

(* The EEPROM holds three words; a reset loads the register of the mirror  *)
(* port from the last, if the first names this chip and the second does    *)
(* not say to escape.                                                      *)
Preloaded(rom) == IF rom[0] = "3075" /\ rom[2] # "0080" THEN rom[4] ELSE "ffffff00"

SwitchWritten(s, addr, val) ==
  CASE addr = PhyControl -> IF s.busy THEN s ELSE [s EXCEPT !.busy = TRUE, !.cmd = val]
    [] addr = Eeprom -> IF val.op = "write" /\ s.wired THEN [s EXCEPT !.rom[val.word] = val.data]
                        ELSE s
    [] addr = Reset -> [s EXCEPT !.mem = Landed(@, <<"sw", Reset>>, val),
                                 !.count = [p \in Ports |-> 0],
                                 !.preload = Preloaded(s.rom)]
    [] OTHER -> [s EXCEPT !.mem = Landed(@, <<"sw", addr>>, val)]

(* One frame to PHY 31, by miiStationWrite. *)
FrameTo(s, reg, val) ==
  CASE reg = PageRegister -> [s EXCEPT !.page = val]
    [] reg = HighHalf     -> SwitchWritten(s, s.page * 64 + s.low * 4, s.half)
    [] OTHER              -> [s EXCEPT !.low = reg, !.half = val]

(* The three frames of a write, under global_pbus_lock. *)
gswPbusWrite(s, addr, val) ==
  FrameTo(FrameTo(FrameTo(s, PageRegister, addr \div 64),
                  (addr \div 4) % 16, val), HighHalf, val)

(* The word at the page and low address: flags, or the value last written. *)
WordAt(s, addr) ==
  CASE \E p \in Ports : addr = Received(p) ->
         s.count[CHOOSE p \in Ports : addr = Received(p)]
    [] addr = Eeprom -> s.rom[0]
    [] <<"sw", addr>> \in DOMAIN s.mem -> s.mem[<<"sw", addr>>]
    [] addr = Mirror /\ <<"sw", addr>> \notin DOMAIN s.mem -> s.preload
    [] OTHER -> {}

(* A frame from PHY 31 brings the low half; the high one comes from the    *)
(* same word, and they are taken together.                                 *)
miiStationRead(s, reg) == WordAt(s, s.page * 64 + reg * 4)

(* A read selects the page too. *)
gswPbusRead(s, addr) ==
  LET t == FrameTo(s, PageRegister, addr \div 64)
  IN [switch |-> t, word |-> miiStationRead(t, (addr \div 4) % 16)]

(***************************************************************************)
(* Registers of a PHY.  The packet generator of a PHY sends when it is     *)
(* told to after it has been set up.                                       *)
(***************************************************************************)
GeneratorSet(s, p) ==
  /\ <<"phy", p, 1, \h11>> \in DOMAIN s.mem
  /\ <<"phy", p, 1, \h1a>> \in DOMAIN s.mem
  /\ Holds(s.mem, <<"phy", p, 1, \h1d>>, "armed")

PhyWritten(s, p, reg, val) ==
  IF reg = PageRegister THEN [s EXCEPT !.phyPage[p] = val]
  ELSE [s EXCEPT
          !.mem = Landed(@, <<"phy", p, s.phyPage[p], reg>>, val),
          !.fed = IF s.phyPage[p] = 1 /\ reg = \h1d /\ val = "sent" /\ GeneratorSet(s, p)
                  THEN @ \cup {p} ELSE @,
          !.phyPage[p] = IF val = "reset" THEN 0 ELSE @]

LatchWritten(s, p, val) ==
  [s EXCEPT !.mem = Landed(@, <<"mmd", p, s.latch[p][1], s.latch[p][2]>>, val)]

(* The engine inside the switch ends the command it has. *)
CommandDone(s, linkBit) ==
  LET c == s.cmd
      t == [s EXCEPT !.busy = FALSE, !.cmd = NoCommand]
  IN CASE c.op = "write"  -> PhyWritten(t, c.port, c.reg, c.val)
       [] c.op = "read"   -> [t EXCEPT !.data = linkBit]
       [] c.op = "fill"   -> [t EXCEPT !.latch[c.port] = <<c.dev, c.reg>>]
       [] c.op = "extw"   -> LatchWritten(t, c.port, c.val)
       [] c.op = "extr"   -> [t EXCEPT !.data = "ext"]

(* A frame straight to a PHY of the switch: registers 13 and 14 stand for  *)
(* the latch and what lies behind it.                                      *)
tcMiiBpw(s, p, reg, val) ==
  CASE reg = 13 /\ val.fn = "addr" -> [s EXCEPT !.latch[p][1] = val.dev, !.byLatch[p] = FALSE]
    [] reg = 13 /\ val.fn = "data" -> [s EXCEPT !.byLatch[p] = TRUE]
    [] reg = 14 -> IF s.byLatch[p] THEN LatchWritten(s, p, val)
                   ELSE [s EXCEPT !.latch[p][2] = val]
    [] OTHER -> PhyWritten(s, p, reg, val)

(* Packets arrive: counts wrap. *)
Counted(s, arrived) ==
  [s EXCEPT !.count = [p \in Ports |->
               IF p \in DOMAIN arrived THEN (@[p] + arrived[p]) % CounterMod ELSE @[p]],
            !.fed = {}]
=============================================================================
