# A TLA+ model of the EN7512 router software

The repository holds the C code that brings up a router built on the EN7512
system-on-chip: the kernel's flash and platform drivers, an Ethernet driver, and
the network part of a boot loader.  These modules model the NAND flash driver with its
management of bad blocks, on which everything else stands; the Ethernet driver; and, of
the boot loader, the packet buffers and the Ethernet MACs, the two ways by which new
software gets into the flash (TFTP and multicast), and the self test of the switch.

## 1. The system

| Part | Source | State it keeps | Operations | Talks to |
|---|---|---|---|---|
| Factory-bad numbering (BBT) | `drivers/mtd/tc3162/bmt.c` | `init_bbt`, `pBbt` | scan, load, write, build the table | BMT, flash |
| Bad-block management (BMT) | `drivers/mtd/tc3162/bmt.c` | `bmt`, `bmt_block_index`, `bbt_block_index`, `pool_erased`, `dat_buf`, `oob_buf` | load, reconstruct, find a block, migrate, update, write the table | flash, called back by the flash driver |
| SPI-NAND driver | `drivers/mtd/chips/spi_nand_flash.c` | the one-page cache (`_current_page_num`, `_current_cache_page*`), one spinlock | read, write, erase, mark, size the pool, set up, MTD command functions | SPI controller, BMT, MTD |
| SPI controller | `drivers/mtd/chips/spi_controller.c` | none | manual mode, byte FIFO | hardware |
| Partitions | `drivers/mtd/maps/tc3162-flash.c` | static table | register | MTD |
| QDMA Ethernet | `eth.c` | TX descriptor chain, RX ring, reference count | `start_xmit`, interrupt, open, stop | hardware, network stack |
| Interrupts, SMP, timers | `arch/mips/tc3162/{irq,malta-smp,time,time2}.c` | mask registers, per-processor timers | mask, dispatch, send IPI, set next event | hardware, kernel |
| Boot parameters, set-up | `arch/mips/tc3162/{prom,setup}.c` | command line, memory size | straight-line | kernel |
| Boot loader packet buffers | `bootloader-en7512-net-src/skbuff.c` | pool of 512 buffers | alloc, free, push, put | all of the loader's network code |
| Boot loader ARP, UDP, ICMP, dispatch | `arp.c`, `udp.c`, `icmp.c`, `eth.c` | address ring of 16 | receive, answer, look up | buffers, MAC driver |
| Boot loader TFTP | `tftp.c`, `tftpput.c` | `client_ip`, `client_port`, `client_block`, `filetype`, image in memory | request, data, acknowledge, check, write | UDP, flash |
| Boot loader multicast upgrade | `ip.c` | start and current sequence | receive chunks | buffers, flash |
| Boot loader MACs and switch | `7512_eth.c`, `femac.c`, `mac.c`, `tc3262gmac.c`, `tc3162l2mac.c`, `tcswitch.c`, `switch_slt_main.c` | descriptor rings, registers | poll, send, configure | hardware |

**What is hard.**  In the flash code: power may go between any two flash
operations; an operation may fail and leave the page as it was or unreadable; the
mark of a bad block, the replacement table and the index in the spare area are
three records of one fact that are written at different moments; the page cache
is shared by all of them and brought up to date by some; the whole of `update_bmt`
is recursive retry.  In the Ethernet driver: two directions behind one interrupt,
a chain of descriptors freed by one context and extended by another, two devices
on one ring.  In the boot loader: an unreliable network with retries, counters
that wrap, buffers that run out.

**What makes each part right.**  *BBT*: the table is a strictly increasing numbering
that names no bad block.  *BMT*: what was written with success is read back, after
any replacements and reboots; no pool block serves two purposes; a replacement is
never disturbed; the border of the pool never moves; the tables on the flash are the
tables in memory; every request returns.  *SPI-NAND driver*: reads copy the page that
was asked for; the lock is always given back.  *QDMA*: every frame handed over is
freed once, after the hardware is done with it; every received frame is delivered
once, in order.  *TFTP*: the image stored is the image one client sent; a client that
is told of a block has had it stored; an upload ends.  *Multicast upgrade*: what is
written is one intact file; a device that is sent a good one long enough writes it.
*Buffers and MACs*: none leaks or has two owners; what is queued leaves in order; what
comes in is served; the handler does not run inside itself.  *Switch test*: registers
hold what was written to them, and the class a device gets is the one it deserves.

The hazards behind these, each at its line, are listed under `hazards` in
`PROJECT.json`, with the property that covers each one or the reason none does yet.

## 2. Modules

| Module | What it is |
|---|---|
| `NandFlash` | The chip and the one-page cache: constants, the page and its spare area, read, overlay, program, erase, as operators. |
| `BlockNumbers` | The function from a bad-block list to the table `pBbt`. |
| `BadBlockTable` | The loops of `create_badblock_table_by_bbt`, one action per loop head, hit, miss and shift. |
| `BadBlockTableProofs` | Its theorems. |
| `Bmt` | The driver: set-up, `find_available_block`, `update_bmt`, the two table writers, user requests, loss of power. |
| `BmtProofs` | Its theorems. |
| `Tftp` | The TFTP server with the address cache, several clients and the network between them. |
| `TftpProofs` | Its theorems. |
| `SpiNandChip` | The SPI-NAND chip at its command interface: latches, protection, planes, page cache, programs, as operators on a record. |
| `FlashStore` | Abstract: a store of cells that serves one request at a time. |
| `NandMtd` | `spi_nand_flash.c` on a chip without replaced blocks: MTD's commands, the exported functions on two processors, the lock and the page cache.  Implements `FlashStore`. |
| `NandMtdProofs` | Its theorems about types and the page cache. |
| `NandMtdStore` | The proof that it implements `FlashStore`. |
| `PacketBuffers` | `skbuff.c`: the pool of packet buffers. |
| `MacRings`, `QdmaChains` | The descriptors of the boot loader's Ethernet drivers, four with rings and one with the QDMA engine, as operators on a record. |
| `TxQueue` | Abstract: a queue of buffers given to the hardware, sent and given back in order. |
| `LoaderNet` | The boot loader's network code over any of the five drivers: interrupt handler, main program, buffers.  Implements `TxQueue`. |
| `LoaderNetProofs` | Its theorems. |
| `Qdma` | The Linux driver `eth.c`: two devices, several processors, one engine. |
| `QdmaProofs` | Its theorems. |
| `BulkImages`, `BulkUpgrade` | The multicast upgrade and multicast boot of `ip.c`. |
| `BulkUpgradeProofs` | Its theorems. |
| `Mt7530` | The switch as the self test reaches it: paged registers, the MDIO engine behind one of them, the PHYs behind that. |
| `SwitchTest` | The self test, as a program of steps over `Mt7530`. |
| `MCBadBlockTable`, `MCBmt`, `MCTftp`, `MCNandMtd`, `MCBulkUpgrade`, `MCSwitchTest` | Instances for TLC.  `LoaderNet` and `Qdma` need none: their constants are sets of strings and numbers. |

Operators named after a change (`NextBadAfresh`, `RelocateEmpty`, ...) and commented
"Mutation" are deliberate errors.  They are used by no specification; each shows, put
in the place of the definition after it, that some run notices the difference.

### `NandFlash`

A page is one datum and the part of the spare area the driver reads: byte 0 (`raw`),
byte 1 (`later`), and bytes 2 and 3 (`idx`), the block a replacement stands for.
Programming can only clear bits, so `idx` is the set of one bits: writing an index
over another gives the intersection, and `0xFFFF`, what an erased page reads as, is
all of them.  A second, different program of a main area makes it unreadable
(`Garbage`).  The cache follows `spi_nand_read_page`: a page that is cached is not
read again; a page whose ECC fails leaves the cache as it was, number included.  The
cache has two copies of the spare area, as in the code: `oob`
(`_current_cache_page_oob`), which a write changes, and `map`
(`_current_cache_page_oob_mapping`), which only a read of a new page changes.

### `Bmt`

`pc` is the place in the code.  All of the driver runs inside one spinlock taken with
interrupts off, so the only thing that comes between two of its steps is the loss of
power; a step is a loop iteration or what lies between two flash operations and
changes the flash at most once.  Recursion of the code (`migrate_from_bad`,
`write_bmt_to_flash`, `write_bbt_to_flash` calling themselves in tail position) is a
jump back to the first label.

| Label | Code |
|---|---|
| `pool` | `calc_bmt_pool_size` |
| `loadBmt`, `checkRaw`, `reconstruct` | `init_bmt`: `load_bmt_data`, its loop over the marks, `reconstruct_bmt` |
| `loadBbt`, `scanRaw` | `start_init_bbt`: `load_bbt_data`, `scan_badblock_raw` |
| `save`, `saveBbt`, `programBbt` | `write_bbt_or_bmt_to_flash`, `write_bbt_to_flash` |
| `build` | `create_badblock_table_by_bbt`, as `TableBuilt` |
| `erasePool`, `scan` | the two loops of `find_available_block` |
| `relocate`, `copy`, `remap` | `update_bmt` and `migrate_from_bad` |
| `writeBmt`, `placeBmt`, `programBmt` | `write_bmt_to_flash` |
| `mark` | `mark_block_bad_bmt`, from wherever it is called |
| `program`, `erase`, `done`, `refused` | `spi_nand_write_internal`, `spi_nand_erase_internal` for one page, one block |
| `ready` | no request under way |
| `dead` | `spi_nand_setup` has failed |

`ack` is a history variable: what the users were last told each page holds,
`Unknown` while a request is under way and after one that failed or was cut short.

A failure of a flash operation is `clean` (page or block as it was) or `torn`
(unreadable).  A loss of power in the middle of an operation is a torn failure
followed at once by `PowerCut`.  Blocks in `Worn` always fail; `Faults` says which
operation may fail on which block.

### `Tftp`

The loader takes one packet at a time, from the frame to the answer, so one packet is one
action.  After the answer to the last block it checks and writes the image before it takes
another packet (`tftp.c:128-139`), while the clients and the network go on: that is an action
of its own, and `ending` is true between the two.  The memory image is a
sequence of pieces of 512 bytes, since every block but the last has that size; `File[s]`
is the same for the client.  `rcvdata_size`, which `checkfile` uses, and `data_len`, which
bounds the memory, are two counters as in the code.

| Action | Code |
|---|---|
| `RcvWrq` | `tftp_rcv_wrq`, `tftp_put_begin`, the reset in `tftp_rcv_packet` |
| `RcvNext` | `tftp_rcv_data` for the block that is expected: `tftp_put` and the acknowledgement |
| `EndOfFile` | its rest after the last block: `tftp_put_end`, `checkfile`, `tftp_write_flash` |
| `RcvOld`, `RcvNewer` | its other two branches |
| `RcvNothing` | its early returns |
| `TftpSendAck` | `tftp_send_ack`, `udp_send`, `ip_send`, `arp_get_eth_addr`: without the host's address the packet is dropped and an ARP request leaves instead |
| `ArpRequest`, `ArpReply` | `arp_rcv_packet`, `arp_add_cache` |
| `Start`, `ClientRcvAck`, `ClientIgnores`, `Timeout`, `GiveUp` | clients, outside the repository: they send a block again until it is acknowledged and ignore any other acknowledgement |
| `Lose` | the network loses a packet or an ARP request |

The network is the set of packets under way, so delivery has no order.  `Copies` says
what delivery leaves: with `TRUE` in it a packet may be delivered again at any time
later.  `checkfile` sees sizes and whether the image has the right checksum (`Sealed`);
it overrules the type by the size exactly as the code does, and the type it sets
survives into `tftp_write_flash` because both use the variable `filetype`.
`got` and `verdict` are history variables: the highest block of a session ever stored,
and what `checkfile` said of it.

### `SpiNandChip` and `NandMtd`

A transaction, from chip select to its release, is one step; the chip works on its own
between transactions (`ChipReady`), so that a command can meet a chip that is still busy.
The cells of a page are `PageSize` data cells and one for the spare area.  `at` is the
place of each user in the code: one label for each transaction or poll of the status.
A call of the exported functions is broken into page writes and page reads by `remain_len`
as in the code; MTD's commands keep `struct spinand_state` between them.  MTD itself lets
one user in at a time; the exported functions may be called on two processors, which
meet at `spinandLock`.  The tree has no caller of both kinds at once, so `Parties` has
them apart.

Two things are assumed of the users: they write only cells that are erased, and no two of
them write the same cell.  ECC never fails here and neither does a program or an erase:
that is `Bmt`'s subject.  `spi_nand_write_page_internal` uses an `addr_offset` it never sets
(`:2258`, used at `:2305` and `:2323`, and described as "the location from the cache" near
`:3739`).  What it finds there is chosen from `StackOffsets`; the run has 0, the only value
with which MTD's page write is right.

Met on the way, and not stated as properties: `waitfunc` answers 0 always and the result of
`program_page` is dropped (`:4078`); a failing `write_oob` passes NULL to `update_bmt`;
`spi_nand_setup` may return with the lock held (`:4399`); its clean-up frees one block
twice; the reset sends the opcode of SET FEATURE where its comment says FFh; the length
`write_page` returns is wrong and not used; a branch for GigaDevice chips is never taken
since another chip has the same identifier before it.

### `LoaderNet`

`mac` chooses the driver; `dev` is its record of descriptors and indices.  `mac_interrupt`
empties the ring up to `MaxPkts` frames; a frame is answered, makes the main program's ARP
entry known or is discarded.  The main program allocates (`alloc_skb`, in its four steps,
`skbuff.c:51-57`), looks the peer up, and sends under `__cli`.  `eth_send` ends with `__sti`
wherever it was called (`eth.c:146`), so inside the handler it opens the processor to
another interrupt; `handler` is the stack of activations.  Masking `MAC_INT` is what keeps
the receive loop from running inside itself (`NotReentered`).

Entering an interrupt clears the processor's interrupt enable and returning sets it.  Fewer
than `NBufs` (512) buffers are allocated during one interrupt, so the search of `alloc_skb`
does not come round to a buffer it has just tested.  The QDMA engine does not report a
frame of length 0.  `MaxPkts` is the size of the receive ring, as in the code.

`QdmaChains` has the engine write the index of a sent descriptor into the interrupt queue in
a step of its own, after the queue's length has counted it (`EntryWritten`).

### `Qdma`

`mtk_start_xmit` holds `page_lock` and has four steps (`busy`, `map`, `free`, `cpu`), between
which other processors, the interrupt handler and the hardware act; the handler has its reads
of status and index apart from the acknowledgement.  The busy bit is taken to be up from the
write of the CPU index to the last fetch, which is what makes freeing ahead right; a
descriptor's done bit and the DMA index move together.

The last `mtk_stop` writes registers of another engine (`eth.c:1273-1275`: 0x1A04 and 0xA04, not
the 0x4004 of `qdma_config`), so the engine runs on and the handler with it.  The next open
sets the rings up again beside a handler that may have read status and index before
(`eth.c:1117`, `:1210`); from the first last stop on (`stopped`) an empty buffer can therefore be
handed up (`blank`) and frames may come out of order.  Whether the stop also masks
`INT_STATUS_RX0_DONE` depends on the order of two devices' calls and is left open (`rxMask`
either way): a receive that is pending and masked makes the handler look at it before the
queue of sent buffers for ever.  An allocation that fails while the ring is set up leaves a
descriptor without address and with the buffer of before (`eth.c:1113`, result ignored).  A
frame that cannot be padded (`eth.c:748`) has been freed by `skb_padto` and goes on all the
same, to be freed once more by the drop or after it was sent: `unpadded` keeps those, and
`TimesFreed` is the one exception of `NotFreedUnsent` and `SkbsAccounted`.  A failure of
`dma_alloc_coherent` at set-up is not modelled.

Seen and not stated: `mtk_remove` stops a device that is stopped already and takes the
reference count below 0; buffers in the ring when it is set up anew are never freed (`lost`); a
frame that arrives between the read of `RX_DMA_IDX` and the acknowledgement waits for a later
one, so `QuietIsServed` is about frames that arrive while no handler runs.

### `BulkUpgrade`

A PC repeats the pieces of a file in a circle.  Handlers run inside the receive interrupt
and are one action for a packet.  The memory is the one TFTP uses, so it starts with
anything in it.  A checksum is assumed to tell a file from a mixture.  `romfile` and `rom-d`
have only the sums of their packets, so mixtures of them are written in spite of the
comment "check crc for romfile and rom-d" (`ip.c:933`); `WrittenIsOneImage` is about the boot
loader and tclinux.  `Acceptable` says what a device takes in the state it is in: after a
file too large, `badimg` stays set and later ones that fit are refused (`ip.c:697`, with
"Image too big for partition" at `:706`), the size of the installed tclinux is looked at
instead of that of the new one (`:1021`, `:1119`), and an upgrade with everything in one
file has no size check.  Power loss during the writes, and a failing flash, whose result is
not looked at, are not modelled; the branch for `isLinosAllinone` is dead.

A file fits its part of the flash, is over its end, or (a boot loader) is short.  The parts are
in the order of a SPI flash, and a file is over by less than the next part.  The boot loader,
the romfile and the rom-d of the boot protocol are written with their full length, whatever
that is (`ip.c:994`, `:1131`, `:1151`): what is over goes into the next part, which was not erased
(`PastTheEnd`, `Overrun`).  Each write of the boot loader erases `TCBOOT_SIZE` bytes, the board's
parameters (mi.conf) at their end included; the code copies these into memory first and
writes them back as part of the image, if the image is long enough to reach them
(`ip.c:988-994`, `BootBlock`): a shorter one loses them.  `ParametersStay` and
`WrittenIsOneImage` have these two as their exceptions.

### `Mt7530` and `SwitchTest`

The functions of `switch_slt_main.c` are sequences of steps with ports, registers and values
filled in; `Program` is all of them in the order of `MT7530_SLT_Test` (some 1600 steps),
`pc` the place in it, and `goto fail` the next verdict.  A write of a PHY register is three
commands of the MDIO engine, each a `gswPbusWrite` to 0x701c and reads of it until the engine
is idle; `EngineDone` is the engine's own step, and the switch ignores a command given
before.  An engine that works needs fewer than `MaxWait` (10000) reads; one that does not
never ends a command.  The wait of `miiStationWrite` for the processor's own MDIO bus has no
limit in the code and is one step here.

A device has at most one defect.  Packets arrive at the end of a wait, from the ports whose
generator was armed and told, if MAC, PHY and relays are set so that they can.  `told` is a
history variable: what the registers would hold if every access reached the one it was
meant for.

What the test overlooks is named in `Overlooked` and is there to be argued with: the data flow
test at 10M is called without keeping its result, so the verdict is that of the test before
(`:1713`); port 5 is counted and printed but never judged; in the tests over port 5 what
arrived is compared with the limit of what may be lost (`:1343`).  The three tests judge a loss
equal to the limit differently.  The EEPROM's escape condition is tried with the wrong chip id
still in place, so it cannot fail.  `binClassify` ignores its argument and reads
`gpio_set[id]` with an `id` that is never set: `lights` is any value.  The file is compiled with
`MT7530_SLT` only, and nothing in the tree calls it.

## 3. Runs

All bounds are CONSTANTS given in the `.cfg`: blocks, pages, values, failures
(`MaxFails`), losses of power (`MaxCrashes`), requests (`MaxOps`).  The chip has six
or seven blocks of two pages: the pool needs a block for each table and two more, so
that a replacement can itself be replaced; two or three system blocks, so that one
can be factory-bad; two pages, so that a migration has a copied page and a last page.
Index bytes have three bits, enough to name every block and to keep the all-ones
pattern free.  Two failures are enough to fail during the handling of a failure.
Values are symmetric.

| Run | Properties | What it shows |
|---|---|---|
| `MCBadBlockTable` | `TypeOK`, `TableCorrect`, `TableIsBuilt`, `Finishes` | every system area of up to 8 blocks and every set of bad blocks |
| `BmtFaults` | `TypeOK`, `ReadBack` | two program failures anywhere, or a failed erase of the user's block 0, no loss of power |
| `BmtPower` | `PoolFixed`, `TablesSaved` | two program failures off the blocks where the tables are placed, two losses of power at any step, three requests: where the pool begins and what the tables say; nothing about data |
| `BmtSmallPool` | `InUseApart`, `ReplacementsKept`, `Returns` | every kind of failure, torn pages, a loss of power, a pool that runs out: nothing in use is touched, and set-up and every request end |
| `TftpNet` | `TypeOK`, `StoredIsSent`, `AcknowledgedWasStored` | three clients at a time, two of them on one host, any packet delivered any number of times in any order, between the last answer and the check too |
| `TftpEnds` | `UploadEnds` | two clients in turn, three losses, a client that gives up, a third host, two slots in the address cache |
| `NandMtd` | `TypeOK`, `CacheIsThePage`, `StoreIsFaithful` | MTD alone, or two processors, three calls of lengths across pages and blocks, two kinds of chip: the driver is a plain store |
| `LoaderNet` | `TypeOK`, `BuffersAccounted`, `IndicesAgree`, `NotReentered`, `SendsInOrder`, `ReceivedIsServed`, `GivenIsSent` | each of the five drivers with rings of three, two frames in all, each of any kind, and one send of the main program |
| `Qdma` | `TypeOK`, `NotFreedUnsent`, `SkbsAccounted`, `RunsWhileOpen`, `DeliveredOnce`, `QuietIsServed`, `QueuedIsSent`, `QueueIsEmptied` | two processors, two devices, up to four sends on a ring of three and two frames on a ring of two, four of both together, two opens, so that two devices share the rings or one is opened again after the last stop, and one failure of padding, mapping or allocation |
| `BulkUpgrade` | `TypeOK`, `WrittenIsOneImage`, `ParametersStay`, `GoodIsWritten` | fourteen files of every kind, good, damaged, too long and too short, up to three packets each, joined anywhere, three faults |
| `SwitchTest` | `TypeOK`, `RegistersAsTold`, `VerdictIsDeserved` | the whole self test with all seven ports, on a good device and on 200 with one defect |

The instances of `Tftp` have files of one to three blocks, one of them a multiple of 512
bytes (so it ends with an empty block) and one too large for the memory; one client
shares its host with another, so that only the port tells them apart; one slot in the
address cache, so that each host drives out the other (two for the three hosts of
`TftpEnds`).  Sizes are scaled so that `checkfile` gets each kind of answer.

In `Qdma` a ring of three wraps within four sends and tells full, empty and neither apart; one
of two receive descriptors has a next and a last and comes round.  In `LoaderNet` at most three
frames leave, the main program's and two answers, so the index of the send ring wraps once,
and with it the wrap bit of the GMAC changes; the receive ring does not come round, and two
frames never make the handler stop at `MaxPkts`.  For rings and bursts of any length there are
the theorems.  Blocks of two pages of two cells give writes that
begin or end inside a page, cross one page and cross a block.  Three pieces give a first, a
last and one between.  In `SwitchTest` a generator sends five packets and counters wrap at
twelve, so they wrap within each group of tests; the limits of loss are one and two.

`CHECK_DEADLOCK FALSE` stands where the system may really stop: the finished table,
and a chip whose pool is exhausted, so that set-up fails (`dead`) with no power cut
left within the bound; and in `LoaderNet` and `Qdma`, where all bounded sends and frames
have been used up.

One run shows a disagreement between the code and what its comments say; its entry is under
`findings`.

| Run | Violated | What happens |
|---|---|---|
| `BmtEraseWrongBlock` | `ReadBack` | With a factory-bad block below it, a block whose erase fails is replaced under its logical number. |

Others were found with runs of the same modules and are recorded here only:

* Power goes between the erase of the BMT and its writing (`bmt.c:691`): reconstruction learns
  mappings from spare areas only, and a replacement its user has erased since has none.  A
  write that fails and is replaced, an erase and one more failing write are enough, one request
  more than `BmtPower` has; that run is therefore asked nothing about data (`ReadBack`).
* The erase of the BMT block fails, the block is marked through the cache, and the next search
  reads the copy of the spare area made before (`spi_nand_flash.c:2131`, `:2913`) and finds it
  again, unerased.
* A pool block that fails everything cannot be marked and is chosen for ever (`bmt.c:707`).
* A factory-bad block past the end of the identity table shifts the whole table (`bmt.c:1031`).
* A `tclinux.bin` that passes its checksum is acknowledged and not written: the branch meant
  for it tests another type (`tftp.c:315`).

The passing runs stop short of these, by their bounds or by what they are asked: `BmtPower`
keeps failures off the first and last pool blocks (`HomesSafe`), where the tables are placed
and where the stale copy of the spare area bites; after a failed write of a table it would
send the table to the block just marked bad, which the next set-up skips.  `BmtFaults` lets
only block 0 fail an erase, whose logical and physical numbers are always the same.  More
limits were met while the bounds were chosen.  With torn pages and a loss of power the
last block of the chip may be unreadable; its check then looks at whatever the cache
holds, here the zeros of a cold cache, and the border of the pool moves (`PoolFixed`
fails).  With three program failures the block given up for the second time is chosen
again unerased, because its mark went to the page that failed (`bmt.c:1112-1115`) while
the search reads page 0, and `ReadBack` fails; the theorem `ReadBackUntilPowerLoss` names
this as its hypothesis `MarkIsSeen`.  A replacement made by a failed erase has
no index in its spare area at all, so the loss of power between erase and write reaches it too.

### Fairness

`FairSpec` has weak fairness of `Driver` only: once entered, the code runs to
completion with interrupts off, so a step of it that is enabled is taken.  Requests
and losses of power are never required.  `BadBlockTable` has weak fairness of its
`Next` for the same reason.

`FairSpec` of `Tftp` has weak fairness of `TftpRcvPacket` (the loader polls its interface
all the time), of `EndOfFile` (it ends what it has begun), of the ARP replies and of the clients'
steps.  A client need not start and
may give up.  A lost packet is not delivered later; there are at most `MaxLosses` of them.
Hosts use ARP of their own accord only finitely often: other hosts that drive the client
out of the cache before every acknowledgement hold up its upload for ever.
In `TftpEnds` the clients are `Orderly`: one at a time, and with a timeout longer than any
packet is under way.  Without that `UploadEnds` does not hold, for two reasons: clients
that repeat themselves faster than the loader answers can keep it busy, and a late copy of
a write request restarts the server in the middle of its own client's upload, after which
the server waits for block 1 and the client for the acknowledgement of a later one.

`FairSpec` of `LoaderNet` has weak fairness of the main program, of entering a pending
interrupt that is enabled, of the handler, and of the hardware's sending and writing of its
queue; frames need not arrive.  That of `Qdma` has it of each processor's way through
`mtk_start_xmit`, of the handler and of sending, none of opening, stopping or arrival.  The
engine is never stopped, so `QueuedIsSent` has no exception; `QuietIsServed` and `QueueIsEmptied`
say "or the receive interrupt is masked", which is where the handler no longer gets to it.
That of `BulkUpgrade` has it
of `Deliver` only: a network on which something is delivered again and again.  `GoodIsWritten`
assumes that the PC stays with a file the device can take and has room for
(`<>[]Acceptable(cur)`), and jumps are bounded, so faults end.  It asks that the device ends, and of
the step by which it ends that the whole of the file being sent is in the flash.  A file that is
over its part is excepted there, and of romfiles and rom-ds, mixtures of which are taken,
only the last piece is certain.

### Refinement

`LoaderNet!SendsInOrder` is `TxQueue!Spec` with the buffers between the hardware's position and
the driver's as `pending` and those between the last one given back and the hardware's
position as `spent`, computed from the indices of each driver: a wrap counted wrongly, a
descriptor given back early or twice is a step `TxQueue` does not have.
`NandMtd!StoreIsFaithful` is `FlashStore!Spec` with the cells of the chip for the cells;
`todo` and `turn` are history variables that say what a call has yet to change.  `FlashStore`
lets a call change its cells in several steps, but nobody else in between, and answers a read
with what the cells hold at one moment.

## 4. Proofs

`BadBlockTableProofs`, for every `MaxSystem`:

* `TypeInvariant`: cursors and table stay in range.
* `TableNumbersGoodBlocks`: `TableCorrect` for every system area and every list.  The
  inductive invariant follows the cursors: while the `i`-th bad block is handled the
  entries below `k` are final; the entries above are the identity raised by one for each
  bad block handled; the entries below `j` are less than every bad block not yet
  handled.  `FirstFound` is needed: without it `k` is 0 at the first shift.
* `TableIsBuiltAlways`: `Spec => []TableIsBuilt`, for every list, whether its first block is
  found or not: the loops end with the expression `TableBuilt`, which is what `Bmt` uses for
  them.  After `c` rounds an entry has moved past the bad blocks among the first `c` whose
  home `bad[m] - m + 1`, the place they had in the table before they were skipped, is at or
  below it.  Homes rise with `m` because the blocks of the list do, and the search of the
  `m`-th round stops exactly at the `m`-th home (`HitIsHome`).  When the first block lies behind
  the table, the first round shifts everything and the later ones shift nothing.

`BmtProofs`, for every chip size, pool size, set of values, and every pattern of
failures:

* `TypeInvariant`.
* `InUseApartUntilPowerLoss`: `Spec /\ [](crashes = 0) => []InUseApart`.
* `ReplacementsKeptUntilPowerLoss`: `Spec /\ [](crashes = 0) => ReplacementsKept`.
* `ReadBackUntilPowerLoss`: under `CleanFailures`,
  `Spec /\ [](crashes = 0 /\ MarkIsSeen) => []ReadBack`.
* `PoolFixedUntilPowerLoss`: under `CleanFailures`,
  `Spec /\ [](crashes = 0 /\ MarkIsSeen /\ GoodSource) => []PoolFixed`.
* `TablesSavedUntilPowerLoss`: under `CleanFailures` and `TablesTold`,
  `Spec /\ [](crashes = 0 /\ MarkIsSeen /\ HomesHold) => []TablesSaved`.

The inductive invariant of the first three is `IInv`: types, and as long as no power was lost
(`FirstPower`): no step of the set-up finds a table or a named block on a chip fresh
from the factory (`BlankChip`), a block about to be marked is not a replacement
(`MarkApart`), the block that was found is free (`FoundFree`), the blocks of the tables
are where their labels need them (`Placed`, `Homes`), and the block the request
addresses is the one its mapping names (`Targets`).  `InUseApart` alone is not
inductive: a found block is used two steps after it was looked at, and nothing in
`InUseApart` says that it is free in between.

`ReadBack` is not true of the code without hypotheses.  The theorem has those the
counterexamples call for:

* `CleanFailures`: erases succeed, or the finding `BmtEraseWrongBlock` applies; a program
  that fails leaves its page as it was, so that the block can be copied from.  Programs may
  fail on any block, the homes of the tables among them, and any number of times: a
  replacement that fails while it is filled is replaced by another.
* `MarkIsSeen`: a replacement that took over a block and fails later fails at its first page.
  The mark of a block goes to the page that failed (`bmt.c:1112-1115`), the search reads page 0.
* No loss of power.

The first failure replaces a block, the second can already be the case `MarkIsSeen` excludes,
but it takes a third for the block so marked to be chosen again; `BmtFaults` stops at two.
It also has what the theorem leaves out, an erase of block 0 that fails.

Its invariant adds `Intact` to `IInv`.  `Control` says what the code is doing from where a
search or a mark will return (`Goal`), that a table is given a home only while it has none,
that before the first search the chip is empty (`Fresh`), and what the buffer holds
(`Want`).  `NoGarbage`: no page was programmed twice with different data.  `CacheMarks` and
`CachePlace` are what the cached page must be for a mark not to be written over data, as
marks are merged into whatever the cache holds.  `Vacancies` is the heart: a block nobody
uses holds nothing, with one exception, the block that failed while it was being filled and
is not marked yet.  It holds a part of what the next block is to be filled with (`Fits`), and
the search, which goes up from the border, passes over everything below it (`InLine`); so if
it is chosen again before its mark is written, it is filled with what it holds already.
`Users` ties the chip to the users: the numbering is one to one (`Numbers`), each page
holds what was acknowledged (`Kept`) and the cache agrees (`Coherent`), and while a
write is under way the failed block still has the other pages and the new block those that
were copied (`Writing`, `Filled`).  `ReadBack` alone speaks of the idle driver only.

The last two theorems rest on `Intact` and say more of the spare areas.  `Border` is the
invariant of `PoolFixed`: while set-up counts, `n` is the number of good blocks above `i`
(`Counted`); a cached page knows whether its block has a factory mark (`KnowsRaw`), though its
two copies of the spare area may differ in everything else; a pool block that is used, or was
just found, has none (`UsedGood`), and the erase of the others passes over those that have one;
and none is written into the pool (`NoneWritten`).  The condition `GoodSource` is that the block a replacement is
filled from has no factory mark.  A block that has one is in use only if the numbering left it
in, which happens with a factory-bad block past the end of the identity table (`bmt.c:1031`);
its spare area is copied with its data, and the border moves.

`Stored` is the invariant of `TablesSaved`: nothing but its home holds a table (`Signed`), no mark
is on a home or in the cached copy of its spare area (`ClearHomes`), and both tables are on the
chip as they are in memory, the BMT but for the steps that write it (`Written`).  A home is found
during set-up, when no mark has been written yet and both copies of the spare area are those of
the chip (`Plain`).  `TablesTold` stands for the signatures: no page of a user looks like a table.
`HomesHold` is that no program of a table fails, the restriction of the run `BmtPower`.

After a loss of power the theorems would need what reconstruction and loading
read from the flash to be apart, which rests on what was on the flash when power went;
this is model-checked only (`BmtSmallPool`) and planned for proof.

`TftpProofs`, for any number of clients, files of any length and content, any sizes of
memory, cache and images, and a network that loses, repeats, delays and reorders:

* `TypeInvariant`: among the types, no image is received past `limit_size`.
* `StoredIsSentAlways`: `Spec => []StoredIsSent`.
* `AcknowledgedWasStoredAlways`: `Spec => []AcknowledgedWasStored`.

The invariant adds four facts.  `UploadInv`: while an upload is under way the memory holds
the first `client_block - 1` pieces of its client's file, and both counters agree.
`EndingInv`: between the answer to the last block and the check it holds the whole file, and the
client is still that of the file.  `NetAhead`: no data packet under way is more than one block
ahead of what was stored, no acknowledgement is ahead at all, and one for the last block is
there only when the image was checked or is checked next (`Checked`).  `ServerAhead`: the same
of the server's counter.  Together they settle the branch at
`tftp.c:149`: a block beyond the one expected was sent by a client whose expected block had
been stored before a repeated write request restarted the server, so the number it is
answered with is one the client has left behind.  Without `NetAhead` a delayed packet could say anything.

`QdmaProofs`, for rings of any size (at least three descriptors to send from), any
processors and devices, and failures of padding, allocation and mapping wherever they can happen:

* `TypeInvariant`: among the types, the interrupt queue is never longer than the number of
  sends (`Counted`).
* `NotFreedUnsentAlways`: `Spec => []NotFreedUnsent`.
* `SkbsAccountedAlways`: `Spec => []SkbsAccounted`.
* `RunsWhileOpenAlways`: `Spec => []RunsWhileOpen`, from `refcnt = Cardinality(opened)`.
* `DeliveredOnceAlways`: `Spec => []DeliveredOnce`.

`NotFreedUnsent` speaks of all descriptors the engine has still to send; the invariant shows
that there is never more than one (`OneToSend`), because a call gets past the busy bit only
when the engine has caught up with the processor's index, and the lock keeps others away
until that index is written (`Locked`, `Caught`).  The two descriptors emptied ahead are then
not the call's own, which is where a ring of two would fail.  `Holding` and `InHand`, that a
buffer is in at most one place, give that the driver frees none twice; `Spare`, that the
descriptor of the next call was emptied by the calls before it, and `Somewhere` give that none
leaks.  `skb_padto` frees a buffer it cannot pad, and the driver frees it again (`eth.c:748`):
each buffer has at most that one additional free, and only if it is in `unpadded`.
The engine half of `RunsWhileOpen` does not depend on who stops what (`Session`): `mtk_stop`
writes the registers of another engine (`eth.c:1273`), so this one, once started, runs for
good.  The interrupt half does, since the last stop may mask it: it rests on the counter.

On the receive side, until the last device is stopped for the first time, `Handed` says that what was delivered is in order and no younger than the
youngest frame looked at, and `Pending` that the done bit, as long as the handler has not
taken it, and after that the index it read, stand for a descriptor whose frame is younger
than that.  `DeliveredOnce` alone says nothing of the frame a handler is about to hand up,
and a handler acts on a status and an index that may be old.  A ring set up beside a running
engine and handler (`eth.c:1117`) breaks that order, and empty buffers are delivered; what
remains is `Once`: a frame is in one buffer or handed up, so the stack gets none twice.

`BulkUpgradeProofs`, for any files, any memory, and packets lost, repeated, reordered, damaged
and mixed between files:

* `TypeInvariant`: among the types, that the pieces counted are those of the way around the
  circle from the first piece to the last taken (`Around`), and so never too many.
* `WrittenIsOneImageAlways`: `Spec => []WrittenIsOneImage`.
* `ParametersStayAlways`: `Spec => []ParametersStay`.

The order of the packets is not what makes the image one file, since a collection may hold
pieces of several.  What does is that every path to the boot loader and to tclinux passes a
checksum over the memory (`Agreed`) and that nothing is written before (`WrittenOnce`), with one
exception the property names: a romfile that is over its part is written unchecked over
tclinux (`Overrun`, `ip.c:1151`).  The parameters go with the erase of the boot block and come
back if the file written there reaches them; `ParametersStay` says that only a
boot loader shorter than `TCBOOT_SIZE` loses them, and that nothing else does.
`Around` is what is hard: a collection begun with a piece of one file goes on with those of a
longer or shorter one, and the count must stay within the memory all the same.

`NandMtdProofs`, for chips of any size and any kinds, any text, calls of any length, and any
number of processors:

* `Invariant`: `Spec => []IInv`.
* `TypeInvariant`, whose types include that no cell is programmed to two values (`Mixed`).
* `CacheIsThePageAlways`: `Spec => []CacheIsThePage`.

`CacheIsThePage` speaks of moments when nobody has the lock.  In between the invariant says for
each place of the holder what the chip is doing and whether its write latch is up (`Steady`),
that the plane selected and the register of that plane are right for the page under way
(`Registers`), and which of the cached page, the spare area and the copy of it are up to date
(`Cached`): from the moment the cache is changed to the end of the program the cache is ahead of
the chip, and MTD's writes leave the copy behind until the last step.  What is programmed is
programmed over blank cells only: a call's cells were blank when it began and those it has
still to write are still (`OwedBlank`), since calls under way have no cell in common (`Apart`)
and a page written for one is written with the others' cells unchanged.  `Progress` and
`PieceIs` tie the pieces of a call to its address and length; their lemmas are the arithmetic
of pages and columns.

`NandMtdStore`, for the same:

* `StoreRefined`: `Spec /\ []OffsetIsZero => StoreIsFaithful`.
* `DirectStoreRefined`: `Spec => StoreIsFaithful`, if MTD is in none of the `Parties`.

The program executed and the block erased are the steps in which the store lays down the next
cells of a request, and the end of a call is its answer; the store sees nothing of the rest.
What is left of a request follows from the place of the call, `left` and the piece (`Placed`,
`Remains`): nothing is recorded for the proof that the code does not keep.  A write of any
length comes in pieces, of which the one under way carries the part of the text that is its
turn (`Given`); an erase goes by whole blocks, and the last one erased has to be the last one
asked for although the length is rounded up (`Whole`).  That `ProgramExecute` changes only the
cells of its piece rests on `IInv`: the rest of the register is what the page held.  A read of
several pages collects cells one page after the other, and is answered with what they hold at
one moment, because nobody changes cells while it has the lock (`Gotten`, `Turn`).  MTD fetches
after it gave the lock back, from the cached page, which must still be the page it asked for
(`Buffered`).  `OffsetIsZero` is the condition under which the code is right: the offset of
`spi_nand_write_page_internal` is what the stack holds, and in a behaviour in which MTD's page
write finds another value there it begins in the wrong column; the theorem says nothing of
those.  MTD's write of the spare area has no cells to put at that offset, and the exported
functions compute theirs, so without MTD no condition is needed.

`LoaderNetProofs`, for any number of buffers and descriptors, each of the five drivers, any
number of frames, and interrupts wherever they can fall:

* `TypeInvariant`.
* `NotReenteredAlways`: `Spec => []NotReentered`.
* `IndicesAgreeAlways`: `Spec => []IndicesAgree`.
* `BuffersAccountedAlways`: `Spec /\ []ClaimIsFree => []BuffersAccounted`.
* `SendsInOrderAlways`: `Spec /\ []ClaimIsFree => SendsInOrder`, the refinement of `TxQueue`.

The inductive invariant `IInv` is the types, the state of the descriptors (`DevOK`), and for each
place of the handler and of the main program what masks are set and which buffers they have
(`HandlerControl`, `MainControl`).  A ring is described by the distance of a descriptor from the
oldest one in use (`Off`): of the `n` given out the first `s` are sent, the hardware stands behind
them and the driver behind all of them, so everything but the wrap of an index (`Wrap`, `WrapMod`)
is linear (`TxPlace`, `TxBits`, `RxPlace`, `RxBits`).  For the QDMA there is a path of links from the
hardware's descriptor to the CPU's, and path, unused list and interrupt queue share out the
descriptors (`Links`, `Partition`); `ChainIs` shows that `Chain`, which follows the links, finds that
path, and `ReadableIs` that no entry of the interrupt queue is refused.  `IndicesAgree` is a
statement of numbers of elements; `RingCounts` and `PartitionCount` get them from the distances.

The account of the buffers names every place a buffer can be in, a descriptor, the main program's
`held`, the handler's `out` and `job`, and says what is there (`View`), that no buffer is in two
places and that the used ones are those in some place (`Accounts`).  Every action is then one of
three changes, a buffer that gets a place, moves to another or leaves (`Gets`, `Moves`, `Leaves`), or
several of them in a row.  `ClaimIsFree` is the condition under which the code is right: `alloc_skb`
tests a buffer and marks it in two steps without a lock, so if between them the interrupt handler
goes once round the whole table, it can take the same buffer.  With 512 buffers that takes a
burst of frames served in one place of the main program; the run `LoaderNet` cannot produce it,
and TLC finds `ClaimIsFree` true in all of its states.

For the refinement a ring is laid out from its oldest descriptor (`Line`): what was sent and what
is still to be sent are neighbouring windows of it, the hardware moves the border between them,
a new frame lengthens the second and a reclaim shortens the first (`RingSends`, `RingQueues`,
`RingReturns`).  For the QDMA they are the interrupt queue and the path of links (`ChainSends`,
`ChainQueues`, `ChainReturns`).  That a frame handed over is not in the queue already is the one
fact that no index shows: it comes from the account, in which the buffer has a place of its
own (`Elsewhere`).

Assumptions of `Tftp`: `TftpAssumption` (sizes are natural numbers, every piece of a file
but the last is full); `PortAssumption`, that no two uploads share host and port, because
the loader tells clients apart by nothing else and client programs open a new port for
each upload; `BlockAssumption`, that the 16-bit block number does not wrap: the largest
image that is written has 8 MB, 16385 blocks.

Assumptions of `BulkUpgrade` (`BulkAssumption`): a file has at most as many pieces as the
memory holds, one with everything in it has a piece of each of its three parts, and one that
is over its part has at least a piece beyond the first.  Those of
`NandMtd`: MTD and the callers of the exported functions are not there at the same time, sizes
are natural numbers, the text is a sequence longer than a page (`NandMtdAssumption`), and
`Idle` is neither a call nor a request (`IdleAssumption`).

`LoaderNetAssumption`: both rings have at least two descriptors, there are enough buffers to
fill the receive ring, and the threshold of the interrupt queue is less than the chain.

Assumptions of the others: the named `ASSUME`s of `NandFlash`, `SpiNandChip`, `BadBlockTable`,
`Bmt` and `Qdma`.  They say
that the sizes are positive, that neither an erased page nor an unreadable one is a user's
value or a table, that no block number is coded as all ones, and that block 0 comes good from the
factory (chip vendors guarantee it, and the driver never tests it).

Out of the prover's reach, and left to TLC: `Returns`, `Finishes`, `UploadEnds`,
`ReceivedIsServed`, `GivenIsSent`, `QuietIsServed`, `QueuedIsSent`, `QueueIsEmptied` and
`GoodIsWritten` (liveness).  After a loss of power `PoolFixed`, `TablesSaved`, `InUseApart`,
`ReplacementsKept` and `Returns` of `Bmt` are model-checked, under the restrictions of their
runs; that data survives one is neither proved nor checked, since the code does not keep it
(section 3).  `ReadBack` with a failed erase is model-checked for block 0 only.  The invariants of `SwitchTest` are model-checked
too: the self test is one program over one switch, and the run goes through all of it.

## 5. What is not modelled

* In `Bmt`: lengths other than one page or one block, MTD's command interface and the lock, which
  the atomicity of `Bmt` stands for.  They are modelled in `NandMtd`, which in turn has no bad
  blocks; a program that fails in the middle of a partial write (`spi_nand_flash.c:2432`) is in
  neither.
* The copy out of the page cache after the unlock (`:4142`): only a caller of the exported
  functions beside MTD could come between, and the tree has none.
* The tables of chips, timings and ECC layouts; the byte FIFOs of the SPI controller.
* The 8-bit and 16-bit counters of the tables, out of reach at TLC's sizes; the limits
  `MAX_BMT_SIZE` and `MAX_RAW_BAD_BLOCK_SIZE`.
* Checksums and signatures: a page is a table or it is not.  Corruption that passes a
  checksum is not considered.
* The tables' `version` and the `bad_count` that nobody reads.
* In `Tftp`: read requests and packets of the loader's other protocols, which change none of
  its state; headers and lengths that do not agree with the frame; the flash write after
  `tftp_write_flash`, which is board code outside the repository; `tftp_break`, read by the
  loader's shell.  That an upload failed its check is told to nobody, since the last block
  is acknowledged first (`tftp.c:128`): `AcknowledgedWasStored` says that the image was
  checked or is checked by the loader's next step, not that it is good.
* The set-up of MACs, PHYs and of the switches of `tcswitch.c`: long sequences of register writes
  whose meaning is in data sheets; ICMP; the TCP of `ip.c`, which only prints.
* Interrupt masks, the start of the second processor, timers, boot parameters: register writes
  without a protocol of their own.
* Code for other chips under `#if`, logging.

## 6. Plan

1. *Done*: `NandFlash`, `BadBlockTable`, `Bmt`, `Tftp` with the proofs above; `NandMtd` over
   `SpiNandChip` and the proof that it implements `FlashStore`; `LoaderNet` with its proofs, that
   each driver implements `TxQueue` among them; `Qdma` and `BulkUpgrade` with theirs; `SwitchTest`.
2. The theorems of `BmtProofs` carried over losses of power: what set-up reads back is what
   the invariants say was on the chip when power went.
3. `Bmt` as an implementation of a store that keeps what it acknowledged; a flash that fails
   under `NandMtd`.
