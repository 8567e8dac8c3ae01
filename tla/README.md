# NCD15 emulator and tools: verification project

The repository holds an emulator of the NCD15 X terminal (`src/emulator`), a
CP/M-like operating system for the terminal (`src/xcpm-mips`), a minimal boot
program and a TFTP server for it (`src/xncd15r-mini`), and notes and listings
from the reverse engineering of the firmware. This directory holds TLA+
modules of its parts, TLC runs on small instances, and proofs checked by TLAPS.

## 1. Inventory

| component | state | operations | interacts with |
|---|---|---|---|
| LANCE chip (`emulator/src/lance.c`) | CSR0-3, MODE, PADR, LADRF, two ring positions, `int_state`, poll counter, working copies of a descriptor; the rings themselves are in host memory | reset, CSR0 write, initialise, transmit walk, receive walk, tick | driver (registers, rings), wire, CPU interrupt |
| LANCE glue (`lance_glue.c`) | `prev_csr0`, `int_cnt`, shadow words, staging buffer | mirror CSR0 each poll, DMA, wire receive | chip, firmware memory, host network |
| CPU (`mips.c`) | registers, CP0, delay slot, IP bits | step, interrupt check, exceptions, RFE | bus, LANCE line, timer |
| Bus (`memory.c`) | RAM, shadow, cache isolation, preload state | read, write, LANCE window | all devices |
| DUART (`duart.c`) | receive ring of 16 per channel, mode pointers, OPR | register read and write, feed | console, NVRAM pins, main loop |
| NVRAM (`nvram.c`) | 64 words, pin levels, protocol state, EWEN | pin write, pin read, load, save | DUART output port, main loop |
| main loop (`main.c`) | `in_buf`, keyboard FIFO | one poll each 10000 cycles | all devices |
| FAT driver (`xcpm-mips/src/fat.c`) | `fat_wbuf`, one sector used for data, directory and FAT, and its flag; `sec_buf`, a copy of the sector read last; the mount record | mount, open, read, seek, create, write, flush, unlink, rename, mkdir, rmdir | block device, BDOS |
| BDOS (`bdos.c`) | handle table with generations, redirection, search state, current directory | 60 functions | FAT, BIOS, applications, CCP |
| BIOS, console, LZSS, ramdisk, CCP, applications | small | polled and sequential | BDOS |
| `tftpd.py`, `raw_tftpd.py` | one thread per transfer; a table of transfers | RRQ, WRQ, ACK, DATA, timeout; FS/1 | lossy network, files |

What is hard here:

* *Two cursors on one ring.* Chip and driver keep separate positions; nothing
  but convention keeps them together across re-initialisation, chains and errors.
* *Order of stores.* A chain is handed over one descriptor store at a time
  while the chip polls.
* *Read, then acknowledge.* The interrupt routine acknowledges what it read; a
  frame can come in between.
* *Sampling.* The glue sees CSR0 once per poll.
* *Derived state.* INTR, ERR and the interrupt line are recomputed by hand; the
  FAT driver's cache tags are cleared by hand.
* *Long protocols on pins.* 25 clocks with data, any of which may be the last.
* *Interrupts anywhere.* The timer and the LANCE may interrupt between any two
  instructions, in the middle of a cache sweep, before a delay slot, in the very
  handler of the other; and the instruction cache is kept coherent by hand.
* *Queues in a row.* A key passes three bounded queues, each with its own rule
  for what it does when it is full.
* *One buffer for everybody.* The 4 KiB window of the decompressor holds, at
  fixed offsets, a running script, the redirected input, both halves of a pipe
  and saved arguments.
* *Handles in other people's memory.* A file control block is kept by a
  program; the kernel knows it again by an index and a counter of eight bits.
* *Retries.* Lost and duplicated packets in the transfers; a second thread.

The components and their status are in `PROJECT.json`, with the hazards by line.

## 2. Modules

| module | models |
|---|---|
| `LanceChip` | the handlers of `lance.c` as operators on a record *machine* (registers, rings, wire, stored frames) |
| `Lance` | the chip with a driver, the timer and the wire; the specification and its properties |
| `LanceGlue` | the CSR0 mirror of `lance_glue.c` with the boot self-test |
| `LanceProofs` | theorems about `Lance` and `LanceGlue`: types, status and ownership; the two rings; the wire; what is received; the count of interrupts and the loopback of the self-test |
| `Nvram` | the 93C46 of `nvram.c` as operators on a record: pin write, pin read |
| `NvramPins` | the chip with any sequence of pin levels, against what a whole stream of bits calls for |
| `NvramBoard` | firmware routines, DUART ports, chip, image file and power together |
| `WordStore` | the abstract specification `NvramBoard` implements |
| `NvramProofs` | theorems about `NvramPins` and `NvramBoard` |
| `Fat` | the FAT driver of `fat.c` as operators on a record *volume* (FAT, root directory, data, both buffers) |
| `FatFiles` | the file calls of `bdos.c` over `Fat`, loop turn by loop turn; the specification and its properties |
| `FileStore` | the abstract specification `FatFiles` implements |
| `FatProofs` | theorems about `FatFiles` |
| `BusMap` | the address map: segments, regions, who answers a read and who takes a write |
| `Mips` | the interpreter of `mips.c` over the bus of `memory.c`: fetch, cache, exceptions, timer, LANCE line, flash preload |
| `MipsProofs` | theorems about `Mips` |
| `Console` | a key on its way: window and stdin, main loop, DUART, UART driver, BIOS and the console calls of the BDOS |
| `ConsoleProofs` | theorems about `Console` |
| `Shell` | the command processor: lines, scripts, redirections, pipes, the end of a command, and the window they share |
| `ShellProofs` | theorems about `Shell` |
| `Fcb` | the file control blocks and the handle table of `bdos.c`, with the seek and the record writes of `fat.c` |
| `FcbProofs` | theorems about `Fcb` |
| `Tftp` | `tftpd.py`: threads, retries and a network that loses, repeats and reorders |
| `TftpProofs` | theorems about `Tftp` |
| `MCLance`, `MCLanceGlue`, `MCNvram`, `MCNvramBoard`, `MCFatFiles`, `MCMips`, `MCConsole`, `MCShell`, `MCFcb` | constants of the TLC instances; `MCMips` also holds the programs that its CPU runs |

### LANCE

A handler of `lance.c` runs to its end without interruption (the emulator has one
thread), so each is one operator from machine to machine, and a register write,
tick or frame is one action. `chip` holds the registers; `tx` and `rx` are the
rings in host memory. A descriptor holds OWN, STP, ENP, the error bits and which
fragment of which frame it points to, rather than its bytes. A frame is the
sequence of fragments read, with length, and whether its FCS is good. `wire` and
`taken` are histories: frames sent, and frames stored whole.

| code | definition |
|---|---|
| `lance_regs_w`, CSR0 | `WriteCsr0` = `Acked`, `DoInit`, `DoStrt`, `DoTdmd`, `Summarise` |
| `lance_initialize` | `Initialize` |
| `lance_transmit_poll`, `lance_transmit`, `lance_send_complete` | `TransmitPoll`, `Transmit` (`TxLast`, `TxFrame`, `ReleaseTx`, `Walked`, `Underrun`, `Finish`), `Echo` |
| `lance_recv`, `lance_receive`, `lance_recv_complete` | `Recv`, `Receive`, `StoreRx` (`RxLast`, `FillRx`) |
| `lance_tick` | `TickChip`, action `Tick` |
| `lance_update_interrupts` | `UpdateInterrupts` |
| `lance_address_filter` | `AddressFilter` |
| `lance_glue_recv` | `GlueFrame`, action `WireFrame` |
| `lance_glue_mirror_csr0` | `Mirror`, action `Poll` |

A walk over a chain is not a loop: `TxLast` is the offset of the descriptor at
which the loop stops (the least one that `TxStops`), and everything the loop does
on its way is said of the offsets up to it. This is what makes the walks provable.

The driver is the terminal's firmware, of which the repository has listings
only; it is modelled from what the comments of `lance.c` and `lance_glue.c` say
of it, and marked external in the map. `OwnLast` says that it stores the first
buffer of a chain last; `EmptyFrags` lets it queue empty buffers; `QuietWire`
that nobody addresses the station while its receiver is off. Runs and theorems
say which of these they need.

Abstractions: buffers are the same length for all descriptors of a ring
(`FragBytes`, `RxBytes`), with an empty buffer as the other case; the 4096-byte
clamp, the pad to 60 bytes and DTCR together with ADD_FCS are left out; the
logical address filter is a set of groups; CSR1-3 and the address of the init block
are left out, so the block the driver last wrote is the one the chip reads. The
deferred-IDON countdown of `lance_tick` is left out because nothing starts it.

### EEPROM

`nvram_write` acts on the edges between the old pin levels and the new ones; each
call is one step. A word and an address are the tuples of their bits in the order
they pass over the pins (most significant first), so that shifting is appending
and the same module serves any width; `rx` keeps the bits of `rx_shift` that are
looked at and `sent` stops counting where the count makes no difference.

| code | definition |
|---|---|
| `nvram_new`, `nvram_load_file` | `Fresh`, `LoadFile` |
| `nvram_write` | `NvramWrite` (`BeginCmd`, `Clocks`, `SkRise`) |
| `nvram_sk_rise` | `SkRise` = `ShiftCmd` (`HasCmd`, `Obey`, `ObeyOther`), `ShiftData` (`Program`), `ShiftOut` |
| `nvram_read` | `NvramRead` |
| `nvram_save_file`, end of `main` | `SaveBegins`, `SaveEnds` |
| `duart_write` 0x0F, `duart_read` 0x04 | `PinsFromOpr`, `PutStep`, `Ipcr` |

`NvramPins` is the chip alone with an adversary on the pins. `stream` is the
history of bits clocked in since the chip was selected and `base` the memory at
that moment; `MemAfter`, `EwenAfter` and `Answer` say from these alone what the
chip should hold and show, without registers, counters or states.

`NvramBoard` is the whole path the firmware uses: its routines (read, erase,
write, enable, disable, size probe) are translated from `disasm/monitor.dis`, one
step per change or reading of the port. Each routine is a list of transfers
(`Routine`), a transfer a number of clocks, and a clock three writes of the port;
`tr`, `clk` and `edge` of `fw` say which write is next, and `Port` what it puts on the
pins. The listing gives addresses 0x2000 below
those at which the code runs; `nvram.c` and this text use the latter. A routine
is interrupted by nothing but the end of the emulator: `SaveBegins` truncates the
image as `fopen` does, `SaveEnds` has written it, `Killed` comes at any moment,
and a missing or short image is refused by the next `Boots`. The chip never shows
itself busy, so the wait after a write runs into its timeout and does nothing
but release the chip; it is left out. So is WRAL, which the code ignores, and
which leaves its data word to an idle chip.

Three words of the documents disagree with the code and with the model: the comment
at `nvram.c:124` calls what happens after 24 clocks a way out of a stream without
a start bit, but the branch takes it as a command, and 24 zeros are an EWDS;
the comment at `nvram.c:18` has the chip commit a WRITE when CS drops, the code does on the
last data bit; `NVRAM_SETUP.md:5` and `EMULATOR_ERRATA.md:66` have the answer come
LSB first, the code and the firmware have it MSB first.

`WordStore` is what is promised: an operation reads or writes one word and the
saved image comes back. `NvramBoard!ImplementsStore` is the refinement, with the
image decoded from the file.

### FAT and file calls

The kernel has one thread and no interrupts, so a call of the BDOS runs to its end
before the next. What can go wrong is in the state that outlives a call or a
turn of its loop: the two sector buffers, the flags that say what they hold, the
FAT and the directory half-way through a change, and the handle of an output
redirection, which lives from BDOS 114 to 115 with other commands' calls between.

The volume is a record. `fat`, `dir` and `data` are what is on the disk; `buf`
and `valid` are `fat_wbuf` and `fat_buf_valid`, `sec` is `sec_buf` with its own
flag and sector number. `fat_wbuf` is the FAT cache and the work buffer of every other
path, so `buf` is either a FAT or `Junk`, and `valid` does not follow from it.
Links are read from `buf`, never from `fat`: a flag left set over a foreign buffer
would show.

A step of `FatFiles` is one turn of the loop of `fat_fread` or `fat_fwrite`, or
what a call does before and after. A turn moves a *unit*: a sector, or a
part of one (`SectorUnits`), the 128 bytes of the calls that move a file in
pieces. `more` says whether the same call has more to move, which is what decides
whether a turn goes on to the next cluster.

| code | definition |
|---|---|
| `read_sec`, `write_sec`, `read_fat_sec` | `Sector`, `WriteEntry`, `Store`, `LoadFat`, `Forget`, `Scratch` |
| `fat_next_clus`, `fat_set_entry` | `NextClus`, `SetEntry` |
| `fat_alloc_cluster`, `fat_free_chain` | `Alloc`, `AfterAlloc`, `FreeChain` over `Chain` |
| `fat_find_dirent`, `fat_find_empty_dirent` | `SlotOf`, `EmptySlot` |
| `fat_fcreate`, `fat_fopen` | `CreateSlot`, `AfterCreate`, `NewHandle`; `OpenHandle` |
| `fat_fread` | `ReadUnit`, `AfterRead`, `ReadHandle` |
| `fat_fwrite` | `AfterWrite`, `WriteHandle`, `ShortWrite` = `Attach`, `Store`, `Grow`, `Extend` |
| `fat_fflush`, `fat_funlink`, `fat_frename` | `Flush`, `Unlink`, `Rename` |
| BDOS 120, 121, 123, 111 | `Save`, `Load`, `Copy`, `Cat`, each with its `...Turn` and `...End` |
| BDOS 114, 115, `bdos_redir_putc` | `RedirBegin`, `RedirEnd`, `Emit` and `CatTurn` through `RedirFlush` |
| BDOS 19, 23 | `Delete`, `RenameFile` |

`Chain` is the least set of clusters that holds the first and is closed under
links, not a loop: what `fat_free_chain` frees is said of the set, and the proofs
need no induction.

Abstractions: the geometry is that of the image the build makes
(`mkfs.fat -F 12`, 128 KB: a fixed root directory, FATs of one sector, of which the
second is never read and is left out). The disk is an array in RAM, so sector
reads and writes neither fail nor tear, and what is there is gone at power-off.
Paths are names in the root. A read that the end of the chain cuts short is made
again by its caller's loop and finds itself where it was, so such a turn is the
same as one that goes on. The last, partial buffer of a redirection is one more
`Emit` before `RedirEnd`.

What the environment is held to: a command does not delete, overwrite or save over
the file its own output goes to (`Spared`; renaming it is allowed); redirections
come in pairs, as the command processor issues them; and a file that is moved
in pieces has at most `Pieces` units. The last is what the code needs to be
right: beyond one cluster, copy, cat and redirection go wrong, as the run
`fat_copy` shows, and the other runs ask what holds short of that. `Save` and `Load`
move a file in one call and are not bounded by it.

Not in these modules: redirections that append are in `Shell`; the FCB calls,
handles and their generations, and seek are in `Fcb`; subdirectories and long
names are nowhere.

`FileStore` is what is promised: named texts, one being written, one being filled
by output; a full disk may cut short what is written and nothing else.

### CPU and bus

The machine is a record of CPU, instruction cache, memory and what the bus
remembers; the parts of `mips_step` are operators on it, in the order of the code:
`CheckInterrupts` (`Latch`, `Enabled`, `TakeException`), the boot hook
(`AtHook`, `Redirected`), `Fetched` and `FetchWord`, `Execute`, `Advance`. `Run` is
all of them, one step, and `Retires` what it leaves; `Redirect` is the step that ends
at the hook.

A word of memory is an instruction or a datum. Only instructions whose effect
a property can tell apart are kept: jumps and branches, loads and stores (whole
words and part words, which differ in what they do to the cache), the moves to and
from CP0 that enable, mask, acknowledge, isolate and return, the one that flushes the
cache (a status with IsC), and SYSCALL. A
branch on data is open both ways. Arithmetic is `nop`, and so the merge of
LWL, LWR, SWL and SWR is not modelled: a part word is stored as a word.
Addresses are real, in words; the cache has its 256 sets of four words, of
which those are carried that an image has words for; a fetch from any other line
reads memory, which has nothing there: stores beyond the words of the image are left out.

The images lie where no device answers and are made of these instructions
(`ProgramAssumption`); the handler lies in DRAM and the sections of the flash file do
not reach it (`HandlerAssumption`); the entry points are addresses
(`EntryAssumption`). `bypassed` is a history, of the cells stored to since by a path
that drops no line of the cache or another cell's: KSEG1, SWL and SWR, and a store
under one DRAM address while the cache holds the cell under another.

The programs are constants. `MCMips` has a monitor that may look at the flash
card early, wipes the bank and goes to its boot driver; a guest that flushes its
cache over the vector, patches code through every kind of store and has a LANCE
routine; the handler of `memory.c:330-365`, instruction by instruction, with its
computations left out; and the start of the XCP/M kernel (`start.S`), with its
own handler. `due` is the timer: it may be due at any instruction, once between two
times the CPU is out of a handler (the code has 50 000 cycles between them,
handlers a few dozen); the LANCE line moves under the same bound, since the main
loop ticks the chip every 10 000 cycles.

`ghost` is history: what an exception interrupted, which cells were written past
the cache, and what became of the last edge.

### Console

A byte is a key with its number, so that order and repetition show. `FbTick` is
`fb_tick` with the drain that follows it, `Poll` the rest of what the main loop does
every 10 000 cycles; the guest accesses the DUART once a step, between any two
of these. `Look` is a read of the status register, `Take` of the data register
with what the call does with the byte; line editing (BDOS 10) keeps line and
screen apart. A key that means nothing to the guest is left out of the event queue,
since `fb_tick` ignores it when its turn comes; `escape` says that one of the keys
waiting there is an Escape. The same bytes go to `conin`, `poll` and `status`: the BIOS console
status takes the byte it finds, and answers with it. The initialisation of the
UART runs over a mode pointer left anywhere.

### Command processor

The window is eleven cells instead of 4 096 bytes, cut where the code cuts it
(`SubmitData`, `InrdAt`, `InrdData`, `LeftAt`, `RightAt`, `SafeAt`), and whoever reads a
cell that another has overwritten finds garbage, which is an unknown command.
`Begin` is `run_line` up to the dispatch: arguments saved, output opened, input
read, in this order; `Read` and `Say` are the command's console calls; `Finish`,
`ProgramReturns` and `Reset` are the three ways a command ends, of which the last
two drop the stack and with it the right half of a pipe. A file is the text its
directory entry shows; what a driver does underneath is the matter of `FatFiles`.

### File control blocks

`Resolves` is `resolve_fcb`; blocks may be copied, kept after a close, or forgotten
with the handle still taken, as no warm boot closes one. A record is one cell; a
chain holds whole clusters, `Reachable` is when `fat_fseek` succeeds. `serial` in
a block and in a handle is history: which open they are of. Generations count
modulo `Gens`, 255 in the code. Programs write to files they have made; with
`WriteOpened` they also write to files they have opened, whose handle does not
note its entry, and the properties fail at once (section 6).

### TFTP

`net` is the set of all datagrams ever sent, and any of them may be received any
number of times or never: loss, repetition and reordering need no actions of
their own, and to send again what was sent changes nothing. A thread has a port,
its place in the file and its tries. The terminal is external: it keeps to the
first port that answers and takes blocks in order, as the protocol asks.

## 3. Runs

| run | shows |
|---|---|
| `lance_ring` | with a correct driver, register writes, stores, frames of one and two buffers, interrupts and re-initialisation in every order keep both cursors in step; frames reach the wire whole, once and in order; a frame given back was sent; the receive ring is a queue; no wake-up is lost |
| `lance_live` | a handed-over buffer comes back, a filled one is read, and an underrun stops the transmitter, with a driver that hands over the first buffer first and may queue empty ones |
| `glue_patient` | in the loopback, wire-probe and normal modes, a frame given back came round; and the interrupt count is exact if the self-test lets a poll pass after STOP |
| `nvram_pins` | memory, write enable and output are what the stream of bits calls for, whatever the pins do; an answer stays current |
| `nvram_board` | the whole path implements the word store across restarts; the size probe finds the address width |
| `fat_files` | every call around an open redirection, until disk and directory are full: the buffers are believed only when they hold what is on the disk; no cluster is shared, lost, or free and in use; handles agree with their entries; a file is read as it was when it was opened; output is cut short only on a full disk; and the files are those of `FileStore` |
| `fat_copy` | (violation) a copy of a file longer than a cluster is not a copy |
| `cpu` | a line of the instruction cache holds what memory holds; the installed handler survives cache sweeps and interrupts in them; the image is entered whole; an edge of the LANCE line is kept until it is served or the timer path drops it; a handler returns to what it interrupted; an enabled edge is answered |
| `console` | queues hold, bytes of one source come in order and once, the screen shows the line, the UART has its mode; bytes are lost only where a queue of the emulator is full; a guest that waits is answered |
| `shell` | what is put in the window is there when it is read, as long as each text keeps to its part; the console is back at the prompt; output lands in its file and nowhere else |
| `fcb` | a block that resolves reaches the file of its own open, within the cycle of generations; records land where they were asked for; a sequential read gives the file |
| `tftp` | a transfer that ends is exact, in both directions |

Bounds: rings of two slots are the smallest in which a chain wraps round and in
which "next" differs from "this"; two transmitted frames, two received and two
initialisations let a stale cursor meet the next use of the ring. `FragBytes`
and `RxBytes` are chosen so that a frame takes one or two buffers on either side
and, in `lance_live`, that a chain exceeds 1518 bytes.

For the EEPROM, two address bits (the fewest that hold the sub-opcodes) and two
data bits (the fewest with an order and two bytes); `GiveUp` is 8 clocks where
the code has 24, against commands of 5 bits where the code has 9. Ten clocks in
a selection (`MaxClocks`) take in every command with its data, two clocks beyond
the end, and zeros up to `GiveUp`; two selections (`MaxSelects`) let one that was
cut short be followed by another. In `nvram_board` the firmware uses two of the
four words and writes one value; the run is not bounded otherwise.

For the FAT, three clusters of two units, two entries and three names: the disk
and the directory can each be full while the other is not, a chain of three
clusters has a middle, and a third name finds no entry. A short text fits in a
cluster with room left and a long one of five units needs all three
clusters. `fat_files` takes two sectors to a cluster and a unit to a sector,
`fat_copy` one sector of two units. The names are interchangeable in every
definition, hence the symmetry; no liveness is checked under it.

In `cpu` nothing is bounded but the counter (modulo 2) and the stack pointer: the
timer and the line may come at every instruction of the programs, whose loops
close. `console` has queues of one, two and three bytes, so that each is full
while the next is not, eight bytes typed in two streams (an erasure, a kill, a
break and an Escape among them), a line of two characters and two calls. `shell`
has three lines typed in a session, of fourteen, and scripts of three lines, so
that a script, a pipe within it and a redirection within that meet; inputs of
four and seven cells reach the halves of a pipe and the saved arguments. `fcb`
has two blocks, handles, names and chains, three opens and two generations, so
that a generation comes round, clusters of two records and extents of four.
`tftp` has four blocks, three tries and three threads: a repeated request has a
thread, and its own repetition another.

Fairness (`lance_live`): `WF(Tick)`, since the main loop calls it for ever;
`WF(StoreTx)` and `WF(Isr)`, since firmware finishes the frame it has begun and
its interrupt routine runs to the end. Wire frames, demands, new frames and
initialisation are not fair: none has to happen.

Fairness (`cpu`): `WF(Step)`, the main loop steps the CPU for ever. Fairness
(`console`): `WF` of `FbTick` and `Poll`, which the main loop calls for ever, and of
`Look` and `Take`, the instructions of a guest that is inside a console call;
nobody has to type and no call has to be made.

Deadlock is checked in every run of the LANCE, the EEPROM and the FAT. It is off in
`cpu`, `console`, `shell`, `fcb` and `tftp`, where the system may stop: a CPU that has
halted, a window that is closed, a session that is over, a bound on opens that is
reached, a transfer that has ended.

## 4. Proofs

`LanceProofs` proves, for every ring size, buffer size and bound:

* `TypeCorrect`: `Spec => []TypeOK`. The ring positions are computed by the walks,
  so this rests on lemmas that each walk ends inside its ring (`TxLast`, `RxLast`
  exist because the last offset of the ring always stops).
* `StatusAlwaysAgrees`: `Spec => []StatusAgrees`. Every handler ends in
  `UpdateInterrupts` with nothing changed after it; one lemma per handler.
* `DemandAlwaysServed`: `Spec => []DemandServed`.
* `AlwaysChangesHands`: `Spec => ChangesHands`. The step needs more than types:
  that the driver's own stores go to descriptors it owns. `SlotsFree` is the
  inductive invariant: the slots of the frame being queued that are not stored
  yet are not owned by the chip; the chip keeps it because its walks release
  only what the chip owns (`TxWalkOwned`, `RxWalkOwned`).

They assume `RingAssumption` (rings of at least one slot, positive buffers) and
`EnvAssumption` (the types of the bounds and sets); both are evaluated by TLC in
each run. No fairness and none of `OwnLast`, `EmptyFrags`, `QuietWire` is assumed.

The second part of `LanceProofs` is about the rings, also for every ring size, buffer size and bound:

* `RingsStayInStep`: `Spec => []RingsInStep`, with `OwnLast` and `QuietWire`. Chip
  and driver each compute their place by themselves; what keeps them together is
  that the descriptors the chip owns are one run, from the chip's position to the
  place of the driver: `RxRun`, and `TxRun`, which also has the frame being handed over,
  all of it but its first buffer, behind that place. A walk takes the run from the
  front and cannot pass its end, where a descriptor of the driver stops it; a store or
  a refill extends it at the back. `FreshUntilInit` covers the time between the
  building of the rings and INIT, when the chip's positions are those of the old ones.
* `WakeupsAreNotLost`: `Spec => []NoLostWakeup`, with no hypothesis on driver or wire.
  `Reported`: while a filled buffer waits and the routine is not at the ring, RINT
  is set. Only the routine's acknowledgement clears it, on its way to the ring, and
  the routine leaves the ring only when it finds nothing there.
* `UnderrunAlwaysStops`: `Spec => []UnderrunStops`, with none either. TXON goes up only
  in `DoStrt`, which wants STRT clear, and `Sound` has STRT set while a descriptor shows
  an underflow, until INIT has new rings.

`RingInv` is the invariant of all three; parts of it hold only under the named constants
and say so. Without `OwnLast` a chip that polls in the middle of a chain stops
there with an underrun, and its position is no longer the driver's; without
`QuietWire` frames are stored between the building of the rings and INIT (section 6).

The third part of `LanceProofs` is about the frames sent, with `OwnLast` and without `EmptyFrags`, and for
frames cut into any number of buffers:

* `WireIsWholeInOrder`: `Spec => []WireWholeInOrder`.
* `WhatComesBackWasSent`: `Spec => []ReturnedMeansSent`.

The invariant, `WireInv`, reads the run that the chip owns as a chain of whole frames:
STP and ENP stand at the first and the last buffer of each (`Marked`), a fragment
without ENP is followed by the next of its frame (`Joined`), a frame that is not handed
over yet is built behind the run (`Built`), and identifiers go up along the run and are
above all that was sent (`Fresher`, `Sent`). The lemma `FirstFrame` says that the first
ENP of such a run comes with the last fragment of the frame it begins with, so that the
offset at which `Transmit` stops is the end of that frame (`WalkTakesFrame`). With empty
buffers this is false: the chip ends a chain at a buffer of length zero.

Its second half is about the receive side, with `QuietWire`:

* `ReceiveIsAQueue`: `Spec => []RxIsQueue`. `Queue` reads the ring from the driver's
  place: so many filled buffers and behind them empty ones of the chip's (`Blank`). The
  filled ones are slices, each the next of its frame, up to one with ENP or ERR
  (`Sliced`), and what the driver has begun to put together goes on with the first of
  them (`Begun`). `Waits` counts the frames that end well along the ring: the i-th of
  them is the i-th that the chip accepted and the driver has not got. A reception adds
  the slices of one frame at the end (`FillSlices`, `FillWaits`), the driver takes one
  from the front (`TakeSlice`, `TakeWaits`), and nothing else touches either. What an ENP
  with ERR ends, or an ERR alone, was not accepted and is not counted. The counts are the
  cardinalities of the property by `CountsAreCardinalities`.

The last part is about the glue, the first theorem with `Patient` and `QuietWire`:

* `CountStaysExact`: `GlueSpec => CountIsExact`. `CountInv`: what has been raised
  since STOP is what is set now, because every step that sets IDON or TINT raises it
  once and only STOP clears both; what the glue has counted is what its last sample of
  CSR0 shows; and unless the chip is stopped, what that sample shows is still set, because
  the self-test has waited for a sample of STOP before it went on. A poll then adds what
  is new on top of the sample (`OnesAdd`). `QuietWire` is needed: a frame to the station
  that reaches a stopped chip leaves RINT beside STOP; such a sample resets the count but
  not the previous sample (the second early return), and an IDON that was there before STOP
  is then not counted as new.

All of them assume `RingAssumption` and `EnvAssumption`; `OwnLast` and `~EmptyFrags`
are how the Am7990 is meant to be driven, and the run `lance_ring` has both; `lance_live` has neither,
and checks the properties that need neither.

Of the LANCE only model-checked: the liveness properties, which are out of the
prover's reach.

`NvramProofs` proves, for every width of address and word, every patience and
every set of initial images:

* `PinsTypeCorrect`: `PinsSpec => []TypeOK`. That what is programmed is a word and
  what is addressed a cell depends on the length of the shift register in each
  state, which is part of `Sound`; `Opcodes` and `CommandParts` say that a
  complete command splits into one of the four opcodes and an address.
* `ReadsAlwaysCurrent`: `PinsSpec => []ReadsCurrent`. `Sound` carries it: the
  memory changes only on clocks of commands and data, which leave the answer.

* `StreamAlwaysMatches`: `PinsSpec => []MatchesStream`. `StreamInv` says what the
  driver has clocked since chip select rose, as so many zeros (`Leading`) and the bits of
  a command: short of a whole command the shift register holds the last bits
  (`Gathers`); after it, registers and memory are those that command leaves, so many
  clocks later (`Follows`, with a part for each opcode). `OneBitMore` is the step:
  each clock is one more zero or one more bit of the command. `Patient` matters
  there: with fewer zeros than `GiveUp` a full register is never taken for a command.

The invariant of the first two is `PinsInv`: `Sound(nv)` and the types of the histories;
`StreamInv` stands on it. The theorems assume `NvramAssumption` and
`PinsAssumption`.

Of the board, for every width, any words the firmware uses or writes, and any calls,
saves, kills and restarts, it proves

* `SizeAlwaysFound`: `BoardSpec => []SizeFound`.
* `BoardImplementsStore`: `BoardSpec => ImplementsStore`, the refinement of `WordStore`.

Both stand on `BoardInv`. `Levels` says what the writes so far have left on the pins,
for every place in a clock; `Tracked`, that the bits the chip has had since it was
selected are a zero and the first bits of the transfer in progress (`Tracks`). That is
a stream in the sense of `StreamAlwaysMatches`, and the same lemmas (`Sent`, `Follows`)
say what the chip has done with it: nothing before the last bit of a command
(`TracksShort`), then what the opcode asks for (`TracksRead`, `TracksErase`,
`TracksWrite`, `TracksSwitch`). So only three writes of the port can change what the
store shows (`PutEffect`: the clocks `Erasing`, `Programming` and `Switching`), which are the
steps `Erase`, `Program` and `Enable` of `WordStore`; the others are stutters. `Lands`
carries what they have done to the end of the routine, `Collected` has the bits that came
in be those of the word, one clock after the 0 (`GetHears`), and `Waiting` and `Probed`
count the probe's clocks: it sees the 0 with the clock of the last address bit and not
before (`LookSees`). `LoadsSaved` is the way through the file, byte by byte.
They assume `BoardAssumption`: the addresses and words used are the chip's, the probe gives
up later than after `ABits` bits, and the chip waits longer than a command, since every transfer
begins with one clock of a 0 (the code has 11, 6, 24 and 9).

`FatProofs` proves, for volumes of every size and geometry, any set of names and
texts and any `Pieces`:

* `TypeCorrect`: `Spec => []TypeOK`. Links stay links because `ExtendHandle` and
  `NextClus` never let an end-of-chain mark into a handle, and `NextClus` is a link
  only because the buffer it reads is the FAT.
* `CacheIsHonest`: `Spec => []CacheHonest`.
* `NeverShared`: `Spec => []NoSharing`. Freeing a chain is where it could fail: what
  is freed is closed under links, and since no cluster is linked to from two
  places nothing outside the chain points into it (`Chain` lemmas); extending a file
  needs the handle's cluster to be an end of chain.
* `HandlesKeepUp`: `Spec => []HandlesAgree`.
* `NothingIsLost`: `Spec => []NothingLost`. What it says of the chains is an induction along
  links; said of sets it is none: `Covered`, every set that has the beginning of
  each file and is closed under links has every cluster in use. A cluster allocated is
  the beginning of its file (`MarkCovered`) or behind the last of a chain (`LinkCovered`)
  when the turn ends, and a chain freed was one such set with what is left (`FreedCovered`).
* `CutsOnlyWhenFull`: `Spec => CutOnlyWhenFull`. `ShortIsFull`: a scan that finds nothing has
  looked at every cluster (`AllocNone`, from the least element of a set of numbers), in a
  buffer that held the FAT.

The first four are parts of one inductive invariant, `IInv`, and the other two stand on it: types, honesty, no sharing,
handles that agree, and `SaveAtEnd`, that a save with more to write
stands on the last cluster of its chain with the cache flag down. None is inductive alone: a dishonest cache would allocate a
cluster in use, a handle that disagrees would link to a freed one, and two
handles on one entry would make both. They assume `FatAssumption` (at least one
sector to a cluster and one unit to a sector, marks that are no names or
bytes) and `FilesAssumption`; TLC evaluates both. Only model-checked:
`ReadsExact` and the refinement of `FileStore`.

`FcbProofs` proves, for any number of blocks, handles, names, chains and generations, and
clusters and extents of every size:

* `BlocksReachTheirFile`: `Spec => []Reaches`. `GenInv`: the generation in a block and
  in a handle is the number of the open it is of, modulo `Gens`, and a handle is never
  of an earlier open than a block that names it (`NotOlder`); so when the generations
  agree and the opens do not, they are at least a cycle apart.
* `RecordsLand`: `Spec => WritesLand`, and `RecordsInOrder`: `Spec => []ReadsInOrder`, for
  programs that write only to files they have made (`~WriteOpened`). `Linked` holds while
  no generation has come round (`Young`): a name and a chain are in one entry only, and the chain is as long as
  its entry says; a handle that a block gets has the chain of the entry of that name and,
  if the file was made, its slot and its size (`HasEntry`); and a block read
  in sequence is at the record that comes next (`InStep`).
  With `WriteOpened` it fails at `fat_fopen`, which leaves the slot as it was (section 6).

They assume `FcbAssumption`.

`TftpProofs` proves, for files of every length, any number of threads and any number of
tries:

* `ReadsAreExact`: `Spec => []ReadExact`. Every block in the network carries its own part of
  the text (`BlocksMatch`), and the
  client has the blocks up to the one it acknowledges (`GotInOrder`), whichever thread
  sends and whatever is repeated.
* `WritesAreExact`: `Spec => []WriteExact`. With one thread the file is as long as its thread
  has counted, and an acknowledgement in the network is never ahead of the thread that sent it
  (`StoreIsThreads`, `AckedIsStored`).

They assume `TftpAssumption`; no fairness and no bound on losses.

`MipsProofs` proves, for every program, image, handler and flash file:

* `FetchesStayFresh`: `Spec => []FetchesAreFresh`. `Inv` adds the types of the machine
  (`TypeInv`: instructions stay instructions and the cache holds lines of them). Every
  part of a step gets a lemma that says what it does to the relation `Fresh` of cache,
  memory and stale cells: a fetch fills a line with what memory holds (`FetchKeeps`),
  a read of the flash card writes memory but flushes (`ReadEffectKeeps`), a cached store
  drops the one line that shows its cell, or the line has another address
  (`StoreDrops`: all addresses of a cell have the same index, since the size of DRAM is a
  multiple of the cache's). What is exempt is what the code leaves stale: the cells in
  `bypassed` until their line is filled again, and the four words of `Forced`, whose
  reads the bus answers itself.
* `HandlerStays`: `Spec /\ []LeavesHandlerAlone => []HandlerSurvives`, for guests that
  store to no cell of the handler except into the isolated cache; `LeavesHandlerAlone`
  says so of the word that the next step executes. `HandlerKept` carries it: once booted the card
  counts as read, so that no read copies anything again, and only stores change memory
  (`Wrote`). The cache follows from `FetchesAreFresh`. The guest of `MCMips` satisfies
  the hypothesis, and sweeps its cache over the vector.
* `EdgesStayInCause`: the first half of `EdgeKept`. What the second half says, that an
  edge is dropped only when the handler did not see it, is about that handler's code and
  stays with TLC, as do `EntersWhole` and `Resumes`, which speak of what the program
  does between two points, and `EdgeAnswered`, a liveness property.

They assume `ProgramAssumption`, `HandlerAssumption` and `EntryAssumption`.

`ConsoleProofs` proves, for queues of every size, any text typed and any `Burst`:

* `AlwaysFaithful`: `Spec => []Faithful`. The order of bytes is `Rising`: along the whole way
  of a source, from what the guest has taken back to what is still to be read, its numbers
  rise, and none is above what has been typed. A step moves bytes from one queue to the
  front of the next, or cuts some out (`OrderedCut`), or inserts bytes of the other
  source in the middle (`OrderedInsert`), or adds the newest at the end; all of
  these are picking places of an ordered sequence with an increasing function
  (`OrderedPicked`). A look at the status is believed at the later read because nothing
  but the guest takes bytes out (`Ready`). `EditIs` is what line and screen need: each
  kind of byte does the same to both.
* `LossOnlyWhenFull`: `Spec => LostOnlyWhenFull`. What every handler cuts is empty unless a
  queue is full (`HandOver`), and a byte that is in one of the queues after a step is
  not lost; `Feeds` hands the DUART a byte only when its ring is empty, which has room
  because `RxSize` is at least two.

They assume `ConsoleAssumption`. `Answered`, a liveness property, stays with TLC.

`ShellProofs` proves, for any set of commands, lines and files:

* `WindowIsHeld`: `Spec => []WindowHeld`.
* `ConsoleIsBack`: `Spec => []ConsoleBack`.
* `OutputHasLanded`: `Spec => OutputLands`.

They have `ScriptsFit` and `ResetsPlain` as hypotheses, definitions of `Shell`: a script is no longer than
its part of the window and no command writes to it, and nothing ends in BDOS 0 under a
redirection. Without them the code does go wrong (section 6); TLC evaluates both for the instance of the run. `ShellInv` has the four
parts of `WindowHeld` and what they rest on. `Current` says which command is being run: that
of the line or, when an input has run over the saved arguments, garbage; so a command that
ends is still the one whose files are open. `Closed` has a redirection active only while
the command it belongs to runs. `InPart` keeps scripts as they were on the disk, and so within their
part: a script is the one text read into the window while an input or a pipe may lie behind it. `SecondHalf` is
why whatever is found in the place of the right half is a command: it is that half, or
a piece of a text. `Printed` carries what was printed, as the file's text and the buffer.

`TypeOK` of `Lance`, `NvramPins`
and `FatFiles`, and `DemandServed`, are theorems and no longer properties of a run.

## 5. Plan

Done: LANCE and its glue, the EEPROM and its board, the FAT and the calls over
it, the CPU and its bus, the console, the command processor, file control blocks,
TFTP. To prove next, in the order of what the proof would add:

1. The layout of `Shell` with offsets as constants.

`ReadsExact` and the refinement of `FileStore` map a file to the words along its chain, a
function defined by recursion on the place in the file; that there is such a function is an induction
over data.
Liveness stays with TLC: fairness and ENABLED are out of the prover's reach. So
does what a loop over data computes for every input.

## 6. Where code and comments disagree

One disagreement has a run (`fat_copy`). The others were met while modelling; the
models follow the code.

LANCE

* `lance.c:547` lets every frame addressed to this station past the RXON gate; the
  comment at `lance.c:541-545` names the loopback test and the hairpin echo only. A
  frame of another station is stored with the receiver off, between the building of the
  rings and INIT. `QuietWire = FALSE` shows it.
* `lance.c:193` ignores a TDMD while the bit is set, and INIT does not clear it: a demand
  written while the transmitter is off makes a later TDMD without STRT, which
  `lance.c:196-201` means to support, start nothing.
* `lance_glue.c:290-295`: the interrupt count is reset when a poll sees STOP. A STOP
  and INIT between two polls leave the count as it was. `Patient = FALSE` shows it.

CPU

* SYSCALL (`mips.c:139-166`) sets `pc` to the vector, and the end of the step
  (`mips.c:691-716`) moves on once more: the handler's first instruction is skipped.
  In the handler of XCP/M (`start.S:123`, `156`) that is the `addiu $sp, $sp, -56`
  of its frame, so a system call leaves the stack pointer 56 higher than it found it
  and saves its registers over the caller's frame. `MCMips` keeps the two `addiu`
  of the handler and bounds how far the stack pointer moves (`MaxSp`).
* `in_delay_slot` (`emu.h:95`) is never set, so an interrupt between a taken
  branch and its delay slot returns to the slot and not to the branch, and the
  branch is lost. `Resumes` asks for `next_pc` only where no branch was under way.
* LWL, SWL and SWR (`mips.c:656`, `673-674`, `683-684`) merge with the wrong
  shift or mask at some offsets; LWR is right.
* The timer path of the handler (`memory.c:354-359`) clears all of Cause.IP: an
  edge of the LANCE between its test and that store is dropped until the line
  falls. `EdgeKept` says when.

Console

* `console_mc68681.c:133` and `142`: `CR_RST_RX | CR_RST_MR_PTR` is 0x30, the
  transmitter reset, not the 0x1A of its comment. Channel B is saved by a later
  command that resets the pointer; channel A may be left with its mode in one register.
* `main.c:523-525` takes a key out of the keyboard's queue before it looks for
  room: one key is lost per drain that finds none.

Command processor and BDOS

* An appended redirection (`bdos.c:298`) to a file that exists takes a handle
  whose note of the directory entry is of the last file created: its size goes to
  that entry. `OutputLands` excepts it.
* A script of more than 2 032 bytes overlaps the header of the redirected
  input, and one of 4 080 is refused as too big only after it has been read over
  the window; an input of more than 1 872 bytes runs over the saved arguments, of more
  than 1 712 over the right half of a pipe, as does what a pipe's left half
  prints. `WindowHeld` is stated short of that.
* `program | command` never runs the right half: the program returns by a warm
  boot, which drops the stack of `handle_pipe`, and leaves PIPE.TMP.
* BDOS 0 under a redirection, and ^C in a line of input, leave it open: the
  next prompt goes to the file.
* `build_prompt` writes up to 31 characters into the 16 of `ccpmain.c:2752`.
* `d_open` (`bdos.c:995-1002`) sets the extent to the last one of the file, so that
  a file of 16 KiB or more is read in sequence from there.
* A handle from `fat_fopen` does not note its directory entry, so a write to an
  opened file goes to the entry the handle noted before. `WriteOpened = TRUE`
  shows it.
* A sequential write cannot go past a full cluster (`fat.c:521-535`), and a random
  write beyond the end of a file is moved to the end.
* Handles are not closed by a warm boot; after `FAT_MAX_OPEN` of them no file opens.
* The search of BDOS 17 and 18 keeps one iterator for all programs.

TFTP

* A repeated write request starts a second thread, which empties the file behind
  the first. `WriteExact` is stated for one thread.
* When the last acknowledgement of a write is lost the thread has ended, and the
  client has nobody to ask.
* `raw_tftpd.py:135` sends the next block at every acknowledgement, a repeated one too.

## 7. Not modelled

* Values computed by instructions, and the part-word merges: data paths of one
  word, for instruction tests.
* The LANCE shared-memory window (`memory.c:58-103`), which moves bytes; the forced
  reads of the monitor's data other than by route; the injected network configuration.
* Drawing, the stub devices, block devices, option parsing, host network I/O: no
  state that a property could be about.
* `ccpmain.c` line editing, history, variables, aliases and the bodies of the
  commands; BDOS search, subdirectories, disk and user numbers; rename on
  control blocks.
* LZSS decompression: a loop over one constant image.
* Option negotiation and wrapping block numbers of TFTP; FS/1, each of whose
  requests is answered on its own.
* Image tools, listings, fonts: no behaviour that changes state.
