-------------------------------- MODULE Mips --------------------------------
(***************************************************************************)
(* The R3052 interpreter of the emulator (emulator/src/mips.c) over the    *)
(* bus (emulator/src/memory.c): one instruction a step, branch delay by    *)
(* (pc, next_pc), the instruction cache, exceptions, the timer and the     *)
(* LANCE interrupt, the flash card and the exception handler it installs.  *)
(*                                                                         *)
(* A word of memory is an instruction or a datum.  Instructions that only  *)
(* compute are "nop"; whether a branch on data is taken is open ("b?").    *)
(* The programs the CPU runs are not in the repository's emulator: they    *)
(* are the constants of an instance.                                       *)
(***************************************************************************)
EXTENDS BusMap

CONSTANTS
  Images,      \* contents of memory at power-on, one of which is in place
  Sections,    \* what the loader copies into the shadow bank: cell -> word
  Handler,     \* the words the emulator installs at the vector
  Hook,        \* pc of the monitor's boot-method driver
  FlashEntry,  \* entry of the image on the flash card
  Guest,       \* the text of the guest for which LANCE interrupts are enabled
  LanceServer, \* pc of the guest's LANCE interrupt routine (external)
  TickMod,     \* the counter's modulus (2^16 in the code)
  BootFlash,   \* values of --boot-flash
  MaxSp        \* bound: the stack pointer of a guest stays below it

VectorPa  == 32                       \* 0x80
Vector    == Kseg0 + VectorPa
RomVector == Kseg1 + RomBase + 96     \* 0xBFC00180
LineWords == 4
Sets      == 256

Insn(op, a, v) == [op |-> op, a |-> a, v |-> v]
Data(n) == Insn("data", n, "")
Zero    == Data(0)
Nop     == Insn("nop", 0, "")

Line(pa)  == pa \div LineWords
Index(pa) == Line(pa) % Sets
Tag(pa)   == pa \div (LineWords * Sets)

(* The cell behind word w of the line with tag t at index i. *)
CachedCell(t, i, w) == Cell((t * Sets + i) * LineWords + w)

Indices == UNION {{Index(c) : c \in DOMAIN img} : img \in Images}
NoTag   == -1
Invalid == [tag |-> NoTag, words |-> [w \in 0 .. LineWords - 1 |-> Zero]]

IPs == {"IP2", "IP5"}
NoBranch == -1

Registers == {"zero", "t0", "k0", "v0", "sp", "ra"}
Modes == {"monitor", "guest", "kernel"}
UsesRegister == {"jr", "bnez", "addiu", "inc", "lw", "sw", "swl", "mfc0epc", "pend"}
Plain == {"nop", "syscall", "break", "data", "b?", "j", "mtc0sr", "mtc0isc", "ackcause",
          "isolate", "join", "rfe"}
Word ==
  [op: UsesRegister, a: Int, v: Registers] \cup [op: Plain, a: Int, v: Modes \cup {""}]

(* The programs are made of the instructions above and lie in memory: cells *)
(* no device answers for.                                                   *)
ASSUME ProgramAssumption ==
  /\ \A img \in Images :
       /\ img \in [DOMAIN img -> Word]
       /\ \A c \in DOMAIN img : c \in Int /\ ReadRoute(c) \in {"rom", "shadow", "flash", "dram"}
  /\ Sections \in [DOMAIN Sections -> Word]
  /\ Handler \in Seq(Word)

(* The handler lies in DRAM, under the shadow bank that the sections go to.  *)
HandlerCells == VectorPa .. VectorPa + Len(Handler) - 1

ASSUME HandlerAssumption ==
  /\ VectorPa + Len(Handler) <= DramWords
  /\ HandlerCells \cap DOMAIN Sections = {}
  /\ \A img \in Images : HandlerCells \subseteq DOMAIN img

ASSUME EntryAssumption ==
  {Hook, FlashEntry, LanceServer, MaxSp} \subseteq Int /\ TickMod \in Nat \ {0} /\ BootFlash \subseteq BOOLEAN

VARIABLES
  cpu,      \* registers, CP0, pc and next_pc
  icache,   \* index -> line
  mem,      \* cell -> word
  bus,      \* what the bus knows besides memory
  ghost     \* history, for the properties

vars == <<cpu, icache, mem, bus, ghost>>

Machine == [cpu |-> cpu, icache |-> icache, mem |-> mem, bus |-> bus]
-----------------------------------------------------------------------------
(* Reset. *)
ResetCpu ==
  [pc |-> Kseg1 + RomBase, next |-> Kseg1 + RomBase + 1, br |-> NoBranch,
   slot |-> FALSE, halted |-> FALSE,
   r |-> [reg \in Registers |-> Zero],
   sr |-> [bev |-> TRUE, im |-> {}, ie |-> <<FALSE, FALSE, FALSE>>],
   ip |-> {}, code |-> 0, epc |-> 0]

FlushAll == [i \in Indices |-> Invalid]

(* history: ctx is what the exception being handled interrupted, bypassed   *)
(* the cells written by a path that leaves the instruction cache alone,     *)
(* edge what became of the last rising edge of the LANCE line, seen what    *)
(* the handler's test of it found.                                          *)
NoCtx == [on |-> FALSE, pc |-> 0, next |-> 0, ie |-> <<FALSE, FALSE, FALSE>>,
          sys |-> FALSE]

InitialBus(boot) ==
  [isolated |-> FALSE, preloaded |-> FALSE, booted |-> FALSE, boot |-> boot,
   irq |-> FALSE, prev |-> FALSE, running |-> FALSE, last |-> 0,
   timed |-> FALSE, polled |-> FALSE]

Init ==
  /\ cpu = ResetCpu
  /\ icache = FlushAll
  /\ mem \in Images
  /\ \E boot \in BootFlash : bus = InitialBus(boot)
  /\ ghost = [ctx |-> NoCtx, bypassed |-> {}, edge |-> "none", seen |-> FALSE]
-----------------------------------------------------------------------------
(* The bus. *)
At(m, c) == IF c \in DOMAIN m.mem THEN m.mem[c] ELSE Zero

InMonitor(pc) == ShadowBase <= pc /\ pc < ShadowEnd

(* Words of the monitor's data that no code in its listing writes: a read   *)
(* by an instruction in the shadow bank returns what the board would have   *)
(* put there (0x0EC008EC, 8F0, DC0, DD4).                                   *)
Forced == {61866555, 61866556, 61866864, 61866869}

(* The first read of the flash window copies the sections of the image into *)
(* the shadow bank and the exception handler to the vector.                 *)
Preload(m) ==
  LET h == [c \in HandlerCells |-> Handler[c - VectorPa + 1]]
  IN  [m EXCEPT !.mem = [c \in DOMAIN @ |->
                           IF c \in DOMAIN Sections THEN Sections[c]
                           ELSE IF c \in DOMAIN h THEN h[c] ELSE @[c]],
                !.icache = FlushAll,
                !.bus.preloaded = TRUE]

ReadFlash(m) == IF m.bus.preloaded THEN m ELSE Preload(m)

(* The effect of a read, and its value in the machine after it. *)
ReadEffect(m, va) == IF ReadRoute(Pa(va)) = "flash" THEN ReadFlash(m) ELSE m

ReadValue(m, va) ==
  LET pa == Pa(va)
  IN  IF pa \in Forced /\ InMonitor(m.bus.last) THEN Data(1)
      ELSE IF ReadRoute(pa) \in {"rom", "shadow", "flash", "dram"} THEN At(m, Cell(pa))
      ELSE Zero

WriteIgnoringIsolation(m, va, w) ==
  LET pa    == Pa(va)
      route == WriteRoute(pa)
  IN  IF route = "rom" THEN m
      ELSE IF route \in {"shadow", "dram"} /\ Cell(pa) \in DOMAIN m.mem
           THEN [m EXCEPT !.mem[Cell(pa)] = w]
      ELSE IF route = "lance" THEN [m EXCEPT !.bus.irq = FALSE]
      ELSE m

(* A store reaches nothing while the cache is isolated.  The store of the   *)
(* interrupt routine to the LANCE takes its interrupt line down.            *)
BusWrite(m, va, w) ==
  LET pa    == Pa(va)
      route == WriteRoute(pa)
  IN  IF route = "rom" \/ m.bus.isolated THEN m
      ELSE IF route \in {"shadow", "dram"} /\ Cell(pa) \in DOMAIN m.mem
           THEN [m EXCEPT !.mem[Cell(pa)] = w]
      ELSE IF route = "lance" THEN [m EXCEPT !.bus.irq = FALSE]
      ELSE m
-----------------------------------------------------------------------------
(* The instruction cache: the lines that some image has words for.  The     *)
(* others would hold what memory holds there for good, nothing.             *)
Invalidate(ic, pa) ==
  IF Index(pa) \in DOMAIN ic /\ ic[Index(pa)].tag = Tag(pa)
    THEN [ic EXCEPT ![Index(pa)] = Invalid] ELSE ic

Refill(m, va) ==
  LET base == va - (va % LineWords)
      pa   == Pa(va)
  IN  [m EXCEPT !.icache[Index(pa)] =
         [tag |-> Tag(pa), words |-> [w \in 0 .. LineWords - 1 |-> ReadValue(m, base + w)]]]

(* Physical words 0 and 1 read as "jr ra; nop", whatever memory holds. *)
Fetched(m, va) ==
  LET pa == Pa(va)
  IN  IF Uncached(va) THEN ReadEffect(m, va)
      ELSE IF \/ pa \in {0, 1}
              \/ Index(pa) \in Indices /\ m.icache[Index(pa)].tag = Tag(pa) THEN m
      ELSE Refill(ReadEffect(m, va), va)

FetchWord(m, va) ==
  LET pa == Pa(va)
  IN  IF Uncached(va) THEN ReadValue(m, va)
      ELSE IF pa = 0 THEN Insn("jr", 0, "ra")
      ELSE IF pa = 1 THEN Nop
      ELSE IF Index(pa) \in Indices THEN m.icache[Index(pa)].words[pa % LineWords]
      ELSE ReadValue(m, va)
-----------------------------------------------------------------------------
(* Exceptions and interrupts. *)
TakeException(m, pc, code) ==
  LET ie == m.cpu.sr.ie
      v  == IF m.cpu.sr.bev THEN RomVector ELSE Vector
  IN  [m EXCEPT !.cpu = [@ EXCEPT !.epc = IF m.cpu.slot THEN pc - 1 ELSE pc,
                                  !.sr.ie = <<FALSE, ie[1], ie[2]>>,
                                  !.code = code,
                                  !.pc = v,
                                  !.next = v + 1,
                                  !.br = NoBranch,
                                  !.slot = FALSE]]

InGuest(pc) == pc \in Guest

(* Latch the sources into Cause, before the test of IEc. *)
LatchWhenEnabled(m, due) ==
  LET running == m.bus.running \/ InGuest(m.cpu.pc)
      rises   == running /\ m.bus.irq /\ ~m.bus.prev /\ m.cpu.sr.ie[1]
      falls   == running /\ ~m.bus.irq /\ m.bus.prev
      timed   == IF due THEN m.cpu.ip \cup {"IP5"} ELSE m.cpu.ip
  IN  [m EXCEPT !.cpu.ip = IF rises THEN timed \cup {"IP2"}
                           ELSE IF falls THEN timed \ {"IP2"} ELSE timed,
                !.bus.running = running,
                !.bus.prev = m.bus.irq]

Latch(m, due) ==
  LET running == m.bus.running \/ InGuest(m.cpu.pc)
      rises   == running /\ m.bus.irq /\ ~m.bus.prev
      falls   == running /\ ~m.bus.irq /\ m.bus.prev
      timed   == IF due THEN m.cpu.ip \cup {"IP5"} ELSE m.cpu.ip
  IN  [m EXCEPT !.cpu.ip = IF rises THEN timed \cup {"IP2"}
                           ELSE IF falls THEN timed \ {"IP2"} ELSE timed,
                !.bus.running = running,
                !.bus.prev = m.bus.irq]

Enabled(m) == m.cpu.sr.ie[1] /\ m.cpu.ip \cap m.cpu.sr.im # {}

CheckInterrupts(m, due) ==
  LET l == Latch(m, due)
  IN  IF Enabled(l) THEN TakeException(l, l.cpu.pc, 0) ELSE l
-----------------------------------------------------------------------------
(* One instruction.  mtc0 of the status register takes its value from v:    *)
(* "monitor" and "guest" differ in the interrupts they enable, "kernel" has *)
(* none.                                                                    *)
Set(m, reg, w) == IF reg = "zero" THEN m ELSE [m EXCEPT !.cpu.r[reg] = w]

Branch(m, target) == [m EXCEPT !.cpu.br = target]

StatusOf(v) ==
  [bev |-> FALSE,
   im  |-> CASE v = "monitor" -> {"IP5"} [] v = "guest" -> IPs [] OTHER -> {},
   ie  |-> <<v \in {"monitor", "guest"}, FALSE, FALSE>>]

Halt(m) == [m EXCEPT !.cpu.halted = TRUE]

(* SYSCALL: through the vector once a handler is there, else a console call *)
(* the emulator answers itself.                                             *)
Syscall(m, pc) ==
  IF ReadValue(m, Vector) # Zero THEN TakeException(m, pc, 8)
  ELSE [m EXCEPT !.cpu.r["v0"] = Zero, !.cpu.next = pc + 1, !.cpu.br = NoBranch]

Special(m, w, pc) ==
  CASE w.op = "jr"      -> Branch(m, m.cpu.r[w.v].a)
    [] w.op = "syscall" -> Syscall(m, pc)
    [] w.op = "break"   -> Halt(m)
    [] w.op = "nop"     -> m

RfeShallow(ie) == <<ie[2], ie[2], ie[3]>>
RfeDeep(ie) == <<ie[3], ie[3], ie[3]>>
Rfe(ie) == <<ie[2], ie[3], ie[3]>>

(* "pend" is the handler's test of Cause against Status for IP2, "mtc0isc"  *)
(* mtc0 of a status with IsC, which flushes the cache; "isolate" and "join" *)
(* are the bit of register 7.                                               *)
Cop0(m, w) ==
  CASE w.op = "mfc0epc"  -> Set(m, w.v, Data(m.cpu.epc))
    [] w.op = "pend"     -> Set(m, w.v, Data(IF "IP2" \in m.cpu.ip \cap m.cpu.sr.im THEN 1 ELSE 0))
    [] w.op = "mtc0sr"   -> [m EXCEPT !.cpu.sr = StatusOf(w.v)]
    [] w.op = "mtc0isc"  -> [m EXCEPT !.cpu.sr = StatusOf(w.v), !.icache = FlushAll]
    [] w.op = "ackcause" -> [m EXCEPT !.cpu.ip = {}]
    [] w.op = "isolate"  -> [m EXCEPT !.bus.isolated = TRUE]
    [] w.op = "join"     -> [m EXCEPT !.bus.isolated = FALSE]
    [] w.op = "rfe"      -> [m EXCEPT !.cpu.sr.ie = Rfe(@)]

(* A store drops the line of the address it goes to, KSEG1 excepted; the    *)
(* stores of part words drop nothing.                                       *)
StoreKeepsLine(m, va, w) == BusWrite(m, va, w)
Store(m, va, w) ==
  LET s == BusWrite(m, va, w)
  IN  IF Uncached(va) THEN s ELSE [s EXCEPT !.icache = Invalidate(@, Pa(va))]

PartStore(m, va, w) == BusWrite(m, va, w)

Load(m, va, reg) ==
  LET e == ReadEffect(m, va) IN Set(e, reg, ReadValue(e, va))

Execute(m, w, pc, taken) ==
  CASE w.op \in {"nop", "jr", "syscall", "break"} -> Special(m, w, pc)
    [] w.op = "data" -> IF w.a = 0 THEN m ELSE Halt(m)
    [] w.op = "b?"   -> IF taken THEN Branch(m, w.a) ELSE m
    [] w.op = "bnez" -> IF m.cpu.r[w.v].a # 0 THEN Branch(m, w.a) ELSE m
    [] w.op = "j"    -> Branch(m, w.a)
    [] w.op = "addiu" -> Set(m, w.v, Data(m.cpu.r[w.v].a + w.a))
    [] w.op = "inc"  -> Set(m, w.v, Data((m.cpu.r[w.v].a + 1) % TickMod))
    [] w.op = "lw"   -> Load(m, w.a, w.v)
    [] w.op = "sw"   -> Store(m, w.a, m.cpu.r[w.v])
    [] w.op = "swl"  -> PartStore(m, w.a, m.cpu.r[w.v])
    [] OTHER -> Cop0(m, w)

(* pc := next_pc; next_pc := the target of a branch taken here, or pc + 4.  *)
Advance(m) ==
  [m EXCEPT !.cpu.pc = m.cpu.next,
            !.cpu.next = IF m.cpu.br = NoBranch THEN m.cpu.next + 1 ELSE m.cpu.br,
            !.cpu.br = NoBranch]
-----------------------------------------------------------------------------
(* The steps. *)
Becomes(m) ==
  /\ cpu' = m.cpu
  /\ icache' = m.icache
  /\ mem' = m.mem
  /\ bus' = m.bus

Took(l) == l.cpu.pc # cpu.pc

SysTaken(l, w) == w.op = "syscall" /\ ReadValue(l, Vector) # Zero

ContextAfter(l, w) ==
  IF w.op = "rfe" THEN NoCtx
  ELSE IF SysTaken(l, w)
    THEN [on |-> TRUE, pc |-> l.cpu.pc, next |-> l.cpu.next,
          ie |-> l.cpu.sr.ie, sys |-> TRUE]
  ELSE IF Took(l)
    THEN [on |-> TRUE, pc |-> cpu.pc, next |-> cpu.next,
          ie |-> cpu.sr.ie, sys |-> FALSE]
  ELSE ghost.ctx

EdgeAfter(l, w) ==
  LET latched == IF l.bus.running /\ bus.irq /\ ~bus.prev THEN "owed"
                 ELSE IF l.bus.running /\ ~bus.irq /\ bus.prev THEN "none"
                 ELSE ghost.edge
  IN  IF w.op = "ackcause" /\ latched = "owed" THEN "dropped"
      ELSE IF l.cpu.pc = LanceServer /\ latched = "owed" THEN "served"
      ELSE latched

(* The cache holds the word under another of its addresses. *)
HeldByAlias(ic, pa) ==
  /\ Index(pa) \in Indices
  /\ LET t == ic[Index(pa)].tag
     IN  t # Tag(pa) /\ CachedCell(t, Index(pa), pa % LineWords) = Cell(pa)

(* Cells stored to by a path that drops no line, or not their line, until   *)
(* their line is filled again.                                              *)
BypassedAfter(l, f, w) ==
  LET pa     == Pa(w.a)
      around == IF /\ w.op \in {"sw", "swl"} /\ ~l.bus.isolated
                   /\ Cell(pa) \in DOMAIN l.mem
                   /\ w.op = "swl" \/ Uncached(w.a) \/ HeldByAlias(f.icache, pa)
                THEN {Cell(pa)} ELSE {}
      filled == IF f.icache = l.icache THEN {}
                ELSE {c \in ghost.bypassed : Line(c) = Line(Cell(Pa(l.cpu.pc)))}
  IN  (ghost.bypassed \ filled) \cup around

(* mips_step, except where it finds the boot hook. *)
AtHook(l) == l.bus.boot /\ ~l.bus.booted /\ l.cpu.pc = Hook

Retires(due, l, f, w, x, c) ==
  /\ Becomes([x EXCEPT !.bus.timed  = IF due THEN FALSE ELSE @ \/ ~c.on,
                       !.bus.polled = @ \/ ~c.on])
  /\ ghost' = [ctx |-> c, bypassed |-> BypassedAfter(l, f, w), edge |-> EdgeAfter(l, w),
               seen |-> IF w.op = "pend" THEN x.cpu.r[w.v] = Data(1)
                        ELSE c.on /\ ghost.seen]

(* l is the machine once interrupts are latched and taken, f once the word  *)
(* w is fetched, x once it is executed.  The binding of each by a singleton *)
(* spares TLC its evaluation at every use.                                  *)
Run(due, taken) ==
  /\ ~cpu.halted
  /\ cpu.r["sp"].a < MaxSp
  /\ due => bus.preloaded /\ bus.timed
  /\ \E l \in {CheckInterrupts(Machine, due)} :
     /\ ~AtHook(l)
     /\ \E f \in {Fetched([l EXCEPT !.bus.last = l.cpu.pc], l.cpu.pc)} :
        \E w \in {FetchWord(f, l.cpu.pc)} :
        /\ taken => w.op = "b?"
        /\ \E x \in {Advance(Execute(f, w, l.cpu.pc, taken))}, c \in {ContextAfter(l, w)} :
             Retires(due, l, f, w, x, c)

(* --boot-flash: at the hook the CPU is sent to the image, after the        *)
(* sections have been copied once more.                                     *)
RedirectedWithoutCopy ==
  LET l == CheckInterrupts(Machine, FALSE)
      p == ReadFlash(l)
  IN  [p EXCEPT !.bus.booted = TRUE, !.cpu.pc = FlashEntry, !.cpu.next = FlashEntry + 1]

Redirected ==
  LET l == CheckInterrupts(Machine, FALSE)
      p == ReadFlash([l EXCEPT !.bus.preloaded = FALSE])
  IN  [p EXCEPT !.bus.booted = TRUE, !.cpu.pc = FlashEntry, !.cpu.next = FlashEntry + 1]

Redirect ==
  /\ ~cpu.halted
  /\ AtHook(CheckInterrupts(Machine, FALSE))
  /\ Becomes(Redirected)
  /\ ghost' = [ghost EXCEPT !.bypassed = {}]

Step == (\E due, taken \in BOOLEAN : Run(due, taken)) \/ Redirect

(* The chip raises its line when the main loop ticks it or feeds it a frame; *)
(* it falls when the interrupt routine or other code of the guest says so.  *)
LineUp ==
  /\ ~bus.irq
  /\ bus.polled
  /\ bus' = [bus EXCEPT !.irq = TRUE, !.polled = FALSE]
  /\ UNCHANGED <<cpu, icache, mem, ghost>>

LineDown ==
  /\ bus.irq
  /\ bus.polled /\ ~ghost.ctx.on
  /\ bus' = [bus EXCEPT !.irq = FALSE, !.polled = FALSE]
  /\ UNCHANGED <<cpu, icache, mem, ghost>>

Next == Step \/ LineUp \/ LineDown

Spec == Init /\ [][Next]_vars /\ WF_vars(Step)
-----------------------------------------------------------------------------
(* Coherence (mips.c:57-98, 638-646): a line of the instruction cache       *)
(* holds what memory holds, except for words stored to since by an uncached *)
(* store, under another DRAM address than the line's, or by SWL/SWR, which  *)
(* drop no line or another one, and for the four words whose reads the bus  *)
(* answers itself.                                                          *)
FetchesAreFresh ==
  \A i \in Indices : \A w \in 0 .. LineWords - 1 :
    LET c == CachedCell(icache[i].tag, i, w)
    IN  \/ icache[i].tag = NoTag
        \/ c \notin DOMAIN mem \/ c \in Forced
        \/ c \in ghost.bypassed
        \/ icache[i].words[w] = mem[c]

(* The handler the emulator installs (memory.c:330-381) stays what it is,   *)
(* in memory and through the cache, while the guest sweeps its cache over   *)
(* the vector and interrupts come in the middle of the sweep.               *)
HandlerSurvives ==
  bus.preloaded /\ bus.booted =>
    \A i \in 1 .. Len(Handler) :
      LET pa == VectorPa + i - 1
          ln == icache[Index(pa)]
      IN  /\ mem[pa] = Handler[i]
          /\ ln.tag = Tag(pa) => ln.words[pa % LineWords] = Handler[i]

(* With --boot-flash the guest starts from the sections of its file, even   *)
(* when the monitor read the flash card early and wiped the bank after      *)
(* (mips.c:417-432).                                                        *)
EntersWhole ==
  bus.booted /\ cpu.pc = FlashEntry =>
    \A c \in DOMAIN Sections : mem[c] = Sections[c]

(* An edge of the LANCE line is in Cause until it is served; the handler    *)
(* clears it only when its test came too early to see it or found it masked *)
(* (memory.c:330-371 against mips.c:311-335).                               *)
EdgeKept ==
  /\ ghost.edge = "owed" /\ bus.prev => "IP2" \in cpu.ip
  /\ ghost.edge = "dropped" => ~ghost.seen

(* The end of a handler puts the interrupted code back where it was, with   *)
(* its interrupt enables, and after the instruction for a SYSCALL           *)
(* (mips.c:274-287, 260-262).  An interrupt between a taken branch and its  *)
(* delay slot is the exception: the target of the branch is lost.           *)
Resumes ==
  [][ghost.ctx.on /\ ~ghost'.ctx.on =>
       LET c    == ghost.ctx
           back == IF c.sys THEN c.pc + 1 ELSE c.pc
       IN  /\ cpu'.pc = back
           /\ c.next = c.pc + 1 => cpu'.next = back + 1
           /\ <<cpu'.sr.ie[1], cpu'.sr.ie[2]>> = <<c.ie[1], c.ie[2]>>]_vars

(* An edge that finds the LANCE enabled is served, dropped by the timer     *)
(* routine or withdrawn, in the end (mips.c:327-340).                       *)
EdgeAnswered ==
  ghost.edge = "owed" /\ "IP2" \in cpu.sr.im ~> ghost.edge # "owed" \/ cpu.halted
=============================================================================
