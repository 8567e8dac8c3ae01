----------------------------- MODULE MipsProofs -----------------------------
(***************************************************************************)
(* Theorems about Mips, for every program: what the instruction cache      *)
(* shows, and what becomes of an edge of the LANCE line.                   *)
(***************************************************************************)
EXTENDS Mips, TLAPS

-----------------------------------------------------------------------------
(* Types of the machine; D is the part of memory that the image fills.      *)
EnableType == BOOLEAN \X BOOLEAN \X BOOLEAN
StatusType == [bev: BOOLEAN, im: SUBSET IPs, ie: EnableType]

CpuType ==
  [pc: Int, next: Int, br: Int, slot: BOOLEAN, halted: BOOLEAN,
   r: [Registers -> Word], sr: StatusType, ip: SUBSET IPs, code: Int, epc: Int]

LineType == [tag: Int, words: [0 .. LineWords - 1 -> Word]]

BusType ==
  [isolated: BOOLEAN, preloaded: BOOLEAN, booted: BOOLEAN, boot: BOOLEAN,
   irq: BOOLEAN, prev: BOOLEAN, running: BOOLEAN, last: Int,
   timed: BOOLEAN, polled: BOOLEAN]

MachineOn(D) ==
  [cpu: CpuType, icache: [Indices -> LineType], mem: [D -> Word], bus: BusType]

(* The sets of cells that an image fills. *)
Extents == {DOMAIN img : img \in Images}

(* A data word, which every register and cell may hold. *)
LEMMA DataIsWord == ASSUME NEW n \in Int PROVE Data(n) \in Word /\ Data(n).a = n
  BY DEF Word, Plain, Data, Insn

LEMMA ZeroIsWord == Zero \in Word
  BY DataIsWord DEF Zero

LEMMA InvalidIsLine == Invalid \in LineType /\ FlushAll \in [Indices -> LineType]
  BY ZeroIsWord DEF Invalid, LineType, NoTag, FlushAll

LEMMA ExtentCells ==
  ASSUME NEW D \in Extents
  PROVE  \A c \in D : c \in Int /\ ReadRoute(c) \in {"rom", "shadow", "flash", "dram"}
  BY ProgramAssumption DEF Extents
-----------------------------------------------------------------------------
(* Addresses. *)
LEMMA PaIsInt == ASSUME NEW va \in Int PROVE Pa(va) \in Int
  BY DEF Pa, Kseg0, Kseg1, Kseg2

LEMMA PaWithinLine ==
  ASSUME NEW va \in Int, NEW w \in 0 .. LineWords - 1
  PROVE  /\ Pa(va) \in Int
         /\ Pa((va - (va % LineWords)) + w) = (Pa(va) - (Pa(va) % LineWords)) + w
  BY DEF Pa, LineWords, Kseg0, Kseg1, Kseg2

(* Word w of the line of pa, as the tag and the index spell it.             *)
LEMMA LineAddress ==
  ASSUME NEW pa \in Int, NEW w \in 0 .. LineWords - 1
  PROVE  /\ Index(pa) \in 0 .. Sets - 1 /\ Tag(pa) \in Int
         /\ (Tag(pa) * Sets + Index(pa)) * LineWords + w = (pa - (pa % LineWords)) + w
  BY DEF Index, Tag, Line, LineWords, Sets

LEMMA IndicesInSets == Indices \subseteq 0 .. Sets - 1
<1> SUFFICES ASSUME NEW img \in Images, NEW c \in DOMAIN img PROVE Index(c) \in 0 .. Sets - 1
  BY DEF Indices
<1>1. c \in Int
  BY ProgramAssumption
<1> QED BY <1>1 DEF Index, Line, LineWords, Sets

(* What an address of word w of the line with tag t at index i is made of.  *)
LEMMA AddressParts ==
  ASSUME NEW t \in Int, NEW i \in 0 .. Sets - 1, NEW w \in 0 .. LineWords - 1
  PROVE  LET pa == (t * Sets + i) * LineWords + w
         IN  pa \in Int /\ Index(pa) = i /\ Tag(pa) = t /\ pa % LineWords = w
  BY DEF Index, Tag, Line, LineWords, Sets

(* The addresses of a cell have its index and its place in the line.        *)
LEMMA CellKeepsIndex ==
  ASSUME NEW pa \in Int
  PROVE  /\ Cell(pa) \in Int
         /\ Index(Cell(pa)) = Index(pa) /\ Cell(pa) % LineWords = pa % LineWords
  BY DEF Cell, Index, Line, LineWords, Sets, DramWords, InDram

(* A cell outside DRAM is its own address; so is one of DRAM that is not an *)
(* alias.                                                                   *)
LEMMA CellOnce ==
  ASSUME NEW pa \in Int, ReadRoute(pa) \notin {"rom", "shadow", "flash", "dram"}
  PROVE  Cell(pa) = pa
  BY DEF Cell, ReadRoute, InRom, InShadow, InFlash, RomBase, RomWords, ShadowBase, ShadowEnd, InDram
-----------------------------------------------------------------------------
(* The types of the machine's parts, of a machine whose image fills D. *)
LEMMA Parts ==
  ASSUME NEW D, NEW m \in MachineOn(D)
  PROVE  /\ m = [cpu |-> m.cpu, icache |-> m.icache, mem |-> m.mem, bus |-> m.bus]
         /\ m.cpu \in CpuType /\ m.icache \in [Indices -> LineType]
         /\ m.mem \in [D -> Word] /\ m.bus \in BusType
         /\ \A i \in Indices : m.icache[i] \in LineType
  BY DEF MachineOn

LEMMA ReadIsWord ==
  ASSUME NEW D, NEW m \in MachineOn(D), NEW va \in Int
  PROVE  ReadValue(m, va) \in Word
<1>1. At(m, Cell(Pa(va))) \in Word
  BY Parts, ZeroIsWord DEF At
<1> QED BY <1>1, ZeroIsWord, DataIsWord DEF ReadValue

(* A read of the bus changes memory only when it flushes the cache, and     *)
(* never once the flash card has been read.                                 *)
FlushedOrKept(m, e) ==
  \/ e.icache = m.icache /\ e.mem = m.mem
  \/ e.icache = FlushAll /\ (m.bus.preloaded => e.mem = m.mem)

(* What is known of the boot stays known.                                   *)
Steady(m, e) ==
  /\ e.bus.booted = m.bus.booted
  /\ m.bus.preloaded => e.bus.preloaded

(* The handler that the emulator installs is in memory.                     *)
HandlerIn(mm) == \A c \in HandlerCells : mm[c] = Handler[c - VectorPa + 1]

LEMMA PreloadKeeps ==
  ASSUME NEW D, NEW m \in MachineOn(D)
  PROVE  /\ Preload(m) \in MachineOn(D) /\ Preload(m).cpu = m.cpu
         /\ Preload(m).icache = FlushAll
         /\ Preload(m).bus = [m.bus EXCEPT !.preloaded = TRUE]
         /\ HandlerCells \subseteq D => HandlerIn(Preload(m).mem)
<1> DEFINE h == [c \in HandlerCells |-> Handler[c - VectorPa + 1]]
           new == [c \in DOMAIN m.mem |-> IF c \in DOMAIN Sections THEN Sections[c]
                                          ELSE IF c \in DOMAIN h THEN h[c] ELSE m.mem[c]]
<1>1. \A c \in DOMAIN h : h[c] \in Word
  BY ProgramAssumption DEF VectorPa, HandlerCells
<1>2. \A c \in DOMAIN Sections : Sections[c] \in Word
  BY ProgramAssumption
<1>3. DOMAIN m.mem = D /\ \A c \in D : m.mem[c] \in Word
  BY Parts
<1>10. ASSUME HandlerCells \subseteq D PROVE HandlerIn(new)
  BY <1>3, <1>10, HandlerAssumption DEF HandlerIn
<1> HIDE DEF h
<1>4. new \in [D -> Word]
  BY <1>1, <1>2, <1>3
<1>5. Preload(m) = [m EXCEPT !.mem = new, !.icache = FlushAll, !.bus.preloaded = TRUE]
  BY DEF Preload, h
<1> HIDE DEF new
<1>6. m.bus \in BusType /\ FlushAll \in [Indices -> LineType]
  BY Parts, InvalidIsLine
<1>7. PICK b : b = [m.bus EXCEPT !.preloaded = TRUE]
  OBVIOUS
<1>8. b \in BusType
  BY <1>6, <1>7 DEF BusType
<1>9. Preload(m) = [m EXCEPT !.mem = new, !.icache = FlushAll, !.bus = b]
  BY <1>5, <1>7
<1> QED BY <1>4, <1>6, <1>7, <1>8, <1>9, <1>10 DEF MachineOn

LEMMA ReadEffectKeeps ==
  ASSUME NEW D, NEW m \in MachineOn(D), NEW va
  PROVE  LET e == ReadEffect(m, va)
         IN  /\ e \in MachineOn(D) /\ e.cpu = m.cpu /\ FlushedOrKept(m, e)
             /\ e.bus.isolated = m.bus.isolated /\ e.bus.irq = m.bus.irq
             /\ e.bus.prev = m.bus.prev /\ e.bus.running = m.bus.running
             /\ Steady(m, e)
<1>1. PICK e : e = ReadEffect(m, va)
  OBVIOUS
<1>2. \/ e = m
      \/ e = Preload(m) /\ ~ m.bus.preloaded
  BY <1>1 DEF ReadEffect, ReadFlash
<1>3. /\ e \in MachineOn(D) /\ e.cpu = m.cpu /\ FlushedOrKept(m, e)
      /\ e.bus = m.bus \/ e.bus = [m.bus EXCEPT !.preloaded = TRUE]
  BY <1>2, PreloadKeeps DEF FlushedOrKept
<1>4. m.bus \in BusType
  BY Parts
<1> QED BY <1>1, <1>3, <1>4 DEF BusType, Steady
-----------------------------------------------------------------------------
(* Exceptions and interrupts touch neither memory nor the cache.            *)
Untouched(m, e) == e.icache = m.icache /\ e.mem = m.mem

SameBoot(m, e) == e.bus.booted = m.bus.booted /\ e.bus.preloaded = m.bus.preloaded

LEMMA EnableParts ==
  ASSUME NEW D, NEW m \in MachineOn(D)
  PROVE  /\ m.cpu.sr \in StatusType
         /\ m.cpu.sr.ie = <<m.cpu.sr.ie[1], m.cpu.sr.ie[2], m.cpu.sr.ie[3]>>
         /\ \A i \in 1 .. 3 : m.cpu.sr.ie[i] \in BOOLEAN
<1>1. m.cpu.sr \in StatusType
  BY Parts DEF CpuType
<1> QED BY <1>1 DEF StatusType, EnableType

LEMMA Enables == ASSUME NEW a \in BOOLEAN, NEW b \in BOOLEAN, NEW c \in BOOLEAN
                 PROVE  <<a, b, c>> \in EnableType
  BY DEF EnableType

LEMMA TakeExceptionKeeps ==
  ASSUME NEW D, NEW m \in MachineOn(D), NEW pc \in Int, NEW code \in Int
  PROVE  LET e == TakeException(m, pc, code)
         IN  /\ e \in MachineOn(D) /\ Untouched(m, e) /\ e.bus = m.bus
             /\ e.cpu.ip = m.cpu.ip
<1> DEFINE ie == m.cpu.sr.ie
           v  == IF m.cpu.sr.bev THEN RomVector ELSE Vector
           ec == IF m.cpu.slot THEN pc - 1 ELSE pc
<1>1. m.cpu \in CpuType
  BY Parts
<1>2. PICK sr : sr = [m.cpu.sr EXCEPT !.ie = <<FALSE, ie[1], ie[2]>>]
  OBVIOUS
<1>3. sr \in StatusType
  <2>1. ie[1] \in BOOLEAN /\ ie[2] \in BOOLEAN
    BY EnableParts
  <2>2. <<FALSE, ie[1], ie[2]>> \in EnableType
    BY <2>1, Enables
  <2> QED BY <1>2, <2>2, EnableParts DEF StatusType
<1>4. v \in Int /\ v + 1 \in Int /\ ec \in Int /\ NoBranch \in Int
  BY DEF RomVector, Vector, Kseg0, Kseg1, RomBase, VectorPa, NoBranch
<1>5. PICK c : c = [m.cpu EXCEPT !.epc = ec, !.sr = sr, !.code = code, !.pc = v,
                                 !.next = v + 1, !.br = NoBranch, !.slot = FALSE]
  OBVIOUS
<1>6. TakeException(m, pc, code) = [m EXCEPT !.cpu = c]
  <2> DEFINE d == [m.cpu EXCEPT !.epc = ec, !.sr.ie = <<FALSE, ie[1], ie[2]>>, !.code = code,
                                !.pc = v, !.next = v + 1, !.br = NoBranch, !.slot = FALSE]
  <2>1. TakeException(m, pc, code) = [m EXCEPT !.cpu = d]
    BY DEF TakeException
  <2>2. d = c
    BY <1>1, <1>2, <1>5 DEF CpuType
  <2> QED BY <2>1, <2>2
<1> HIDE DEF v, ec
<1>7. c \in CpuType /\ c.ip = m.cpu.ip
  <2> DEFINE nv == v + 1
  <2>1. nv \in Int
    BY <1>4
  <2> HIDE DEF nv
  <2>2. c = [m.cpu EXCEPT !.epc = ec, !.sr = sr, !.code = code, !.pc = v,
                          !.next = nv, !.br = NoBranch, !.slot = FALSE]
    BY <1>5 DEF nv
  <2> QED BY <1>1, <1>3, <1>4, <2>1, <2>2 DEF CpuType
<1> QED BY <1>6, <1>7 DEF MachineOn, Untouched

(* What check_interrupts leaves: the line's level is remembered, and a       *)
(* rising edge is in Cause from then on.                                    *)
LEMMA LatchKeeps ==
  ASSUME NEW D, NEW m \in MachineOn(D), NEW due \in BOOLEAN
  PROVE  LET l == Latch(m, due)
         IN  /\ l \in MachineOn(D) /\ Untouched(m, l)
             /\ l.bus.isolated = m.bus.isolated /\ l.bus.irq = m.bus.irq
             /\ l.bus.prev = m.bus.irq /\ SameBoot(m, l)
             /\ m.bus.running => l.bus.running
             /\ l.bus.running /\ m.bus.irq /\ ~ m.bus.prev => "IP2" \in l.cpu.ip
             /\ m.bus.irq \/ ~ m.bus.prev => m.cpu.ip \subseteq l.cpu.ip
<1> DEFINE running == m.bus.running \/ InGuest(m.cpu.pc)
           timed   == IF due THEN m.cpu.ip \cup {"IP5"} ELSE m.cpu.ip
           rises   == running /\ m.bus.irq /\ ~ m.bus.prev
           falls   == running /\ ~ m.bus.irq /\ m.bus.prev
           ip      == IF rises THEN timed \cup {"IP2"}
                      ELSE IF falls THEN timed \ {"IP2"} ELSE timed
<1>1. m.cpu \in CpuType /\ m.bus \in BusType
  BY Parts
<1>2. running \in BOOLEAN /\ rises \in BOOLEAN /\ falls \in BOOLEAN
  BY <1>1 DEF BusType, InGuest
<1>3. /\ ip \in SUBSET IPs
      /\ running /\ m.bus.irq /\ ~ m.bus.prev => "IP2" \in ip
      /\ m.bus.irq \/ ~ m.bus.prev => m.cpu.ip \subseteq ip
  BY <1>1 DEF CpuType, IPs
<1> HIDE DEF running, ip
<1>4. PICK c : c = [m.cpu EXCEPT !.ip = ip]
  OBVIOUS
<1>5. PICK b : b = [m.bus EXCEPT !.running = running, !.prev = m.bus.irq]
  OBVIOUS
<1>6. c \in CpuType /\ c.ip = ip
  BY <1>1, <1>3, <1>4 DEF CpuType
<1>7. /\ b \in BusType /\ b.isolated = m.bus.isolated /\ b.irq = m.bus.irq
      /\ b.prev = m.bus.irq /\ b.running = running
      /\ b.booted = m.bus.booted /\ b.preloaded = m.bus.preloaded
  BY <1>1, <1>2, <1>5 DEF BusType
<1>8. Latch(m, due) = [m EXCEPT !.cpu = c, !.bus = b]
  BY <1>4, <1>5 DEF Latch, running, ip
<1>9. /\ m.bus.running => running
  BY DEF running
<1>10. /\ Latch(m, due) \in MachineOn(D) /\ Untouched(m, Latch(m, due))
       /\ Latch(m, due).cpu = c /\ Latch(m, due).bus = b
  BY <1>6, <1>7, <1>8 DEF MachineOn, Untouched
<1> HIDE DEF rises, falls
<1> QED BY <1>3, <1>6, <1>7, <1>9, <1>10 DEF SameBoot

LEMMA CheckKeeps ==
  ASSUME NEW D, NEW m \in MachineOn(D), NEW due \in BOOLEAN
  PROVE  LET l == CheckInterrupts(m, due)
         IN  /\ l \in MachineOn(D) /\ Untouched(m, l)
             /\ l.bus.isolated = m.bus.isolated /\ l.bus.irq = m.bus.irq
             /\ l.bus.prev = m.bus.irq /\ SameBoot(m, l)
             /\ m.bus.running => l.bus.running
             /\ l.bus.running /\ m.bus.irq /\ ~ m.bus.prev => "IP2" \in l.cpu.ip
             /\ m.bus.irq \/ ~ m.bus.prev => m.cpu.ip \subseteq l.cpu.ip
<1>1. PICK l : l = Latch(m, due)
  OBVIOUS
<1>2. PICK t : t = TakeException(l, l.cpu.pc, 0)
  OBVIOUS
<1>3. l \in MachineOn(D) /\ l.cpu.pc \in Int
  <2>1. l \in MachineOn(D)
    BY <1>1, LatchKeeps
  <2> QED BY <2>1, Parts DEF CpuType
<1>4. t \in MachineOn(D) /\ Untouched(l, t) /\ t.bus = l.bus /\ t.cpu.ip = l.cpu.ip
  BY <1>2, <1>3, TakeExceptionKeeps
<1>5. CheckInterrupts(m, due) \in {l, t}
  BY <1>1, <1>2 DEF CheckInterrupts
<1> QED BY <1>1, <1>3, <1>4, <1>5, LatchKeeps DEF Untouched, SameBoot
-----------------------------------------------------------------------------
(* The cache shows what memory holds, except for the cells of b.            *)
Fresh(ic, mm, b) ==
  \A i \in Indices : \A w \in 0 .. LineWords - 1 :
    LET c == CachedCell(ic[i].tag, i, w)
    IN  \/ ic[i].tag = NoTag
        \/ c \notin DOMAIN mm \/ c \in Forced
        \/ c \in b
        \/ ic[i].words[w] = mm[c]

LEMMA FreshIsInvariant == FetchesAreFresh <=> Fresh(icache, mem, ghost.bypassed)
  BY DEF FetchesAreFresh, Fresh

LEMMA FlushedIsFresh == ASSUME NEW mm, NEW b PROVE Fresh(FlushAll, mm, b)
  BY DEF Fresh, FlushAll, Invalid

LEMMA FreshGrows ==
  ASSUME NEW ic, NEW mm, NEW b, NEW d, Fresh(ic, mm, b), b \subseteq d
  PROVE  Fresh(ic, mm, d)
  BY DEF Fresh

(* What a read returns is what memory holds, unless the bus answers itself. *)
LEMMA ReadsMemory ==
  ASSUME NEW D \in Extents, NEW m \in MachineOn(D), NEW va \in Int,
         Cell(Pa(va)) \in D, Cell(Pa(va)) \notin Forced
  PROVE  ReadValue(m, va) = m.mem[Cell(Pa(va))]
<1>2. PICK pa \in Int : pa = Pa(va)
  BY PaIsInt
<1>3. pa \notin Forced
  BY <1>2 DEF Cell, Forced, InDram, ShadowBase
<1>4. ReadRoute(pa) \in {"rom", "shadow", "flash", "dram"}
  <2>1. CASE InDram(pa)
    BY <2>1 DEF ReadRoute, InRom, InShadow, InFlash, InDram, ShadowBase, RomBase, FlashBase
  <2>2. CASE ~ InDram(pa)
    <3>1. Cell(pa) = pa
      BY <2>2 DEF Cell
    <3> QED BY <1>2, <3>1, ExtentCells
  <2> QED BY <2>1, <2>2
<1>5. m.mem \in [D -> Word]
  BY Parts
<1> QED BY <1>2, <1>3, <1>4, <1>5 DEF ReadValue, At

(* The line that a refill brings in. *)
NewLine(m, va) ==
  [tag   |-> Tag(Pa(va)),
   words |-> [w \in 0 .. LineWords - 1 |-> ReadValue(m, (va - (va % LineWords)) + w)]]

LEMMA RefillKeeps ==
  ASSUME NEW D \in Extents, NEW m \in MachineOn(D), NEW va \in Int
  PROVE  LET f == Refill(m, va)
         IN  /\ f \in MachineOn(D) /\ f.cpu = m.cpu /\ f.bus = m.bus /\ f.mem = m.mem
             /\ f.icache = [m.icache EXCEPT ![Index(Pa(va))] = NewLine(m, va)]
<1> DEFINE base == va - (va % LineWords)
<1>1. \A w \in 0 .. LineWords - 1 : base + w \in Int
  BY DEF LineWords
<1>2. \A w \in 0 .. LineWords - 1 : ReadValue(m, base + w) \in Word
  BY <1>1, ReadIsWord
<1>3. Tag(Pa(va)) \in Int
  BY PaIsInt DEF Tag, LineWords, Sets
<1>4. NewLine(m, va) \in LineType
  BY <1>2, <1>3 DEF NewLine, LineType
<1>5. PICK ic : ic = [m.icache EXCEPT ![Index(Pa(va))] = NewLine(m, va)]
  OBVIOUS
<1>6. ic \in [Indices -> LineType]
  BY <1>4, <1>5, Parts
<1>7. Refill(m, va) = [m EXCEPT !.icache = ic]
  BY <1>5 DEF Refill, NewLine
<1> QED BY <1>5, <1>6, <1>7 DEF MachineOn
(* A cell in the cache lies at the index of its line.                       *)
LEMMA CachedIndex ==
  ASSUME NEW t \in Int, NEW i \in Indices, NEW w \in 0 .. LineWords - 1
  PROVE  /\ CachedCell(t, i, w) \in Int
         /\ Index(CachedCell(t, i, w)) = i
<1> DEFINE pa == (t * Sets + i) * LineWords + w
<1>1. i \in 0 .. Sets - 1
  BY IndicesInSets
<1>2. pa \in Int /\ Index(pa) = i
  BY <1>1, AddressParts
<1> HIDE DEF pa
<1>3. Cell(pa) \in Int /\ Index(Cell(pa)) = i
  BY <1>2, CellKeepsIndex
<1> QED BY <1>3 DEF CachedCell, pa

(* A refill shows memory as it is, in the cells that were stored to as well. *)
LEMMA RefillFreshens ==
  ASSUME NEW D \in Extents, NEW m \in MachineOn(D), NEW va \in Int, NEW b,
         Fresh(m.icache, m.mem, b), Index(Pa(va)) \in Indices
  PROVE  LET f == Refill(m, va)
         IN  Fresh(f.icache, f.mem, b \ {c \in b : Line(c) = Line(Cell(Pa(va)))})
<1>1. PICK f : f = Refill(m, va)
  OBVIOUS
<1>2. PICK pa \in Int : pa = Pa(va)
  BY PaIsInt
<1>3. /\ f.mem = m.mem
      /\ f.icache = [m.icache EXCEPT ![Index(pa)] = NewLine(m, va)]
  BY <1>1, <1>2, RefillKeeps
<1>4. m.mem \in [D -> Word] /\ m.icache \in [Indices -> LineType]
  BY Parts
<1> SUFFICES ASSUME NEW i \in Indices, NEW w \in 0 .. LineWords - 1, NEW c,
                    c = CachedCell(f.icache[i].tag, i, w),
                    f.icache[i].tag # NoTag, c \in D, c \notin Forced
             PROVE  \/ c \in b /\ Line(c) # Line(Cell(pa))
                    \/ f.icache[i].words[w] = f.mem[c]
  BY <1>1, <1>2, <1>3, <1>4 DEF Fresh
<1>5. CASE i = Index(pa)
  <2> DEFINE at == (va - (va % LineWords)) + w
  <2>1. at \in Int /\ Pa(at) = (pa - (pa % LineWords)) + w
    <3>1. at \in Int
      BY DEF LineWords
    <3>2. Pa(at) = (pa - (pa % LineWords)) + w
      BY <1>2, PaWithinLine
    <3> QED BY <3>1, <3>2
  <2>2. f.icache[i] = NewLine(m, va)
    BY <1>3, <1>4, <1>5
  <2>3. f.icache[i].tag = Tag(pa) /\ f.icache[i].words[w] = ReadValue(m, at)
    BY <1>2, <2>2 DEF NewLine
  <2> HIDE DEF at
  <2>4. (Tag(pa) * Sets + i) * LineWords + w = Pa(at)
    BY <1>5, <2>1, LineAddress
  <2>5. c = Cell(Pa(at))
    BY <2>3, <2>4 DEF CachedCell
  <2> QED BY <1>3, <2>1, <2>3, <2>5, ReadsMemory
<1>6. CASE i # Index(pa)
  <2>1. f.icache[i] = m.icache[i] /\ m.icache[i] \in LineType
    BY <1>3, <1>4, <1>6
  <2>2. c \in b \/ f.icache[i].words[w] = f.mem[c]
    BY <1>3, <1>4, <2>1 DEF Fresh
  <2>3. Line(c) # Line(Cell(pa))
    <3>1. m.icache[i].tag \in Int
      BY <2>1 DEF LineType
    <3>2. Index(c) = i
      BY <2>1, <3>1, CachedIndex
    <3>3. Index(Cell(pa)) = Index(pa)
      BY CellKeepsIndex
    <3> QED BY <1>6, <3>2, <3>3 DEF Index
  <2> QED BY <2>2, <2>3
<1> QED BY <1>5, <1>6

(* The cells that are no longer stale once f is fetched from m.             *)
Refilled(m, f, va, b) ==
  IF f.icache = m.icache THEN {} ELSE {c \in b : Line(c) = Line(Cell(Pa(va)))}

(* What a fetch leaves of the bus is what a read leaves.                    *)
SameWires(m, e) ==
  /\ e.bus.isolated = m.bus.isolated /\ e.bus.irq = m.bus.irq
  /\ e.bus.prev = m.bus.prev /\ e.bus.running = m.bus.running
  /\ Steady(m, e)

LEMMA FetchKeeps ==
  ASSUME NEW D \in Extents, NEW m \in MachineOn(D), NEW va \in Int, NEW b,
         Fresh(m.icache, m.mem, b)
  PROVE  LET f == Fetched(m, va)
         IN  /\ f \in MachineOn(D) /\ f.cpu = m.cpu /\ SameWires(m, f)
             /\ m.bus.preloaded => f.mem = m.mem
             /\ Fresh(f.icache, f.mem, b \ Refilled(m, f, va, b))
<1>1. PICK f : f = Fetched(m, va)
  OBVIOUS
<1>2. PICK e : e = ReadEffect(m, va)
  OBVIOUS
<1>3. PICK r : r = Refill(e, va)
  OBVIOUS
<1>4. f = m \/ f = e \/ f = r
  BY <1>1, <1>2, <1>3 DEF Fetched
<1>5. e \in MachineOn(D) /\ e.cpu = m.cpu /\ SameWires(m, e) /\ FlushedOrKept(m, e)
  BY <1>2, ReadEffectKeeps DEF SameWires
<1>6. Fresh(e.icache, e.mem, b \ Refilled(m, e, va, b)) /\ Fresh(e.icache, e.mem, b)
  <2>1. CASE e.icache = m.icache /\ e.mem = m.mem
    BY <2>1 DEF Refilled
  <2>2. CASE e.icache = FlushAll
    BY <2>2, FlushedIsFresh
  <2> QED BY <1>5, <2>1, <2>2 DEF FlushedOrKept
<1>7. /\ r \in MachineOn(D) /\ r.cpu = e.cpu /\ r.bus = e.bus /\ r.mem = e.mem
      /\ r.icache = [e.icache EXCEPT ![Index(Pa(va))] = NewLine(e, va)]
  BY <1>3, <1>5, RefillKeeps
<1>8. Fresh(r.icache, r.mem, b \ Refilled(m, r, va, b))
  <2>1. CASE Index(Pa(va)) \in Indices
    <3>1. Fresh(r.icache, r.mem, b \ {c \in b : Line(c) = Line(Cell(Pa(va)))})
      BY <1>3, <1>5, <1>6, <2>1, RefillFreshens
    <3>2. b \ {c \in b : Line(c) = Line(Cell(Pa(va)))} \subseteq b \ Refilled(m, r, va, b)
      BY DEF Refilled
    <3> QED BY <3>1, <3>2, FreshGrows
  <2>2. CASE Index(Pa(va)) \notin Indices
    <3>1. r.icache = e.icache
      BY <1>5, <1>7, <2>2, Parts
    <3>2. Refilled(m, r, va, b) = Refilled(m, e, va, b)
      BY <3>1 DEF Refilled
    <3> QED BY <1>6, <1>7, <3>1, <3>2
  <2> QED BY <2>1, <2>2
<1>9. Fresh(m.icache, m.mem, b \ Refilled(m, m, va, b))
  BY DEF Refilled
<1>10. SameWires(m, m) /\ SameWires(m, r)
  BY <1>5, <1>7 DEF SameWires, Steady
<1>11. m.bus.preloaded => e.mem = m.mem /\ r.mem = m.mem
  BY <1>5, <1>7 DEF FlushedOrKept
<1> QED BY <1>1, <1>4, <1>5, <1>6, <1>7, <1>8, <1>9, <1>10, <1>11

LEMMA FetchIsWord ==
  ASSUME NEW D, NEW m \in MachineOn(D), NEW va \in Int
  PROVE  FetchWord(m, va) \in Word
<1>1. PICK pa \in Int : pa = Pa(va)
  BY PaIsInt
<1>2. pa % LineWords \in 0 .. LineWords - 1
  BY DEF LineWords
<1>3. Index(pa) \in Indices => m.icache[Index(pa)].words[pa % LineWords] \in Word
  <2> SUFFICES ASSUME NEW i \in Indices, i = Index(pa)
               PROVE  m.icache[i].words[pa % LineWords] \in Word
    OBVIOUS
  <2>1. m.icache[i] \in LineType
    BY Parts
  <2> QED BY <1>2, <2>1 DEF LineType
<1>4. Insn("jr", 0, "ra") \in Word /\ Nop \in Word
  BY DEF Insn, Nop, Word, Registers, UsesRegister, Plain
<1> QED BY <1>1, <1>3, <1>4, ReadIsWord DEF FetchWord
-----------------------------------------------------------------------------
(* Instructions. *)

(* An instruction keeps what the latch set of the line, and the causes.     *)
Quiet(m, x) ==
  /\ x.bus.prev = m.bus.prev /\ x.bus.running = m.bus.running /\ x.cpu.ip = m.cpu.ip
  /\ Steady(m, x)

LEMMA SetKeeps ==
  ASSUME NEW D, NEW m \in MachineOn(D), NEW reg, NEW w \in Word
  PROVE  Set(m, reg, w) \in MachineOn(D) /\ Untouched(m, Set(m, reg, w)) /\ Quiet(m, Set(m, reg, w))
<1>1. m.cpu \in CpuType
  BY Parts
<1>2. PICK r : r = [m.cpu.r EXCEPT ![reg] = w]
  OBVIOUS
<1>3. r \in [Registers -> Word]
  BY <1>1, <1>2 DEF CpuType
<1>4. PICK c : c = [m.cpu EXCEPT !.r = r]
  OBVIOUS
<1>5. c \in CpuType /\ c.ip = m.cpu.ip
  BY <1>1, <1>3, <1>4 DEF CpuType
<1>6. Set(m, reg, w) = m \/ Set(m, reg, w) = [m EXCEPT !.cpu = c]
  BY <1>2, <1>4 DEF Set
<1> QED BY <1>5, <1>6 DEF MachineOn, Untouched, Quiet, Steady

LEMMA BranchKeeps ==
  ASSUME NEW D, NEW m \in MachineOn(D), NEW target \in Int
  PROVE  /\ Branch(m, target) \in MachineOn(D)
         /\ Untouched(m, Branch(m, target)) /\ Quiet(m, Branch(m, target))
<1>1. m.cpu \in CpuType
  BY Parts
<1>2. PICK c : c = [m.cpu EXCEPT !.br = target]
  OBVIOUS
<1>3. c \in CpuType /\ c.ip = m.cpu.ip
  BY <1>1, <1>2 DEF CpuType
<1>4. Branch(m, target) = [m EXCEPT !.cpu = c]
  BY <1>2 DEF Branch
<1> QED BY <1>3, <1>4 DEF MachineOn, Untouched, Quiet, Steady

LEMMA HaltKeeps ==
  ASSUME NEW D, NEW m \in MachineOn(D)
  PROVE  Halt(m) \in MachineOn(D) /\ Untouched(m, Halt(m)) /\ Quiet(m, Halt(m))
<1>1. m.cpu \in CpuType
  BY Parts
<1>2. PICK c : c = [m.cpu EXCEPT !.halted = TRUE]
  OBVIOUS
<1>3. c \in CpuType /\ c.ip = m.cpu.ip
  BY <1>1, <1>2 DEF CpuType
<1>4. Halt(m) = [m EXCEPT !.cpu = c]
  BY <1>2 DEF Halt
<1> QED BY <1>3, <1>4 DEF MachineOn, Untouched, Quiet, Steady

LEMMA RegisterWord ==
  ASSUME NEW D, NEW m \in MachineOn(D), NEW w \in Word
  PROVE  /\ w.a \in Int
         /\ w.op \in UsesRegister => /\ m.cpu.r[w.v] \in Word
                                     /\ m.cpu.r[w.v].a \in Int
<1>1. w.a \in Int
  BY DEF Word
<1>2. ASSUME w.op \in UsesRegister PROVE w.v \in Registers
  BY <1>2 DEF Word, UsesRegister, Plain
<1>3. m.cpu.r \in [Registers -> Word]
  BY Parts DEF CpuType
<1>4. \A x \in Word : x.a \in Int
  BY DEF Word
<1> QED BY <1>1, <1>2, <1>3, <1>4

LEMMA SpecialKeeps ==
  ASSUME NEW D, NEW m \in MachineOn(D), NEW w \in Word, NEW pc \in Int,
         w.op \in {"nop", "jr", "syscall", "break"}
  PROVE  Special(m, w, pc) \in MachineOn(D) /\ Untouched(m, Special(m, w, pc))
         /\ Quiet(m, Special(m, w, pc))
<1>1. CASE w.op = "nop"
  BY <1>1 DEF Special, Untouched, Quiet, Steady
<1>2. CASE w.op = "break"
  BY <1>2, HaltKeeps DEF Special
<1>3. CASE w.op = "jr"
  <2>1. m.cpu.r[w.v].a \in Int
    BY <1>3, RegisterWord DEF UsesRegister
  <2> QED BY <1>3, <2>1, BranchKeeps DEF Special
<1>4. CASE w.op = "syscall"
  <2>1. PICK r : r = [m.cpu.r EXCEPT !["v0"] = Zero]
    OBVIOUS
  <2>2. PICK c : c = [m.cpu EXCEPT !.r = r, !.next = pc + 1, !.br = NoBranch]
    OBVIOUS
  <2>3. m.cpu \in CpuType /\ NoBranch \in Int /\ pc + 1 \in Int
    BY Parts DEF NoBranch
  <2>4. r \in [Registers -> Word]
    BY <2>1, <2>3, ZeroIsWord DEF CpuType
  <2>5. c \in CpuType /\ c.ip = m.cpu.ip
    <3> SUFFICES ASSUME NEW n \in Int, n = pc + 1, NEW b \in Int, b = NoBranch
                 PROVE  c \in CpuType /\ c.ip = m.cpu.ip
      BY <2>3
    <3>1. c = [m.cpu EXCEPT !.r = r, !.next = n, !.br = b]
      BY <2>2
    <3> QED BY <2>3, <2>4, <3>1 DEF CpuType
  <2>6. Special(m, w, pc) = TakeException(m, pc, 8) \/ Special(m, w, pc) = [m EXCEPT !.cpu = c]
    <3>1. Special(m, w, pc) = Syscall(m, pc)
      BY <1>4 DEF Special
    <3> QED BY <2>1, <2>2, <3>1 DEF Syscall
  <2>7. /\ TakeException(m, pc, 8) \in MachineOn(D) /\ Untouched(m, TakeException(m, pc, 8))
        /\ Quiet(m, TakeException(m, pc, 8))
    BY TakeExceptionKeeps DEF Quiet, Steady
  <2> QED BY <2>5, <2>6, <2>7 DEF MachineOn, Untouched, Quiet, Steady
<1> QED BY <1>1, <1>2, <1>3, <1>4

(* Coprocessor 0: mtc0 of Cause is the one that clears a cause.             *)
LEMMA StatusIsStatus == \A v : StatusOf(v) \in StatusType
<1> TAKE v
<1>1. (CASE v = "monitor" -> {"IP5"} [] v = "guest" -> IPs [] OTHER -> {}) \in SUBSET IPs
  BY DEF IPs
<1>2. <<v \in {"monitor", "guest"}, FALSE, FALSE>> \in EnableType
  <2>1. (v \in {"monitor", "guest"}) \in BOOLEAN /\ FALSE \in BOOLEAN
    OBVIOUS
  <2> HIDE DEF EnableType
  <2> QED BY <2>1, Enables, Zenon
<1> QED BY <1>1, <1>2 DEF StatusOf, StatusType

LEMMA Cop0Keeps ==
  ASSUME NEW D, NEW m \in MachineOn(D), NEW w \in Word,
         w.op \in {"mfc0epc", "pend", "mtc0sr", "mtc0isc", "ackcause", "isolate", "join", "rfe"}
  PROVE  LET x == Cop0(m, w)
         IN  /\ x \in MachineOn(D) /\ FlushedOrKept(m, x)
             /\ x.bus.prev = m.bus.prev /\ x.bus.running = m.bus.running
             /\ w.op # "ackcause" => x.cpu.ip = m.cpu.ip
             /\ Steady(m, x)
<1>1. m.cpu \in CpuType /\ m.bus \in BusType
  BY Parts
<1>2. CASE w.op = "mfc0epc"
  <2>1. m.cpu.epc \in Int
    BY <1>1 DEF CpuType
  <2> QED BY <1>2, <2>1, DataIsWord, SetKeeps DEF Cop0, Quiet, Untouched, FlushedOrKept
<1>3. CASE w.op = "pend"
  <2>1. PICK n \in Int : n = IF "IP2" \in m.cpu.ip \cap m.cpu.sr.im THEN 1 ELSE 0
    OBVIOUS
  <2>2. Cop0(m, w) = Set(m, w.v, Data(n))
    BY <1>3, <2>1 DEF Cop0
  <2> QED BY <2>2, DataIsWord, SetKeeps DEF Quiet, Untouched, FlushedOrKept
<1>4. CASE w.op = "mtc0sr"
  <2>1. PICK c : c = [m.cpu EXCEPT !.sr = StatusOf(w.v)]
    OBVIOUS
  <2>2. c \in CpuType /\ c.ip = m.cpu.ip
    BY <1>1, <2>1, StatusIsStatus DEF CpuType
  <2>3. Cop0(m, w) = [m EXCEPT !.cpu = c]
    BY <1>4, <2>1 DEF Cop0
  <2> QED BY <2>2, <2>3 DEF MachineOn, FlushedOrKept, Steady
<1>5. CASE w.op = "mtc0isc"
  <2>1. PICK c : c = [m.cpu EXCEPT !.sr = StatusOf(w.v)]
    OBVIOUS
  <2>2. c \in CpuType /\ c.ip = m.cpu.ip
    BY <1>1, <2>1, StatusIsStatus DEF CpuType
  <2>3. Cop0(m, w) = [m EXCEPT !.cpu = c, !.icache = FlushAll]
    BY <1>5, <2>1 DEF Cop0
  <2> QED BY <2>2, <2>3, InvalidIsLine DEF MachineOn, FlushedOrKept, Steady
<1>6. CASE w.op = "ackcause"
  <2>1. PICK c : c = [m.cpu EXCEPT !.ip = {}]
    OBVIOUS
  <2>2. c \in CpuType
    BY <1>1, <2>1 DEF CpuType
  <2>3. Cop0(m, w) = [m EXCEPT !.cpu = c]
    BY <1>6, <2>1 DEF Cop0
  <2> QED BY <1>6, <2>2, <2>3 DEF MachineOn, FlushedOrKept, Steady
<1>7. CASE w.op \in {"isolate", "join"}
  <2>1. PICK isolated \in BOOLEAN : isolated <=> w.op = "isolate"
    OBVIOUS
  <2>2. PICK b : b = [m.bus EXCEPT !.isolated = isolated]
    OBVIOUS
  <2>3. b \in BusType /\ b.prev = m.bus.prev /\ b.running = m.bus.running
        /\ b.booted = m.bus.booted /\ b.preloaded = m.bus.preloaded
    BY <1>1, <2>2 DEF BusType
  <2>4. Cop0(m, w) = [m EXCEPT !.bus = b]
    <3>1. CASE w.op = "isolate"
      BY <2>1, <2>2, <3>1 DEF Cop0
    <3>2. CASE w.op = "join"
      <4>1. isolated = FALSE
        BY <2>1, <3>2
      <4> QED BY <2>2, <3>2, <4>1 DEF Cop0
    <3> QED BY <1>7, <3>1, <3>2
  <2> QED BY <2>3, <2>4 DEF MachineOn, FlushedOrKept, Steady
<1>8. CASE w.op = "rfe"
  <2>1. PICK s : s = [m.cpu.sr EXCEPT !.ie = Rfe(m.cpu.sr.ie)]
    OBVIOUS
  <2>2. Rfe(m.cpu.sr.ie) \in EnableType
    BY EnableParts, Enables DEF Rfe
  <2>3. s \in StatusType
    BY <2>1, <2>2, EnableParts DEF StatusType
  <2>4. PICK c : c = [m.cpu EXCEPT !.sr = s]
    OBVIOUS
  <2>5. c \in CpuType /\ c.ip = m.cpu.ip
    BY <1>1, <2>3, <2>4 DEF CpuType
  <2>6. Cop0(m, w) = [m EXCEPT !.cpu = c]
    BY <1>8, <2>1, <2>4 DEF Cop0
  <2> QED BY <2>5, <2>6 DEF MachineOn, FlushedOrKept, Steady
<1> QED BY <1>2, <1>3, <1>4, <1>5, <1>6, <1>7, <1>8

(* Stores. *)
Stored(D, m, va, w, mm) ==
  \/ mm = m.mem
  \/ /\ ~ m.bus.isolated /\ Cell(Pa(va)) \in D
     /\ mm = [m.mem EXCEPT ![Cell(Pa(va))] = w]

LEMMA BusWriteKeeps ==
  ASSUME NEW D, NEW m \in MachineOn(D), NEW va, NEW w \in Word
  PROVE  /\ BusWrite(m, va, w) \in MachineOn(D) /\ Quiet(m, BusWrite(m, va, w))
         /\ BusWrite(m, va, w).icache = m.icache
         /\ Stored(D, m, va, w, BusWrite(m, va, w).mem)
<1>1. m.bus \in BusType /\ m.mem \in [D -> Word]
  BY Parts
<1>2. PICK x : x = BusWrite(m, va, w)
  OBVIOUS
<1>3. PICK b : b = [m.bus EXCEPT !.irq = FALSE]
  OBVIOUS
<1>4. PICK mm : mm = [m.mem EXCEPT ![Cell(Pa(va))] = w]
  OBVIOUS
<1>5. /\ b \in BusType /\ b.prev = m.bus.prev /\ b.running = m.bus.running
      /\ b.booted = m.bus.booted /\ b.preloaded = m.bus.preloaded
  BY <1>1, <1>3 DEF BusType
<1>6. mm \in [D -> Word]
  BY <1>1, <1>4
<1>7. \/ x = m
      \/ x = [m EXCEPT !.bus = b]
      \/ ~ m.bus.isolated /\ Cell(Pa(va)) \in D /\ x = [m EXCEPT !.mem = mm]
  BY <1>1, <1>2, <1>3, <1>4 DEF BusWrite
<1> QED BY <1>2, <1>4, <1>5, <1>6, <1>7 DEF MachineOn, Quiet, Steady, Stored

LEMMA StoreKeeps ==
  ASSUME NEW D, NEW m \in MachineOn(D), NEW va \in Int, NEW w \in Word
  PROVE  LET x == Store(m, va, w)
         IN  /\ x \in MachineOn(D) /\ Quiet(m, x)
             /\ x.icache = IF Uncached(va) THEN m.icache ELSE Invalidate(m.icache, Pa(va))
             /\ Stored(D, m, va, w, x.mem)
<1>1. PICK s : s = BusWrite(m, va, w)
  OBVIOUS
<1>2. /\ s \in MachineOn(D) /\ Quiet(m, s) /\ s.icache = m.icache
      /\ Stored(D, m, va, w, s.mem)
  BY <1>1, BusWriteKeeps
<1>3. PICK ic : ic = Invalidate(s.icache, Pa(va))
  OBVIOUS
<1>4. ic \in [Indices -> LineType]
  BY <1>2, <1>3, Parts, InvalidIsLine DEF Invalidate
<1>5. Store(m, va, w) = IF Uncached(va) THEN s ELSE [s EXCEPT !.icache = ic]
  BY <1>1, <1>3 DEF Store
<1> QED BY <1>1, <1>2, <1>3, <1>4, <1>5 DEF MachineOn, Quiet, Steady

(* The cell of a store that may be stale in the cache afterwards.           *)
Around(m, w) ==
  IF /\ w.op \in {"sw", "swl"} /\ ~ m.bus.isolated
     /\ Cell(Pa(w.a)) \in DOMAIN m.mem
     /\ w.op = "swl" \/ Uncached(w.a) \/ HeldByAlias(m.icache, Pa(w.a))
  THEN {Cell(Pa(w.a))} ELSE {}

(* A cached store either drops every word of the cache that shows its cell, *)
(* or the line shows it under another address.                              *)
LEMMA StoreDrops ==
  ASSUME NEW ic \in [Indices -> LineType], NEW pa \in Int,
         NEW i \in Indices, NEW w \in 0 .. LineWords - 1,
         CachedCell(Invalidate(ic, pa)[i].tag, i, w) = Cell(pa),
         Invalidate(ic, pa)[i].tag # NoTag
  PROVE  HeldByAlias(ic, pa)
<1>1. PICK t : t = Invalidate(ic, pa)[i].tag
  OBVIOUS
<1>2. ic[i] \in LineType /\ ic[i].tag \in Int
  BY DEF LineType
<1>3. t = ic[i].tag
  BY <1>1 DEF Invalidate, Invalid
<1>4. i = Index(pa)
  <2>1. Index(Cell(pa)) = i
    BY <1>1, <1>2, <1>3, CachedIndex
  <2> QED BY <2>1, CellKeepsIndex
<1>5. t # Tag(pa)
  BY <1>1, <1>3, <1>4 DEF Invalidate, Invalid
<1>6. w = pa % LineWords
  <2> DEFINE at == (t * Sets + i) * LineWords + w
  <2>1. at \in Int /\ at % LineWords = w
    BY <1>2, <1>3, IndicesInSets, AddressParts
  <2> HIDE DEF at
  <2>2. Cell(at) % LineWords = w
    BY <2>1, CellKeepsIndex
  <2>3. Cell(at) = Cell(pa)
    BY <1>1 DEF CachedCell, at
  <2> QED BY <2>2, <2>3, CellKeepsIndex
<1> QED BY <1>1, <1>3, <1>4, <1>5, <1>6 DEF HeldByAlias

(* A store, whichever it is, leaves stale only the cell it is known to.     *)
LEMMA StoredFresh ==
  ASSUME NEW D \in Extents, NEW m \in MachineOn(D), NEW x \in MachineOn(D), NEW w \in Word, NEW b,
         w.op \in {"sw", "swl"}, NEW new, Stored(D, m, w.a, new, x.mem),
         x.icache = IF w.op = "swl" \/ Uncached(w.a) THEN m.icache
                    ELSE Invalidate(m.icache, Pa(w.a)),
         Fresh(m.icache, m.mem, b)
  PROVE  Fresh(x.icache, x.mem, b \cup Around(m, w))
<1>1. PICK pa \in Int : pa = Pa(w.a)
  <2>1. w.a \in Int
    BY DEF Word
  <2> QED BY <2>1, PaIsInt
<1>2. m.mem \in [D -> Word] /\ x.mem \in [D -> Word] /\ m.icache \in [Indices -> LineType]
  BY Parts
<1> SUFFICES ASSUME NEW i \in Indices, NEW k \in 0 .. LineWords - 1, NEW c,
                    c = CachedCell(x.icache[i].tag, i, k),
                    x.icache[i].tag # NoTag, c \in D, c \notin Forced
             PROVE  \/ c \in b \/ c \in Around(m, w)
                    \/ x.icache[i].words[k] = x.mem[c]
  BY <1>2 DEF Fresh
<1>3. x.icache[i] = m.icache[i]
  BY <1>2 DEF Invalidate, Invalid
<1>4. c \in b \/ x.icache[i].words[k] = m.mem[c]
  BY <1>2, <1>3 DEF Fresh
<1>5. CASE x.mem[c] = m.mem[c]
  BY <1>4, <1>5
<1>6. CASE x.mem[c] # m.mem[c]
  <2>1. ~ m.bus.isolated /\ Cell(pa) \in D /\ c = Cell(pa)
    BY <1>1, <1>2, <1>6 DEF Stored
  <2>2. ASSUME w.op # "swl", ~ Uncached(w.a) PROVE HeldByAlias(m.icache, pa)
    <3>1. x.icache = Invalidate(m.icache, pa)
      BY <1>1, <2>2
    <3> QED BY <1>2, <2>1, <3>1, StoreDrops
  <2> QED BY <1>1, <1>2, <2>1, <2>2 DEF Around
<1> QED BY <1>5, <1>6

(* Once the card has been read, memory changes by stores alone.             *)
Wrote(D, m, w, x) ==
  m.bus.preloaded =>
    \A c \in D : \/ x.mem[c] = m.mem[c]
                 \/ w.op \in {"sw", "swl"} /\ ~ m.bus.isolated /\ c = Cell(Pa(w.a))

(* One instruction: types, what it does to the latched line, and to the     *)
(* cache and the memory.                                                    *)
Done(D, m, w, x) ==
  /\ x \in MachineOn(D)
  /\ x.bus.prev = m.bus.prev /\ x.bus.running = m.bus.running
  /\ w.op # "ackcause" => x.cpu.ip = m.cpu.ip
  /\ Steady(m, x) /\ Wrote(D, m, w, x)
  /\ \A b : Fresh(m.icache, m.mem, b) => Fresh(x.icache, x.mem, b \cup Around(m, w))

LEMMA UntouchedIsDone ==
  ASSUME NEW D, NEW m, NEW w, NEW x \in MachineOn(D), FlushedOrKept(m, x),
         x.bus.prev = m.bus.prev, x.bus.running = m.bus.running,
         w.op # "ackcause" => x.cpu.ip = m.cpu.ip, Steady(m, x)
  PROVE  Done(D, m, w, x)
<1> SUFFICES ASSUME NEW b, Fresh(m.icache, m.mem, b)
             PROVE  Fresh(x.icache, x.mem, b \cup Around(m, w))
  BY DEF Done, Wrote, FlushedOrKept
<1>1. CASE x.icache = m.icache /\ x.mem = m.mem
  <2>1. Fresh(x.icache, x.mem, b)
    BY <1>1
  <2> QED BY <2>1, FreshGrows
<1>2. CASE x.icache = FlushAll
  BY <1>2, FlushedIsFresh
<1> QED BY <1>1, <1>2 DEF FlushedOrKept

LEMMA StoreIsDone ==
  ASSUME NEW D \in Extents, NEW m \in MachineOn(D), NEW w \in Word, w.op = "sw", NEW new \in Word
  PROVE  Done(D, m, w, Store(m, w.a, new))
<1>1. PICK x : x = Store(m, w.a, new)
  OBVIOUS
<1>2. w.a \in Int
  BY DEF Word
<1>3. /\ x \in MachineOn(D) /\ Quiet(m, x)
      /\ x.icache = IF Uncached(w.a) THEN m.icache ELSE Invalidate(m.icache, Pa(w.a))
      /\ Stored(D, m, w.a, new, x.mem)
  BY <1>1, <1>2, StoreKeeps
<1>4. ASSUME NEW b, Fresh(m.icache, m.mem, b)
      PROVE  Fresh(x.icache, x.mem, b \cup Around(m, w))
  <2>1. x.icache = IF w.op = "swl" \/ Uncached(w.a) THEN m.icache
                   ELSE Invalidate(m.icache, Pa(w.a))
    BY <1>3
  <2> QED BY <1>3, <1>4, <2>1, StoredFresh
<1>5. Wrote(D, m, w, x)
  BY <1>3, Parts DEF Stored, Wrote
<1> QED BY <1>1, <1>3, <1>4, <1>5 DEF Done, Quiet

LEMMA PartStoreIsDone ==
  ASSUME NEW D \in Extents, NEW m \in MachineOn(D), NEW w \in Word, w.op = "swl", NEW new \in Word
  PROVE  Done(D, m, w, PartStore(m, w.a, new))
<1>1. PICK x : x = PartStore(m, w.a, new)
  OBVIOUS
<1>2. /\ x \in MachineOn(D) /\ Quiet(m, x) /\ x.icache = m.icache
      /\ Stored(D, m, w.a, new, x.mem)
  BY <1>1, BusWriteKeeps DEF PartStore
<1>3. ASSUME NEW b, Fresh(m.icache, m.mem, b)
      PROVE  Fresh(x.icache, x.mem, b \cup Around(m, w))
  <2>1. x.icache = IF w.op = "swl" \/ Uncached(w.a) THEN m.icache
                   ELSE Invalidate(m.icache, Pa(w.a))
    BY <1>2
  <2> QED BY <1>2, <1>3, <2>1, StoredFresh
<1>4. Wrote(D, m, w, x)
  BY <1>2, Parts DEF Stored, Wrote
<1> QED BY <1>1, <1>2, <1>3, <1>4 DEF Done, Quiet

LEMMA LoadIsDone ==
  ASSUME NEW D, NEW m \in MachineOn(D), NEW w \in Word, w.op = "lw", NEW reg
  PROVE  Done(D, m, w, Load(m, w.a, reg))
<1>1. PICK e : e = ReadEffect(m, w.a)
  OBVIOUS
<1>2. w.a \in Int
  BY DEF Word
<1>3. /\ e \in MachineOn(D) /\ e.cpu = m.cpu /\ FlushedOrKept(m, e)
      /\ e.bus.prev = m.bus.prev /\ e.bus.running = m.bus.running
      /\ Steady(m, e)
  BY <1>1, ReadEffectKeeps
<1>4. PICK x : x = Set(e, reg, ReadValue(e, w.a))
  OBVIOUS
<1>5. x \in MachineOn(D) /\ Untouched(e, x) /\ Quiet(e, x)
  BY <1>2, <1>3, <1>4, ReadIsWord, SetKeeps
<1>6. Load(m, w.a, reg) = x
  BY <1>1, <1>4 DEF Load
<1>7. FlushedOrKept(m, x) /\ x.bus.prev = m.bus.prev /\ x.bus.running = m.bus.running
      /\ x.cpu.ip = m.cpu.ip /\ Steady(m, x)
  BY <1>3, <1>5 DEF FlushedOrKept, Untouched, Quiet, Steady
<1> QED BY <1>5, <1>6, <1>7, UntouchedIsDone

LEMMA ExecuteIsDone ==
  ASSUME NEW D \in Extents, NEW m \in MachineOn(D), NEW w \in Word, NEW pc \in Int,
         NEW taken \in BOOLEAN
  PROVE  Done(D, m, w, Execute(m, w, pc, taken))
<1>1. PICK x : x = Execute(m, w, pc, taken)
  OBVIOUS
<1>2. /\ w.a \in Int
      /\ w.op \in UsesRegister => m.cpu.r[w.v] \in Word /\ m.cpu.r[w.v].a \in Int
  BY RegisterWord
<1>3. ASSUME x \in MachineOn(D), Untouched(m, x), Quiet(m, x)
      PROVE  Done(D, m, w, x)
  BY <1>3, UntouchedIsDone DEF Untouched, FlushedOrKept, Quiet
<1>4. CASE w.op \in {"nop", "jr", "syscall", "break"}
  <2>1. x = Special(m, w, pc)
    BY <1>1, <1>4 DEF Execute
  <2> QED BY <1>1, <1>3, <1>4, <2>1, SpecialKeeps
<1>5. CASE w.op \in {"data", "b?", "bnez", "j"}
  <2>1. x \in {m, Halt(m), Branch(m, w.a)}
    BY <1>1, <1>5 DEF Execute
  <2>2. Untouched(m, m) /\ Quiet(m, m)
    BY DEF Untouched, Quiet, Steady
  <2> QED BY <1>1, <1>2, <1>3, <2>1, <2>2, HaltKeeps, BranchKeeps
<1>6. CASE w.op \in {"addiu", "inc"}
  <2>1. m.cpu.r[w.v].a \in Int
    BY <1>2, <1>6 DEF UsesRegister
  <2>2. m.cpu.r[w.v].a + w.a \in Int /\ (m.cpu.r[w.v].a + 1) % TickMod \in Int
    BY <1>2, <2>1, EntryAssumption
  <2>3. x \in {Set(m, w.v, Data(m.cpu.r[w.v].a + w.a)),
               Set(m, w.v, Data((m.cpu.r[w.v].a + 1) % TickMod))}
    BY <1>1, <1>6 DEF Execute
  <2> QED BY <1>1, <1>3, <2>2, <2>3, DataIsWord, SetKeeps
<1>7. CASE w.op = "lw"
  <2>1. x = Load(m, w.a, w.v)
    BY <1>1, <1>7 DEF Execute
  <2> QED BY <1>1, <1>7, <2>1, LoadIsDone
<1>8. CASE w.op = "sw"
  <2>1. x = Store(m, w.a, m.cpu.r[w.v]) /\ m.cpu.r[w.v] \in Word
    BY <1>1, <1>2, <1>8 DEF Execute, UsesRegister
  <2> QED BY <1>1, <1>8, <2>1, StoreIsDone
<1>9. CASE w.op = "swl"
  <2>1. x = PartStore(m, w.a, m.cpu.r[w.v]) /\ m.cpu.r[w.v] \in Word
    BY <1>1, <1>2, <1>9 DEF Execute, UsesRegister
  <2> QED BY <1>1, <1>9, <2>1, PartStoreIsDone
<1>10. CASE w.op \in {"mfc0epc", "pend", "mtc0sr", "mtc0isc", "ackcause", "isolate", "join", "rfe"}
  <2>1. x = Cop0(m, w)
    BY <1>1, <1>10 DEF Execute
  <2>2. /\ x \in MachineOn(D) /\ FlushedOrKept(m, x)
        /\ x.bus.prev = m.bus.prev /\ x.bus.running = m.bus.running
        /\ w.op # "ackcause" => x.cpu.ip = m.cpu.ip
        /\ Steady(m, x)
    BY <1>10, <2>1, Cop0Keeps
  <2> QED BY <1>1, <2>2, UntouchedIsDone
<1>11. w.op \in UsesRegister \cup Plain
  BY DEF Word
<1> QED BY <1>4, <1>5, <1>6, <1>7, <1>8, <1>9, <1>10, <1>11 DEF UsesRegister, Plain

LEMMA AdvanceKeeps ==
  ASSUME NEW D, NEW m \in MachineOn(D)
  PROVE  /\ Advance(m) \in MachineOn(D) /\ Untouched(m, Advance(m)) /\ Quiet(m, Advance(m))
<1>1. m.cpu \in CpuType
  BY Parts
<1>2. PICK n \in Int : n = IF m.cpu.br = NoBranch THEN m.cpu.next + 1 ELSE m.cpu.br
  BY <1>1 DEF CpuType
<1>3. PICK c : c = [m.cpu EXCEPT !.pc = m.cpu.next, !.next = n, !.br = NoBranch]
  OBVIOUS
<1>4. c \in CpuType /\ c.ip = m.cpu.ip
  <2>1. NoBranch \in Int
    BY DEF NoBranch
  <2> QED BY <1>1, <1>3, <2>1 DEF CpuType
<1>5. Advance(m) = [m EXCEPT !.cpu = c]
  BY <1>2, <1>3 DEF Advance
<1> QED BY <1>4, <1>5 DEF MachineOn, Untouched, Quiet, Steady
-----------------------------------------------------------------------------
(* The invariants. *)
TypeInv == \E D \in Extents : Machine \in MachineOn(D)

(* An edge that is owed stays in Cause while the line is up.                *)
EdgeInCause ==
  /\ ghost = [ctx |-> ghost.ctx, bypassed |-> ghost.bypassed, edge |-> ghost.edge,
              seen |-> ghost.seen]
  /\ ghost.edge = "owed" => bus.running
  /\ ghost.edge = "owed" /\ bus.prev => "IP2" \in cpu.ip

Inv == TypeInv /\ FetchesAreFresh /\ EdgeInCause

(* The handler is in memory once the guest has been booted, and none of its *)
(* cells is stale in the cache.                                             *)
HandlerKept ==
  bus.booted => /\ bus.preloaded
                /\ HandlerIn(mem)
                /\ HandlerCells \cap ghost.bypassed = {}

(* The word that the next step executes, with the timer due or not.         *)
Upcoming(due) ==
  LET l == CheckInterrupts(Machine, due)
      f == Fetched([l EXCEPT !.bus.last = l.cpu.pc], l.cpu.pc)
  IN  FetchWord(f, l.cpu.pc)

(* The booted guest stores to no cell of the handler, unless the store goes *)
(* to the isolated cache.                                                   *)
LeavesHandlerAlone ==
  bus.booted /\ ~ bus.isolated =>
    \A due \in BOOLEAN :
      LET w == Upcoming(due)
      IN  (due => bus.preloaded /\ bus.timed) /\ w.op \in {"sw", "swl"} =>
            Cell(Pa(w.a)) \notin HandlerCells

LEMMA MachineParts ==
  /\ Machine.cpu = cpu /\ Machine.icache = icache /\ Machine.mem = mem /\ Machine.bus = bus
  /\ Machine'.cpu = cpu' /\ Machine'.icache = icache' /\ Machine'.mem = mem' /\ Machine'.bus = bus'
  BY DEF Machine

LEMMA BecomesMachine ==
  ASSUME NEW D, NEW m \in MachineOn(D), Becomes(m)
  PROVE  Machine' = m
  BY Parts DEF Becomes, Machine

LEMMA InitInv == Init => Inv /\ HandlerKept
<1> SUFFICES ASSUME Init PROVE Inv /\ HandlerKept
  OBVIOUS
<1>1. PICK img \in Images : mem = img
  BY DEF Init
<1>2. PICK D \in Extents : D = DOMAIN img
  BY DEF Extents
<1>3. mem \in [D -> Word]
  BY <1>1, <1>2, ProgramAssumption
<1>4. icache = FlushAll /\ FlushAll \in [Indices -> LineType]
  BY InvalidIsLine DEF Init
<1>5. cpu \in CpuType
  <2>1. PICK s : s = [bev |-> TRUE, im |-> {}, ie |-> <<FALSE, FALSE, FALSE>>]
    OBVIOUS
  <2>2. <<FALSE, FALSE, FALSE>> \in EnableType
    BY Enables
  <2>3. s \in StatusType
    BY <2>1, <2>2 DEF StatusType
  <2>4. PICK r : r = [reg \in Registers |-> Zero]
    OBVIOUS
  <2>5. r \in [Registers -> Word]
    BY <2>4, ZeroIsWord
  <2>6. cpu = [pc |-> Kseg1 + RomBase, next |-> Kseg1 + RomBase + 1, br |-> NoBranch,
               slot |-> FALSE, halted |-> FALSE, r |-> r, sr |-> s, ip |-> {}, code |-> 0,
               epc |-> 0]
    BY <2>1, <2>4 DEF Init, ResetCpu
  <2>7. NoBranch \in Int /\ Kseg1 + RomBase \in Int /\ Kseg1 + RomBase + 1 \in Int
    BY DEF NoBranch, Kseg1, RomBase
  <2> QED BY <2>3, <2>5, <2>6, <2>7 DEF CpuType
<1>6. bus \in BusType /\ bus.prev = FALSE
  BY EntryAssumption DEF Init, InitialBus, BusType
<1>7. Machine \in MachineOn(D)
  BY <1>3, <1>4, <1>5, <1>6 DEF Machine, MachineOn
<1>8. FetchesAreFresh
  BY <1>4, FlushedIsFresh, FreshIsInvariant
<1>10. HandlerKept
  BY DEF Init, InitialBus, HandlerKept
<1>9. EdgeInCause
  BY DEF Init, EdgeInCause
<1> QED BY <1>2, <1>7, <1>8, <1>9, <1>10 DEF Inv, TypeInv

(* An instruction; what it leaves of the handler needs the word to be no    *)
(* store over it.                                                           *)
LEMMA RunKeeps ==
  ASSUME Inv, NEW due \in BOOLEAN, NEW taken \in BOOLEAN, Run(due, taken)
  PROVE  Inv' /\ (HandlerKept /\ LeavesHandlerAlone => HandlerKept')
<1>1. PICK D \in Extents : Machine \in MachineOn(D)
  BY DEF Inv, TypeInv
<1>2. PICK l : l = CheckInterrupts(Machine, due)
  OBVIOUS
<1>3. PICK va : va = l.cpu.pc
  OBVIOUS
<1>4. PICK g : g = [l EXCEPT !.bus.last = va]
  OBVIOUS
<1>5. PICK f : f = Fetched(g, va)
  OBVIOUS
<1>6. PICK w : w = FetchWord(f, va)
  OBVIOUS
<1>7. PICK x : x = Execute(f, w, va, taken)
  OBVIOUS
<1>8. PICK y : y = Advance(x)
  OBVIOUS
<1>9. PICK c : /\ Becomes([y EXCEPT !.bus.timed  = IF due THEN FALSE ELSE @ \/ ~ c.on,
                                    !.bus.polled = @ \/ ~ c.on])
               /\ ghost' = [ctx |-> c, bypassed |-> BypassedAfter(l, f, w),
                            edge |-> EdgeAfter(l, w),
                            seen |-> IF w.op = "pend" THEN y.cpu.r[w.v] = Data(1)
                                     ELSE c.on /\ ghost.seen]
  <2>1. PICK c : Retires(due, l, f, w, y, c)
    BY <1>2, <1>3, <1>4, <1>5, <1>6, <1>7, <1>8 DEF Run
  <2> QED BY <2>1 DEF Retires
<1>10. /\ l \in MachineOn(D) /\ Untouched(Machine, l) /\ l.bus.isolated = bus.isolated
       /\ l.bus.prev = bus.irq /\ SameBoot(Machine, l)
       /\ bus.running => l.bus.running
       /\ l.bus.running /\ bus.irq /\ ~ bus.prev => "IP2" \in l.cpu.ip
       /\ bus.irq \/ ~ bus.prev => cpu.ip \subseteq l.cpu.ip
  <2>1. PICK s \in MachineOn(D) : s = Machine
    BY <1>1
  <2>2. /\ l \in MachineOn(D) /\ Untouched(s, l) /\ l.bus.isolated = s.bus.isolated
        /\ l.bus.prev = s.bus.irq /\ SameBoot(s, l)
        /\ s.bus.running => l.bus.running
        /\ l.bus.running /\ s.bus.irq /\ ~ s.bus.prev => "IP2" \in l.cpu.ip
        /\ s.bus.irq \/ ~ s.bus.prev => s.cpu.ip \subseteq l.cpu.ip
    BY <1>2, <2>1, CheckKeeps
  <2> QED BY <2>1, <2>2, MachineParts
<1>11. va \in Int
  BY <1>3, <1>10, Parts DEF CpuType
<1>12. /\ g \in MachineOn(D) /\ g.cpu = l.cpu /\ g.icache = l.icache /\ g.mem = l.mem
       /\ g.bus.isolated = l.bus.isolated /\ g.bus.prev = l.bus.prev
       /\ g.bus.running = l.bus.running /\ SameBoot(l, g)
  <2>1. l.bus \in BusType
    BY <1>10, Parts
  <2>2. PICK b : b = [l.bus EXCEPT !.last = va]
    OBVIOUS
  <2>3. b \in BusType /\ b.isolated = l.bus.isolated /\ b.prev = l.bus.prev
        /\ b.running = l.bus.running
        /\ b.booted = l.bus.booted /\ b.preloaded = l.bus.preloaded
    BY <1>11, <2>1, <2>2 DEF BusType
  <2>4. g = [l EXCEPT !.bus = b]
    BY <1>4, <2>2
  <2> QED BY <1>10, <2>3, <2>4 DEF MachineOn, SameBoot
<1>13. Fresh(g.icache, g.mem, ghost.bypassed)
  BY <1>10, <1>12, FreshIsInvariant, MachineParts DEF Inv, Untouched
<1>14. /\ f \in MachineOn(D) /\ f.cpu = g.cpu /\ SameWires(g, f)
       /\ g.bus.preloaded => f.mem = g.mem
       /\ Fresh(f.icache, f.mem, ghost.bypassed \ Refilled(g, f, va, ghost.bypassed))
  BY <1>5, <1>11, <1>12, <1>13, FetchKeeps
<1>15. w \in Word
  BY <1>6, <1>11, <1>14, FetchIsWord
<1>16. Done(D, f, w, x)
  BY <1>7, <1>11, <1>14, <1>15, ExecuteIsDone
<1>17. y \in MachineOn(D) /\ Untouched(x, y) /\ Quiet(x, y)
  BY <1>8, <1>16, AdvanceKeeps DEF Done
<1>18. /\ Machine' \in MachineOn(D) /\ cpu' = y.cpu /\ icache' = y.icache /\ mem' = y.mem
       /\ bus'.prev = y.bus.prev /\ bus'.running = y.bus.running
       /\ bus'.booted = y.bus.booted /\ bus'.preloaded = y.bus.preloaded
  <2>1. y.bus \in BusType
    BY <1>17, Parts
  <2>2. PICK t, p : /\ t = IF due THEN FALSE ELSE y.bus.timed \/ ~ c.on
                    /\ p = (y.bus.polled \/ ~ c.on)
    OBVIOUS
  <2>3. t \in BOOLEAN /\ p \in BOOLEAN
    BY <2>1, <2>2 DEF BusType
  <2>4. PICK b : b = [y.bus EXCEPT !.timed = t, !.polled = p]
    OBVIOUS
  <2>5. /\ b \in BusType /\ b.prev = y.bus.prev /\ b.running = y.bus.running
        /\ b.booted = y.bus.booted /\ b.preloaded = y.bus.preloaded
    BY <2>1, <2>3, <2>4 DEF BusType
  <2>6. PICK z : z = [y EXCEPT !.bus = b]
    OBVIOUS
  <2>7. Becomes(z)
    BY <1>9, <2>2, <2>4, <2>6
  <2>8. z \in MachineOn(D) /\ z.cpu = y.cpu /\ z.icache = y.icache /\ z.mem = y.mem /\ z.bus = b
    BY <1>17, <2>5, <2>6 DEF MachineOn
  <2> QED BY <2>5, <2>7, <2>8, BecomesMachine DEF Becomes
<1>21. BypassedAfter(l, f, w)
         = (ghost.bypassed \ Refilled(g, f, va, ghost.bypassed)) \cup Around(f, w)
  <2>1. DOMAIN l.mem = D /\ DOMAIN f.mem = D
    BY <1>10, <1>14, Parts
  <2>2. f.bus.isolated = l.bus.isolated
    BY <1>12, <1>14 DEF SameWires
  <2> QED BY <1>3, <1>12, <2>1, <2>2 DEF BypassedAfter, Around, Refilled
<1>19. FetchesAreFresh'
  <2>2. Fresh(x.icache, x.mem, (ghost.bypassed \ Refilled(g, f, va, ghost.bypassed))
                                  \cup Around(f, w))
    BY <1>14, <1>16 DEF Done
  <2>3. ghost'.bypassed = BypassedAfter(l, f, w)
    BY <1>9
  <2>4. icache' = x.icache /\ mem' = x.mem
    BY <1>17, <1>18 DEF Untouched
  <2>5. Fresh(icache', mem', ghost'.bypassed)
    BY <1>21, <2>2, <2>3, <2>4
  <2> QED BY <2>5 DEF FetchesAreFresh, Fresh
<1>20. EdgeInCause'
  <2>1. ghost'.edge = EdgeAfter(l, w)
    BY <1>9
  <2>2. bus'.prev = bus.irq /\ bus'.running = l.bus.running
    BY <1>10, <1>12, <1>14, <1>16, <1>17, <1>18 DEF SameWires, Done, Quiet
  <2>3. w.op # "ackcause" => cpu'.ip = l.cpu.ip
    BY <1>12, <1>14, <1>16, <1>17, <1>18 DEF Done, Quiet
  <2>4. ASSUME ghost'.edge = "owed"
        PROVE  /\ w.op # "ackcause"
               /\ \/ l.bus.running /\ bus.irq /\ ~ bus.prev
                  \/ ghost.edge = "owed" /\ ~ (l.bus.running /\ ~ bus.irq /\ bus.prev)
    BY <2>1, <2>4 DEF EdgeAfter
  <2>5. ASSUME ghost'.edge = "owed" PROVE bus'.running
    BY <1>10, <2>2, <2>4, <2>5 DEF Inv, EdgeInCause
  <2>6. ASSUME ghost'.edge = "owed", bus'.prev PROVE "IP2" \in cpu'.ip
    BY <1>10, <2>2, <2>3, <2>4, <2>6 DEF Inv, EdgeInCause
  <2>7. ghost' = [ctx |-> ghost'.ctx, bypassed |-> ghost'.bypassed, edge |-> ghost'.edge,
                  seen |-> ghost'.seen]
    BY <1>9
  <2> QED BY <2>5, <2>6, <2>7 DEF EdgeInCause
<1>22. ASSUME HandlerKept, LeavesHandlerAlone PROVE HandlerKept'
  <2> SUFFICES ASSUME bus'.booted
               PROVE  /\ bus'.preloaded /\ HandlerIn(mem)'
                      /\ HandlerCells \cap ghost'.bypassed = {}
    BY DEF HandlerKept
  <2>1. /\ bus'.booted = bus.booted
        /\ bus.preloaded => g.bus.preloaded /\ f.bus.preloaded /\ bus'.preloaded
    BY <1>10, <1>12, <1>14, <1>16, <1>17, <1>18, MachineParts
       DEF SameWires, SameBoot, Steady, Done, Quiet
  <2>2. bus.preloaded /\ HandlerIn(mem) /\ HandlerCells \cap ghost.bypassed = {}
    BY <1>22, <2>1 DEF HandlerKept
  <2>3. w.op \in {"sw", "swl"} /\ ~ f.bus.isolated => Cell(Pa(w.a)) \notin HandlerCells
    <3>1. w = Upcoming(due)
      BY <1>2, <1>3, <1>4, <1>5, <1>6 DEF Upcoming
    <3>2. f.bus.isolated = bus.isolated
      BY <1>10, <1>12, <1>14 DEF SameWires
    <3>3. due => bus.preloaded /\ bus.timed
      BY DEF Run
    <3> QED BY <1>22, <2>1, <3>1, <3>2, <3>3 DEF LeavesHandlerAlone
  <2>4. HandlerIn(mem)'
    <3>1. f.mem = mem
      BY <1>10, <1>12, <1>14, <2>1, <2>2, MachineParts DEF Untouched
    <3>2. HandlerCells \subseteq D
      BY HandlerAssumption DEF Extents
    <3>3. \A at \in HandlerCells : x.mem[at] = mem[at]
      BY <1>16, <2>1, <2>2, <2>3, <3>1, <3>2 DEF Done, Wrote
    <3>4. mem' = x.mem
      BY <1>17, <1>18 DEF Untouched
    <3> QED BY <2>2, <3>3, <3>4 DEF HandlerIn
  <2>5. HandlerCells \cap ghost'.bypassed = {}
    <3>1. HandlerCells \cap Around(f, w) = {}
      BY <2>3 DEF Around
    <3>2. ghost'.bypassed = BypassedAfter(l, f, w)
      BY <1>9
    <3> QED BY <1>21, <2>2, <3>1, <3>2
  <2> QED BY <2>1, <2>2, <2>4, <2>5
<1> QED BY <1>18, <1>19, <1>20, <1>22 DEF Inv, TypeInv

LEMMA RedirectKeeps == Inv /\ Redirect => Inv' /\ HandlerKept'
<1> SUFFICES ASSUME Inv, Redirect PROVE Inv' /\ HandlerKept'
  OBVIOUS
<1>1. PICK D \in Extents : Machine \in MachineOn(D)
  BY DEF Inv, TypeInv
<1>2. PICK s \in MachineOn(D) : s = Machine
  BY <1>1
<1>3. PICK l : l = CheckInterrupts(s, FALSE)
  OBVIOUS
<1>4. /\ l \in MachineOn(D)
      /\ l.bus.prev = s.bus.irq
      /\ s.bus.running => l.bus.running
      /\ l.bus.running /\ s.bus.irq /\ ~ s.bus.prev => "IP2" \in l.cpu.ip
      /\ s.bus.irq \/ ~ s.bus.prev => s.cpu.ip \subseteq l.cpu.ip
  BY <1>3, CheckKeeps
<1>5. PICK g : g = [l EXCEPT !.bus.preloaded = FALSE]
  OBVIOUS
<1>6. /\ g \in MachineOn(D) /\ g.cpu = l.cpu
      /\ g.bus.prev = l.bus.prev /\ g.bus.running = l.bus.running
      /\ g.bus.preloaded = FALSE
  <2>1. PICK b : b = [l.bus EXCEPT !.preloaded = FALSE]
    OBVIOUS
  <2>2. l.bus \in BusType
    BY <1>4, Parts
  <2>3. /\ b \in BusType /\ b.prev = l.bus.prev /\ b.running = l.bus.running
        /\ b.preloaded = FALSE
    BY <2>1, <2>2 DEF BusType
  <2>4. g = [l EXCEPT !.bus = b]
    BY <1>5, <2>1
  <2> QED BY <1>4, <2>3, <2>4 DEF MachineOn
<1>7. PICK p : p = Preload(g)
  OBVIOUS
<1>8. /\ p \in MachineOn(D) /\ p.cpu = g.cpu /\ p.icache = FlushAll
      /\ p.bus = [g.bus EXCEPT !.preloaded = TRUE]
      /\ HandlerIn(p.mem)
  <2>1. HandlerCells \subseteq D
    BY HandlerAssumption DEF Extents
  <2> QED BY <1>6, <1>7, <2>1, PreloadKeeps
<1>9. p.bus.prev = s.bus.irq /\ p.bus.running = l.bus.running /\ p.bus.preloaded
  <2>1. g.bus \in BusType
    BY <1>6, Parts
  <2> QED BY <1>4, <1>6, <1>8, <2>1 DEF BusType
<1>10. PICK z : z = [p EXCEPT !.bus.booted = TRUE, !.cpu.pc = FlashEntry,
                              !.cpu.next = FlashEntry + 1]
  OBVIOUS
<1>11. Redirected = z
  BY <1>2, <1>3, <1>5, <1>6, <1>7, <1>10 DEF Redirected, ReadFlash
<1>12. /\ z \in MachineOn(D) /\ z.icache = FlushAll /\ z.cpu.ip = p.cpu.ip
       /\ z.bus.prev = p.bus.prev /\ z.bus.running = p.bus.running
       /\ z.bus.preloaded = p.bus.preloaded /\ z.mem = p.mem
  <2>1. PICK b : b = [p.bus EXCEPT !.booted = TRUE]
    OBVIOUS
  <2>2. PICK n \in Int : n = FlashEntry + 1
    BY EntryAssumption
  <2>3. PICK c : c = [p.cpu EXCEPT !.pc = FlashEntry, !.next = n]
    OBVIOUS
  <2>4. p.bus \in BusType /\ p.cpu \in CpuType
    BY <1>8, Parts
  <2>5. /\ b \in BusType /\ b.prev = p.bus.prev /\ b.running = p.bus.running
        /\ b.preloaded = p.bus.preloaded
    BY <2>1, <2>4 DEF BusType
  <2>6. c \in CpuType /\ c.ip = p.cpu.ip
    BY <2>2, <2>3, <2>4, EntryAssumption DEF CpuType
  <2>7. z = [p EXCEPT !.bus = b, !.cpu = c]
    BY <1>10, <2>1, <2>2, <2>3
  <2> QED BY <1>8, <2>5, <2>6, <2>7 DEF MachineOn
<1>13. Becomes(z) /\ ghost' = [ghost EXCEPT !.bypassed = {}]
  BY <1>11 DEF Redirect
<1>14. Machine' = z
  BY <1>12, <1>13, BecomesMachine
<1>15. FetchesAreFresh'
  <2>1. Fresh(icache', mem', ghost'.bypassed)
    BY <1>12, <1>14, FlushedIsFresh, MachineParts
  <2> QED BY <2>1 DEF FetchesAreFresh, Fresh
<1>16. EdgeInCause'
  <2>1. EdgeInCause
    BY DEF Inv
  <2>2. /\ ghost'.edge = ghost.edge
        /\ ghost' = [ctx |-> ghost'.ctx, bypassed |-> ghost'.bypassed, edge |-> ghost'.edge,
                     seen |-> ghost'.seen]
    BY <1>13, <2>1 DEF EdgeInCause
  <2>3. /\ bus'.prev = bus.irq /\ bus'.running = l.bus.running /\ cpu'.ip = l.cpu.ip
    BY <1>2, <1>6, <1>8, <1>9, <1>12, <1>14, MachineParts
  <2>4. /\ bus.running => l.bus.running
        /\ l.bus.running /\ bus.irq /\ ~ bus.prev => "IP2" \in l.cpu.ip
        /\ bus.irq \/ ~ bus.prev => cpu.ip \subseteq l.cpu.ip
    BY <1>2, <1>4, MachineParts
  <2> QED BY <2>1, <2>2, <2>3, <2>4 DEF EdgeInCause
<1>17. HandlerKept'
  <2>1. bus'.preloaded /\ mem' = p.mem /\ ghost'.bypassed = {}
    <3>1. EdgeInCause
      BY DEF Inv
    <3> QED BY <1>9, <1>12, <1>13, <1>14, <3>1, MachineParts DEF EdgeInCause
  <2> QED BY <1>8, <2>1 DEF HandlerKept, HandlerIn
<1> QED BY <1>12, <1>14, <1>15, <1>16, <1>17 DEF Inv, TypeInv

(* The line moves. *)
LEMMA LineKeeps ==
  ASSUME Inv, LineUp \/ LineDown
  PROVE  Inv' /\ (HandlerKept => HandlerKept')
<1>1. PICK D \in Extents : Machine \in MachineOn(D)
  BY DEF Inv, TypeInv
<1>2. cpu \in CpuType /\ icache \in [Indices -> LineType] /\ mem \in [D -> Word] /\ bus \in BusType
  BY <1>1, Parts, MachineParts
<1>3. PICK up \in BOOLEAN : bus' = [bus EXCEPT !.irq = up, !.polled = FALSE]
  BY DEF LineUp, LineDown
<1>4. UNCHANGED <<cpu, icache, mem, ghost>>
  BY DEF LineUp, LineDown
<1>5. /\ bus' \in BusType /\ bus'.prev = bus.prev /\ bus'.running = bus.running
      /\ bus'.booted = bus.booted /\ bus'.preloaded = bus.preloaded
  BY <1>2, <1>3 DEF BusType
<1>6. Machine' \in MachineOn(D)
  BY <1>2, <1>4, <1>5 DEF Machine, MachineOn
<1>7. FetchesAreFresh'
  BY <1>4 DEF Inv, FetchesAreFresh
<1>8. EdgeInCause'
  BY <1>4, <1>5 DEF Inv, EdgeInCause
<1>9. HandlerKept => HandlerKept'
  BY <1>4, <1>5 DEF HandlerKept, HandlerIn
<1> QED BY <1>6, <1>7, <1>8, <1>9 DEF Inv, TypeInv

LEMMA NextKeeps ==
  ASSUME Inv, [Next]_vars
  PROVE  Inv' /\ (HandlerKept /\ LeavesHandlerAlone => HandlerKept')
<1>1. CASE \E due, taken \in BOOLEAN : Run(due, taken)
  BY <1>1, RunKeeps
<1>2. CASE Redirect
  BY <1>2, RedirectKeeps
<1>3. CASE LineUp \/ LineDown
  BY <1>3, LineKeeps
<1>4. CASE UNCHANGED vars
  BY <1>4 DEF vars, Inv, TypeInv, Machine, FetchesAreFresh, EdgeInCause, HandlerKept, HandlerIn
<1> QED BY <1>1, <1>2, <1>3, <1>4 DEF Next, Step

(* The cache shows a cell of the handler as memory holds it, once the cell  *)
(* is not among the stale ones.                                             *)
LEMMA HandlerShown == Inv /\ HandlerKept => HandlerSurvives
<1> SUFFICES ASSUME Inv, HandlerKept, bus.booted, NEW i \in 1 .. Len(Handler),
                    NEW pa, pa = VectorPa + i - 1
             PROVE  LET ln == icache[Index(pa)]
                    IN  /\ mem[pa] = Handler[i]
                        /\ ln.tag = Tag(pa) => ln.words[pa % LineWords] = Handler[i]
  BY DEF HandlerSurvives
<1>1. PICK D \in Extents : mem \in [D -> Word]
  BY Parts, MachineParts DEF Inv, TypeInv
<1>2. Len(Handler) \in Nat
  BY ProgramAssumption
<1>3. pa \in HandlerCells /\ pa \in D /\ i = pa - VectorPa + 1 /\ pa \in Int
      /\ 0 <= pa /\ pa < DramWords
  <2>1. pa \in HandlerCells /\ i = pa - VectorPa + 1 /\ pa \in Int /\ 0 <= pa
    BY <1>2 DEF HandlerCells, VectorPa
  <2>2. pa < DramWords
    BY <1>2, HandlerAssumption DEF VectorPa, DramWords
  <2>3. HandlerCells \subseteq D
    BY HandlerAssumption DEF Extents
  <2> QED BY <2>1, <2>2, <2>3
<1>4. mem[pa] = Handler[i] /\ pa \notin ghost.bypassed
  BY <1>3 DEF HandlerKept, HandlerIn
<1>5. ASSUME icache[Index(pa)].tag = Tag(pa)
      PROVE  icache[Index(pa)].words[pa % LineWords] = mem[pa]
  <2>1. PICK k \in 0 .. LineWords - 1 : k = pa % LineWords
    BY <1>3 DEF LineWords
  <2>2. PICK j \in Indices : j = Index(pa)
    BY <1>1, <1>3 DEF Indices, Extents
  <2>3. CachedCell(Tag(pa), Index(pa), k) = pa
    <3>1. (Tag(pa) * Sets + Index(pa)) * LineWords + k = pa
      <4>1. (Tag(pa) * Sets + Index(pa)) * LineWords + k = (pa - (pa % LineWords)) + k
        BY <1>3, LineAddress
      <4>2. pa % LineWords \in Int
        BY <1>3 DEF LineWords
      <4>3. (pa - (pa % LineWords)) + k = pa
        <5>1. \A x, y \in Int : (x - y) + y = x
          OBVIOUS
        <5> QED BY <1>3, <2>1, <4>2, <5>1
      <4> QED BY <4>1, <4>3
    <3>2. Cell(pa) = pa
      BY <1>3 DEF Cell, InDram, DramWords
    <3> QED BY <3>1, <3>2 DEF CachedCell
  <2>4. Tag(pa) # NoTag
    BY <1>3 DEF Tag, NoTag, LineWords, Sets
  <2>5. pa \notin Forced
    BY <1>3 DEF Forced, DramWords
  <2>6. DOMAIN mem = D
    BY <1>1
  <2>7. FetchesAreFresh
    BY DEF Inv
  <2>8. \/ CachedCell(icache[j].tag, j, k) \notin DOMAIN mem
        \/ CachedCell(icache[j].tag, j, k) \in Forced \cup ghost.bypassed
        \/ icache[j].tag = NoTag
        \/ icache[j].words[k] = mem[CachedCell(icache[j].tag, j, k)]
    BY <2>7 DEF FetchesAreFresh
  <2>9. icache[j].tag = Tag(pa)
    BY <1>5, <2>2
  <2>10. CachedCell(icache[j].tag, j, k) = pa
    BY <2>2, <2>3, <2>9
  <2> QED BY <1>3, <1>4, <2>1, <2>2, <2>4, <2>5, <2>6, <2>8, <2>9, <2>10
<1> QED BY <1>4, <1>5

(* The handler of the emulator (memory.c:330-381) is what it was, in memory *)
(* and through the cache, for every guest that stores nothing over it.  A   *)
(* guest may sweep its isolated cache over the vector, read the flash card  *)
(* again, and be interrupted anywhere.                                      *)
THEOREM HandlerStays == Spec /\ []LeavesHandlerAlone => []HandlerSurvives
<1>1. Inv /\ HandlerKept => HandlerSurvives
  BY HandlerShown
<1>2. (Inv /\ HandlerKept) /\ LeavesHandlerAlone /\ [Next]_vars => (Inv /\ HandlerKept)'
  BY NextKeeps
<1> QED BY <1>1, <1>2, InitInv, PTL DEF Spec

(* Coherence of the instruction cache (mips.c:57-98, 638-646), for every    *)
(* program: every word it would fetch is the word memory holds, except for  *)
(* the cells of stores that drop no line or another one, and for the four   *)
(* words that the bus answers itself.                                       *)
THEOREM FetchesStayFresh == Spec => []FetchesAreFresh
<1>1. Inv => FetchesAreFresh
  BY DEF Inv
<1> QED BY <1>1, InitInv, NextKeeps, PTL DEF Spec

(* A rising edge of the LANCE line stays in Cause for as long as the line    *)
(* is up and nobody has cleared or served it (mips.c:311-335): neither the  *)
(* latching of a later level, nor an exception, nor the redirection at the  *)
(* boot hook loses it.                                                      *)
THEOREM EdgesStayInCause == Spec => [](ghost.edge = "owed" /\ bus.prev => "IP2" \in cpu.ip)
<1>1. Inv => (ghost.edge = "owed" /\ bus.prev => "IP2" \in cpu.ip)
  BY DEF Inv, EdgeInCause
<1> QED BY <1>1, InitInv, NextKeeps, PTL DEF Spec
=============================================================================
