------------------------------- MODULE Lance -------------------------------
(***************************************************************************)
(* The LANCE chip (LanceChip) with the host driver that shares the         *)
(* descriptor rings with it, and the wire.  The driver makes one descriptor*)
(* store or one register access at a time; the chip's timer and the frames *)
(* of other stations come in between.                                      *)
(*                                                                         *)
(* The driver is the terminal's firmware, which is not part of the         *)
(* repository.  It is modelled from what lance.c and lance_glue.c say of   *)
(* it: it builds rings and init block, writes INIT, then STRT or TDMD;     *)
(* rings are rebuilt only while the chip's transmitter and receiver are    *)
(* off; it fills only descriptors it owns; its interrupt routine reads     *)
(* CSR0, writes back the causes it saw, then empties the receive ring.     *)
(***************************************************************************)
EXTENDS LanceChip, FiniteSets

CONSTANTS
  WireLens,     \* lengths of the frames other stations send, without FCS
  WireDst,      \* their destination addresses
  OwnDst,       \* destination addresses of the host's own frames
  Modes,        \* MODE words the driver puts in the init block
  MaxFrags,     \* fragments of the host's longest frame
  OwnLast,      \* the driver hands over the first buffer of a frame last
  EmptyFrags,   \* the driver may queue a zero-length buffer
  QuietWire,    \* nobody addresses this station while its receiver is off
  MaxTx,        \* bound: frames the driver queues
  MaxRx,        \* bound: frames other stations send
  MaxInits      \* bound: times the driver rebuilds the rings

ASSUME EnvAssumption ==
  /\ WireLens \in SUBSET Nat
  /\ WireDst \in SUBSET Dst
  /\ OwnDst \in SUBSET Dst
  /\ Modes \in SUBSET (SUBSET ModeBits)
  /\ MaxFrags \in 1 .. TxLen
  /\ {OwnLast, EmptyFrags, QuietWire} \in SUBSET BOOLEAN
  /\ {MaxTx, MaxRx, MaxInits} \in SUBSET Nat

VARIABLES
  chip,    \* registers and internal state of the chip
  tx,      \* the transmit descriptor ring, in host memory
  rx,      \* the receive descriptor ring, in host memory
  wire,    \* frames the chip put on the wire, in order
  taken,   \* frames the chip stored whole and without error since the rings
           \* were built, in order
  drv,     \* the driver
  heard    \* how many frames other stations have sent

vars == <<chip, tx, rx, wire, taken, drv, heard>>

Machine == [chip |-> chip, tx |-> tx, rx |-> rx, wire |-> wire, taken |-> taken]

Becomes(s) ==
  /\ chip' = s.chip
  /\ tx' = s.tx
  /\ rx' = s.rx
  /\ wire' = s.wire
  /\ taken' = s.taken

Block == [mode: Modes, ladrf: SUBSET Groups]
NoAsm == [frame |-> NoFrame, next |-> 0]

Init ==
  /\ chip = [csr0 |-> {"STOP"}, mode |-> {}, ladrf |-> {}, padr |-> FALSE,
             txPos |-> 0, rxPos |-> 0, int |-> FALSE, poll |-> PollTicks]
  /\ tx = FreshTx
  /\ rx = [i \in RxIdx |-> EmptyRx(FALSE)]
  /\ wire = <<>>
  /\ taken = <<>>
  /\ drv = [phase |-> "down", block |-> [mode |-> {}, ladrf |-> {}], inits |-> 0,
            head |-> 0, build |-> 0, done |-> 0, dst |-> "other", queued |-> 0,
            rxHead |-> 0, isr |-> "idle", seen |-> {}, asm |-> NoAsm, got |-> <<>>]
  /\ heard = 0
-----------------------------------------------------------------------------
(* The driver's register writes. *)
Csr0Write(data) == Becomes(WriteCsr0(Machine, data, drv.block))

Stop ==
  /\ drv.phase # "down"
  /\ Csr0Write({"STOP"})
  /\ drv' = [drv EXCEPT !.phase = "down", !.build = 0, !.done = 0, !.dst = "other",
                        !.isr = "idle", !.seen = {}]
  /\ UNCHANGED heard

(* All the descriptors, the init block and the driver's own indices. *)
MakeRings(block) ==
  /\ drv.phase # "ready"
  /\ drv.inits < MaxInits
  /\ {"TXON", "RXON"} \cap chip.csr0 = {}
  /\ tx' = FreshTx
  /\ rx' = FreshRx
  /\ taken' = <<>>
  /\ drv' = [drv EXCEPT !.phase = "ready", !.block = block, !.inits = @ + 1,
                        !.head = 0, !.build = 0, !.done = 0, !.dst = "other",
                        !.rxHead = 0, !.isr = "idle", !.seen = {},
                        !.asm = NoAsm, !.got = <<>>]
  /\ UNCHANGED <<chip, wire, heard>>

WriteInit(data) ==
  /\ drv.phase = "ready"
  /\ "INIT" \in data
  /\ Csr0Write(data)
  /\ drv' = [drv EXCEPT !.phase = IF "STRT" \in data THEN "up" ELSE "inited"]
  /\ UNCHANGED heard

WriteStart(data) ==
  /\ drv.phase = "inited"
  /\ data \cap {"STRT", "TDMD"} # {}
  /\ Csr0Write(data)
  /\ drv' = [drv EXCEPT !.phase = "up"]
  /\ UNCHANGED heard

Demand ==
  /\ drv.phase = "up" /\ drv.isr = "idle" /\ drv.build = 0
  /\ Csr0Write({"TDMD", "INEA"})
  /\ UNCHANGED <<drv, heard>>

InitWords  == {{"INIT"}, {"INIT", "STRT", "INEA"}}
StartWords == {{"STRT", "INEA"}, {"TDMD", "INEA"}, {"STRT", "TDMD", "INEA"}}
-----------------------------------------------------------------------------
(* Queueing a frame of drv.build buffers, one descriptor store at a time.  *)
FreeTx(n) == \A k \in 0 .. n - 1 : ~ tx[Adv(drv.head, k, TxLen)].own

BeginFrame(n, dst) ==
  /\ drv.phase \in {"inited", "up"}
  /\ drv.isr = "idle" /\ drv.build = 0
  /\ drv.queued < MaxTx
  /\ FreeTx(n)
  /\ drv' = [drv EXCEPT !.build = n, !.done = 0, !.dst = dst, !.queued = @ + 1]
  /\ UNCHANGED <<chip, tx, rx, wire, taken, heard>>

(* The buffer stored next: the first one last, or in ring order. *)
NextPart == IF OwnLast THEN (drv.done + 1) % drv.build ELSE drv.done

StoreTx(empty) ==
  LET k == NextPart
      i == Adv(drv.head, k, TxLen)
      last == drv.done + 1 = drv.build
  IN  /\ drv.build > 0
      /\ drv.isr = "idle"
      /\ tx' = [tx EXCEPT ![i] =
                  [own |-> TRUE, stp |-> k = 0, enp |-> k = drv.build - 1,
                   empty |-> empty, err |-> FALSE, tmd3 |-> {},
                   frag |-> [id |-> drv.queued, part |-> k + 1, of |-> drv.build,
                             dst |-> drv.dst]]]
      /\ drv' = IF last
                  THEN [drv EXCEPT !.build = 0, !.done = 0, !.dst = "other",
                                   !.head = Adv(@, drv.build, TxLen)]
                  ELSE [drv EXCEPT !.done = @ + 1]
      /\ UNCHANGED <<chip, rx, wire, taken, heard>>
-----------------------------------------------------------------------------
(* The interrupt routine. *)
IsrRead ==
  /\ drv.phase = "up" /\ drv.isr = "idle"
  /\ chip.int
  /\ drv' = [drv EXCEPT !.isr = "read", !.seen = chip.csr0 \cap Acks]
  /\ UNCHANGED <<chip, tx, rx, wire, taken, heard>>

IsrAck ==
  /\ drv.isr = "read"
  /\ Csr0Write(drv.seen \cup {"INEA"})
  /\ drv' = [drv EXCEPT !.isr = "drain", !.seen = {}]
  /\ UNCHANGED heard

(* Takes one receive buffer and gives it back.  A frame whose buffers do    *)
(* not join up to the whole of one frame is handed on as NoFrame.           *)
IsrDrain ==
  LET d    == rx[drv.rxHead]
      sofar == IF d.stp THEN NoAsm ELSE drv.asm
      joins == d.slice = sofar.next /\ (d.stp \/ d.frame = sofar.frame)
      f     == IF joins THEN d.frame ELSE NoFrame
      ends  == f # NoFrame /\ (d.slice + 1) * RxBytes >= f.bytes
  IN  /\ drv.isr = "drain"
      /\ ~ d.own
      /\ rx' = [rx EXCEPT ![drv.rxHead] = EmptyRx(TRUE)]
      /\ drv' = [drv EXCEPT
                   !.rxHead = Adv(@, 1, RxLen),
                   !.asm = IF d.enp \/ d.err THEN NoAsm
                           ELSE [frame |-> f, next |-> d.slice + 1],
                   !.got = IF d.enp /\ ~ d.err
                             THEN Append(@, IF ends THEN f ELSE NoFrame)
                             ELSE @]
      /\ UNCHANGED <<chip, tx, wire, taken, heard>>

IsrExit ==
  /\ drv.isr = "drain"
  /\ rx[drv.rxHead].own
  /\ drv' = [drv EXCEPT !.isr = "idle"]
  /\ UNCHANGED <<chip, tx, rx, wire, taken, heard>>
-----------------------------------------------------------------------------
(* The main loop's 10000-cycle poll: the timer, then the network. *)
Tick ==
  /\ Becomes(TickChip(Machine))
  /\ UNCHANGED <<drv, heard>>

(* lance_glue_recv: a frame read from the host network has no FCS; it gets  *)
(* one unless it outgrows the 1600-byte staging buffer.                     *)
GlueFrame(len, dst) ==
  [own   |-> FALSE,
   frags |-> <<[id |-> heard + 1, part |-> 1, of |-> 1, dst |-> dst]>>,
   bytes |-> IF len + 4 <= 1600 THEN len + 4 ELSE len,
   fcs   |-> len + 4 <= 1600]

WireFrame(len, dst) ==
  /\ heard < MaxRx
  /\ QuietWire => dst # "self" \/ "RXON" \in chip.csr0
  /\ Becomes(Recv(Machine, GlueFrame(len, dst)))
  /\ heard' = heard + 1
  /\ UNCHANGED drv
-----------------------------------------------------------------------------
Setup ==
  \/ Stop
  \/ \E block \in Block : MakeRings(block)
  \/ \E data \in InitWords : WriteInit(data)
  \/ \E data \in StartWords : WriteStart(data)

Send ==
  \/ Demand
  \/ \E n \in 1 .. MaxFrags, dst \in OwnDst : BeginFrame(n, dst)
  \/ StoreTx(FALSE)
  \/ EmptyFrags /\ StoreTx(TRUE)

Isr == IsrRead \/ IsrAck \/ IsrDrain \/ IsrExit

Net == \E len \in WireLens, dst \in WireDst : WireFrame(len, dst)

Next == Setup \/ Send \/ Isr \/ Tick \/ Net

(* The main loop calls the tick for ever; the driver finishes what it has   *)
(* begun and answers interrupts.  Nothing else has to happen.               *)
Fairness ==
  /\ WF_vars(Tick)
  /\ WF_vars(StoreTx(FALSE))
  /\ WF_vars(Isr)

Spec == Init /\ [][Next]_vars /\ Fairness
-----------------------------------------------------------------------------
(* Properties.                                                             *)

ChipType ==
  [csr0: SUBSET Csr0Bits, mode: SUBSET ModeBits, ladrf: SUBSET Groups,
   padr: BOOLEAN, txPos: TxIdx, rxPos: RxIdx, int: BOOLEAN, poll: 1 .. PollTicks]

MachineType ==
  [chip: ChipType, tx: [TxIdx -> TxDesc], rx: [RxIdx -> RxDesc],
   wire: Seq(Frame), taken: Seq(Frame)]

DrvType ==
  [phase: {"down", "ready", "inited", "up"},
   block: [mode: SUBSET ModeBits, ladrf: SUBSET Groups], inits: Nat,
   head: TxIdx, build: 0 .. MaxFrags, done: 0 .. MaxFrags, dst: Dst, queued: Nat,
   rxHead: RxIdx, isr: {"idle", "read", "drain"}, seen: SUBSET Acks,
   asm: [frame: Frame, next: Nat], got: Seq(Frame)]

(* Every variable keeps its shape: ring positions stay inside the rings the *)
(* init block gave, whatever chain of descriptors a handler walks, and the  *)
(* driver's progress through a frame stays within the frame.                *)
TypeOK ==
  /\ Machine \in MachineType
  /\ drv \in DrvType
  /\ drv.done < drv.build \/ (drv.build = 0 /\ drv.done = 0)
  /\ heard \in Nat

(* Between handlers the summary bits of CSR0 agree with the causes they     *)
(* summarise, and the /INT line with both: no path through the handlers     *)
(* returns with lance_update_interrupts one change behind.                  *)
SummaryAgrees(c) ==
  /\ "INTR" \in c.csr0 <=> c.csr0 \cap Causes # {}
  /\ "ERR" \in c.csr0 <=> c.csr0 \cap Faults # {}
  /\ c.int <=> {"INEA", "INTR"} \subseteq c.csr0

StatusAgrees == SummaryAgrees(chip)

Running == drv.phase \in {"inited", "up"}

(* Chip and driver agree on the receive ring: from the chip's position on,  *)
(* the descriptors it owns run exactly up to the one the driver reads next. *)
RxInStep ==
  Running =>
    \E n \in 0 .. RxLen :
      /\ \A k \in 0 .. RxLen - 1 : rx[Adv(chip.rxPos, k, RxLen)].own <=> k < n
      /\ drv.rxHead = Adv(chip.rxPos, n, RxLen)

(* The same for transmit: the chip owns the run from its position up to the *)
(* driver's head, and beyond it only buffers of the frame being queued,     *)
(* whose first buffer it does not own yet.                                  *)
TxInStep ==
  Running =>
    \E n \in 0 .. TxLen :
      /\ drv.head = Adv(chip.txPos, n, TxLen)
      /\ \A k \in 0 .. TxLen - 1 :
           tx[Adv(chip.txPos, k, TxLen)].own <=> (k < n \/ k \in n + 1 .. n + drv.done)
      /\ n + drv.build <= TxLen

(* Chip and driver stay in step on both rings, through any number of        *)
(* initialisations (lance_initialize, lance_receive, lance_transmit).       *)
RingsInStep == RxInStep /\ TxInStep

Whole(f) ==
  LET n == f.frags[1].of
  IN  /\ Len(f.frags) = n
      /\ \A k \in 1 .. n : f.frags[k] = [f.frags[1] EXCEPT !.part = k]

(* What reaches the wire are whole frames, each at most once, in the order  *)
(* the driver queued them, across any number of re-initialisations.         *)
WireWholeInOrder ==
  /\ \A i \in DOMAIN wire : Whole(wire[i])
  /\ \A i, j \in DOMAIN wire :
       i < j => wire[i].frags[1].id < wire[j].frags[1].id

(* A frame whose last descriptor came back without ERR was sent: outside    *)
(* loopback the driver never takes a frame for sent that was not.           *)
ReturnedMeansSent ==
  \A i \in TxIdx :
    /\ tx[i].enp /\ ~ tx[i].own /\ ~ tx[i].err
    /\ "LOOP" \notin chip.mode /\ Running
    => \E j \in DOMAIN wire : wire[j].frags[1].id = tx[i].frag.id /\ Whole(wire[j])

(* The self-tests: a frame that came back without ERR in a loopback mode, or *)
(* addressed to the station itself, has come round to the receive side.     *)
LoopReturns ==
  \A i \in TxIdx :
    /\ tx[i].enp /\ ~ tx[i].own /\ ~ tx[i].err /\ Running
    /\ "LOOP" \in chip.mode \/ tx[i].frag.dst = "self"
    => \E j \in DOMAIN taken : taken[j].own /\ taken[j].frags[1].id = tx[i].frag.id

(* The k-th receive buffer from the driver's place on, and those of them    *)
(* that end a frame which waits to be read, whole and without error.        *)
Filled(k) == rx[Adv(drv.rxHead, k, RxLen)]
Waiting   == {k \in RxIdx : ~ Filled(k).own /\ Filled(k).enp /\ ~ Filled(k).err}

(* The receive ring is a queue: what the driver has put together from the   *)
(* buffers, followed by what waits in the ring, is exactly what the chip    *)
(* accepted, in order; chained buffers join up to whole frames again.       *)
RxIsQueue ==
  Running =>
    /\ Len(taken) = Len(drv.got) + Cardinality(Waiting)
    /\ \A i \in DOMAIN drv.got : taken[i] = drv.got[i]
    /\ \A k \in Waiting :
         taken[Len(drv.got) + Cardinality({j \in Waiting : j <= k})] = Filled(k).frame

(* While a filled receive buffer waits and the interrupt routine is not     *)
(* already emptying the ring, the interrupt line is asserted, so the driver *)
(* will look: an acknowledgement never swallows a frame that came after it. *)
NoLostWakeup ==
  drv.phase = "up" /\ drv.isr # "drain" /\ ~ rx[drv.rxHead].own => chip.int

(* A pending transmit demand means that the transmitter is off: with it on, *)
(* every demand has been served when the handler returns.                   *)
DemandServed == "TDMD" \in chip.csr0 => "TXON" \notin chip.csr0

(* After an underrun the transmitter stays off until the rings are rebuilt: *)
(* STRT is still set, so neither STRT nor TDMD can turn it on again.        *)
UnderrunStops ==
  Running /\ (\E i \in TxIdx : "UFLO" \in tx[i].tmd3) => "TXON" \notin chip.csr0

(* A descriptor changes only by changing hands: the chip writes only what   *)
(* it owns and releases it in the same step, and so does the driver.        *)
ChangesHands ==
  [][ drv'.inits = drv.inits =>
        /\ \A i \in TxIdx : tx'[i] # tx[i] => tx'[i].own # tx[i].own
        /\ \A i \in RxIdx : rx'[i] # rx[i] => rx'[i].own # rx[i].own ]_vars

(* A buffer the driver handed over comes back, unless the transmitter is    *)
(* turned off: no chain of descriptors makes the poll stand still.          *)
TxDrains ==
  \A i \in TxIdx : tx[i].own ~> (~ tx[i].own \/ "TXON" \notin chip.csr0)

(* A filled receive buffer is read, unless the driver takes the chip down.  *)
RxDrains ==
  \A i \in RxIdx :
    (drv.phase = "up" /\ drv.rxHead = i /\ ~ rx[i].own)
      ~> (drv.phase # "up" \/ drv.rxHead # i)
=============================================================================
