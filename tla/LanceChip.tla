----------------------------- MODULE LanceChip -----------------------------
(***************************************************************************)
(* The Am79C90 LANCE Ethernet chip of the emulator (emulator/src/lance.c,  *)
(* in the variant lance_glue.c builds).  A handler of the chip runs to     *)
(* completion between two CPU instructions, so it is an operator from      *)
(* machine states to machine states; module Lance makes the actions.       *)
(*                                                                         *)
(* A machine state is a record of what the chip reads and writes: itself,  *)
(* the two descriptor rings in host memory, and what it put on the wire.   *)
(*                                                                         *)
(* Bytes are abstracted: a transmit buffer holds one fragment of FragBytes *)
(* bytes (or none), a receive buffer RxBytes bytes, and the contents of a  *)
(* buffer say which part of which frame it is.                             *)
(***************************************************************************)
EXTENDS Integers, Sequences

CONSTANTS
  TxLen,        \* descriptors in the transmit ring
  RxLen,        \* descriptors in the receive ring
  FragBytes,    \* bytes in a transmit buffer that is not empty
  RxBytes,      \* bytes in a receive buffer
  Groups        \* multicast groups

ASSUME RingAssumption ==
  /\ TxLen \in Nat \ {0}
  /\ RxLen \in Nat \ {0}
  /\ FragBytes \in Nat \ {0}
  /\ RxBytes \in Nat \ {0}

ModeBits == {"DRX", "DTX", "LOOP", "INTL", "COLL", "DTCR", "PROM"}
Dst      == {"self", "bcast", "other"} \cup Groups
-----------------------------------------------------------------------------
(* CSR0 is the set of its bits that are 1.                                 *)
Causes == {"BABL", "MISS", "MERR", "RINT", "TINT", "IDON"}
Faults == {"BABL", "CERR", "MISS", "MERR"}
Acks   == Causes \cup Faults
Csr0Bits ==
  Acks \cup {"INIT", "STRT", "STOP", "TDMD", "TXON", "RXON", "INEA", "INTR", "ERR"}

(* LANCE_TX_POLL_CYCLES = 19200 and the main loop ticks every 10000 cycles. *)
PollTicks == 2

Frag  == [id: Nat, part: Nat, of: Nat, dst: Dst]
Frame == [own: BOOLEAN, frags: Seq(Frag), bytes: Nat, fcs: BOOLEAN]

NoFrag  == [id |-> 0, part |-> 0, of |-> 0, dst |-> "other"]
NoFrame == [own |-> FALSE, frags |-> <<>>, bytes |-> 0, fcs |-> TRUE]

DstOf(f) == f.frags[1].dst

TxDesc == [own: BOOLEAN, stp: BOOLEAN, enp: BOOLEAN, empty: BOOLEAN,
           err: BOOLEAN, tmd3: SUBSET {"BUFF", "UFLO", "RTRY"}, frag: Frag]
RxDesc == [own: BOOLEAN, stp: BOOLEAN, enp: BOOLEAN, err: BOOLEAN,
           mcnt: Nat, slice: Nat, frame: Frame]

TxIdx == 0 .. TxLen - 1
RxIdx == 0 .. RxLen - 1

(* The position k descriptors after p in a ring of n, for k in 0..n:       *)
(* (pos + 1) & mask, k times, with mask = ~(1 << log2 n).                  *)
Adv(p, k, n) == IF p + k < n THEN p + k ELSE p + k - n

Smaller(a, b) == IF a < b THEN a ELSE b
Least(S) == CHOOSE m \in S : \A k \in S : m <= k

FreshTx == [i \in TxIdx |-> [own |-> FALSE, stp |-> FALSE, enp |-> FALSE,
             empty |-> FALSE, err |-> FALSE, tmd3 |-> {}, frag |-> NoFrag]]
EmptyRx(own) == [own |-> own, stp |-> FALSE, enp |-> FALSE, err |-> FALSE,
                 mcnt |-> 0, slice |-> 0, frame |-> NoFrame]
FreshRx == [i \in RxIdx |-> EmptyRx(TRUE)]
-----------------------------------------------------------------------------
Raise(c, bits) == [c EXCEPT !.csr0 = @ \cup bits]
Lower(c, bits) == [c EXCEPT !.csr0 = @ \ bits]

(* /INT follows INTR while INEA is set; int = TRUE is the asserted line. *)
UpdateInterrupts(c) == [c EXCEPT !.int = {"INEA", "INTR"} \subseteq c.csr0]

(* The address registers of the init block survive a reset. *)
Reset(c) ==
  UpdateInterrupts([c EXCEPT !.csr0 = {"STOP"}, !.mode = {}, !.poll = PollTicks])

InitializeKeepsPos(c, block) ==
  UpdateInterrupts(
    [c EXCEPT !.mode = block.mode, !.ladrf = block.ladrf, !.padr = TRUE,
              !.csr0 = (@ \ {"INIT", "STOP", "STRT", "TXON", "RXON"})
                         \cup {"IDON", "INTR"}])

(* Reads the init block.  TDMD, INEA and the cause bits are left alone. *)
Initialize(c, block) ==
  UpdateInterrupts(
    [c EXCEPT !.mode = block.mode, !.ladrf = block.ladrf, !.padr = TRUE,
              !.txPos = 0, !.rxPos = 0,
              !.csr0 = (@ \ {"INIT", "STOP", "STRT", "TXON", "RXON"})
                         \cup {"IDON", "INTR"}])
-----------------------------------------------------------------------------
(* Receive. *)
InternalLoop(c) == {"LOOP", "INTL"} \subseteq c.mode

(* padr is FALSE until the first initialisation loads the station address. *)
SelfAddressed(c, f) == DstOf(f) = "self" /\ c.padr

AddressFilter(c, f) ==
  \/ "PROM" \in c.mode
  \/ DstOf(f) = "bcast"
  \/ DstOf(f) \in c.ladrf
  \/ SelfAddressed(c, f)

(* The gate of lance_receive in front of the ring. *)
Accepts(c, f) ==
  /\ InternalLoop(c) \/ SelfAddressed(c, f) \/ "RXON" \in c.csr0
  /\ AddressFilter(c, f)

(* The k at which the descriptor walk of lance_receive ends: the frame fits *)
(* or the chip does not own the next descriptor (the walk has cleared OWN   *)
(* of the first one by the time it comes round to it).                      *)
RxStopsBlind(s, f, k) == f.bytes <= (k + 1) * RxBytes \/ k = RxLen - 1
RxStops(s, f, k) ==
  \/ f.bytes <= (k + 1) * RxBytes
  \/ k = RxLen - 1
  \/ ~ s.rx[Adv(s.chip.rxPos, k + 1, RxLen)].own
RxLast(s, f) == Least({k \in RxIdx : RxStops(s, f, k)})

(* Offset of ring index i from the chip's receive position. *)
RxOff(c, i) == IF c.rxPos <= i THEN i - c.rxPos ELSE i - c.rxPos + RxLen
TxOff(c, i) == IF c.txPos <= i THEN i - c.txPos ELSE i - c.txPos + TxLen

(* One receive descriptor of the walk, the k-th: the first gets STP, the    *)
(* last ENP, or ERR|BUFF, or ERR|CRC for a wrong FCS, and MCNT.  Flags that *)
(* were set stay set.                                                       *)
FillRxStpLast(d, f, k, last, whole, badFcs) ==
  [d EXCEPT !.own = FALSE, !.stp = @ \/ k = last, !.enp = @ \/ (k = last /\ whole),
            !.slice = k, !.frame = f]
FillRx(d, f, k, last, whole, badFcs) ==
  [d EXCEPT !.own = FALSE,
            !.stp = @ \/ k = 0,
            !.enp = @ \/ (k = last /\ whole),
            !.err = @ \/ (k = last /\ (~ whole \/ badFcs)),
            !.mcnt = IF k = last THEN Smaller(f.bytes, (last + 1) * RxBytes) ELSE @,
            !.slice = k,
            !.frame = f]

(* The FCS is checked except in loopback that also generates it. *)
FcsChecked(c) == "LOOP" \notin c.mode \/ "DTCR" \in c.mode

StoreRx(s, f) ==
  LET last   == RxLast(s, f)
      whole  == f.bytes <= (last + 1) * RxBytes
      badFcs == whole /\ ~ f.fcs /\ FcsChecked(s.chip)
  IN  [s EXCEPT
        !.rx = [i \in RxIdx |->
                 IF RxOff(s.chip, i) <= last
                   THEN FillRx(s.rx[i], f, RxOff(s.chip, i), last, whole, badFcs)
                   ELSE s.rx[i]],
        !.taken = IF whole /\ ~ badFcs THEN Append(@, f) ELSE @,
        !.chip.rxPos = Adv(@, last + 1, RxLen),
        !.chip.csr0 = @ \cup {"RINT", "INTR"}]

(* lance_receive and lance_recv_complete.  A frame that finds no descriptor *)
(* is missed, and reported by RINT as well as by MISS.                      *)
ReceiveMute(s, f) ==
  IF ~ Accepts(s.chip, f) THEN s
  ELSE IF ~ s.rx[s.chip.rxPos].own
    THEN [s EXCEPT !.chip = Raise(@, {"ERR", "MISS", "RINT", "INTR"})]
    ELSE StoreRx(s, f)
Receive(s, f) ==
  IF ~ Accepts(s.chip, f) THEN s
  ELSE IF ~ s.rx[s.chip.rxPos].own
    THEN [s EXCEPT !.chip = UpdateInterrupts(Raise(@, {"ERR", "MISS", "RINT", "INTR"}))]
    ELSE LET t == StoreRx(s, f)
         IN  [t EXCEPT !.chip = UpdateInterrupts(@)]

(* lance_recv: a frame from the wire. *)
Recv(s, f) ==
  IF f.bytes < 60 \/ InternalLoop(s.chip) THEN s ELSE Receive(s, f)
-----------------------------------------------------------------------------
(* Transmit. *)
TxAt(s, k) == s.tx[Adv(s.chip.txPos, k, TxLen)]

(* The k at which the descriptor walk of lance_transmit ends. *)
TxStopsNoEnp(s, k) ==
  TxAt(s, k).empty \/ k = TxLen - 1 \/ ~ TxAt(s, k + 1).own
TxStops(s, k) ==
  \/ TxAt(s, k).empty
  \/ TxAt(s, k).enp
  \/ k = TxLen - 1
  \/ ~ TxAt(s, k + 1).own
TxLast(s) == Least({k \in TxIdx : TxStops(s, k)})

(* The descriptors of the walk are released; the last gets the status.     *)
ReleaseTx(s, last, err, tmd3) ==
  [s EXCEPT
    !.tx = [i \in TxIdx |->
             IF TxOff(s.chip, i) > last THEN s.tx[i]
             ELSE IF TxOff(s.chip, i) = last
               THEN [s.tx[i] EXCEPT !.own = FALSE, !.err = @ \/ err,
                                    !.tmd3 = IF tmd3 = {} THEN @ ELSE tmd3]
               ELSE [s.tx[i] EXCEPT !.own = FALSE]],
    !.chip.txPos = Adv(@, last + 1, TxLen)]

(* lance_send_complete *)
SendComplete(s, last, err, tmd3) ==
  LET t == ReleaseTx(s, last, err, tmd3)
  IN  [t EXCEPT !.chip = [UpdateInterrupts(Raise(@, {"TINT", "INTR"}))
                            EXCEPT !.poll = 1]]

(* What the walk gathers: it may run out of owned descriptors before ENP.   *)
Underran(s) == ~ TxAt(s, TxLast(s)).enp
TxBytes(s)  == (TxLast(s) + 1) * FragBytes
TxFrame(s)  ==
  LET fcs == "DTCR" \notin s.chip.mode
  IN  [own   |-> TRUE,
       frags |-> [k \in 1 .. TxLast(s) + 1 |-> TxAt(s, k - 1).frag],
       bytes |-> IF fcs THEN TxBytes(s) + 4 ELSE TxBytes(s),
       fcs   |-> fcs]

Underrun(c) == Lower(c, {"TXON"})

(* The registers after the walk: an underrun turns the transmitter off, a   *)
(* frame of more than 1518 bytes babbles; both are sent all the same.       *)
Walked(s) ==
  LET c == IF Underran(s) THEN Underrun(s.chip) ELSE s.chip
  IN  [s EXCEPT !.chip = IF TxBytes(s) > 1518 THEN Raise(c, {"ERR", "BABL"}) ELSE c]

Finish(s, m, err, tmd3) ==
  SendComplete(m, TxLast(s), Underran(s) \/ err,
               (IF Underran(s) THEN {"UFLO", "BUFF"} ELSE {}) \cup tmd3)

(* A frame the MAC filter of a shared wire would hand back to its sender. *)
EchoNever(c, f) == FALSE
Echo(c, f) == SelfAddressed(c, f) /\ f.bytes \in 12 .. 100

(* lance_transmit, from a descriptor with OWN and STP: the machine after it *)
(* and the frame left in the loopback buffer, NoFrame if there is none.     *)
Transmit(s) ==
  LET f    == TxFrame(s)
      idle == Walked(s)
      sent == [idle EXCEPT !.wire = Append(@, f)]
  IN  IF TxAt(s, TxLast(s)).empty
        THEN [machine |-> ReleaseTx(s, TxLast(s), FALSE, {}), loop |-> NoFrame]
      ELSE IF "LOOP" \notin s.chip.mode
        THEN [machine |-> Finish(s, sent, FALSE, {}),
              loop    |-> IF Echo(s.chip, f) THEN f ELSE NoFrame]
      ELSE IF {"COLL", "INTL"} \subseteq s.chip.mode
        THEN [machine |-> Finish(s, idle, TRUE, {"RTRY"}), loop |-> NoFrame]
      ELSE IF TxBytes(s) \notin 8 .. 32
        THEN [machine |-> Finish(s, idle, TRUE, {}), loop |-> NoFrame]
      ELSE [machine |-> Finish(s, IF "INTL" \in s.chip.mode THEN idle ELSE sent, FALSE, {}),
            loop    |-> f]

(* A descriptor that does not begin a frame is skipped. *)
ContinuationByEnp(d) == ~ d.enp
Continuation(d) == ~ d.stp

TakeDemand(c) == Lower(c, {"TDMD"})

(* lance_transmit_poll.  The loopback buffer is emptied by the call that    *)
(* filled it.                                                               *)
TransmitPoll(s) ==
  LET t == [s EXCEPT !.chip = TakeDemand(@)]
      d == s.tx[s.chip.txPos]
  IN  IF "TXON" \notin s.chip.csr0 THEN s
      ELSE IF ~ d.own THEN t
      ELSE IF Continuation(d) THEN ReleaseTx(t, 0, FALSE, {})
      ELSE LET r == Transmit(t)
           IN  IF r.loop = NoFrame THEN r.machine ELSE Receive(r.machine, r.loop)
-----------------------------------------------------------------------------
(* A write to CSR0, lance_regs_w with RAP = 0: its parts in their order.   *)
Enabled(mode) == (IF "DRX" \in mode THEN {} ELSE {"RXON"})
                   \cup (IF "DTX" \in mode THEN {} ELSE {"TXON"})

(* STRT and what TDMD adds to it when STRT is not set yet. *)
ImplicitAlways(c) == {"STRT"} \cup Enabled(c.mode)
Implicit(c) == IF "STRT" \in c.csr0 THEN {} ELSE {"STRT"} \cup Enabled(c.mode)

DoInit(s, data, block) ==
  IF "INIT" \in data /\ "INIT" \notin s.chip.csr0
    THEN [s EXCEPT !.chip = Initialize(@, block)]
    ELSE s

DoStrt(s, data) ==
  IF "STRT" \in data /\ "STRT" \notin s.chip.csr0
    THEN TransmitPoll([s EXCEPT
           !.chip.csr0 = (@ \ {"STOP", "RXON", "TXON"})
                           \cup {"STRT"} \cup Enabled(s.chip.mode),
           !.chip.poll = 1])
    ELSE s

(* TDMD starts the chip when STRT is not set, and does not clear STOP. *)
DoTdmd(s, data) ==
  IF "TDMD" \in data /\ "TDMD" \notin s.chip.csr0
    THEN TransmitPoll([s EXCEPT
           !.chip.csr0 = @ \cup {"TDMD"} \cup Implicit(s.chip),
           !.chip.poll = 1])
    ELSE s

(* INEA, then the summary bits ERR and INTR, then the line. *)
Summarise(s, data) ==
  LET kept == s.chip.csr0 \ {"INEA", "ERR", "INTR"}
  IN  [s EXCEPT !.chip = UpdateInterrupts([@ EXCEPT !.csr0 =
         kept \cup (data \cap {"INEA"})
              \cup (IF kept \cap Faults # {} THEN {"ERR"} ELSE {})
              \cup (IF kept \cap Causes # {} THEN {"INTR"} ELSE {})])]

(* Write 1 to clear. *)
AckedAll(data) == Acks
Acked(data) == data \cap Acks

WriteCsr0(s, data, block) ==
  IF "STOP" \in data
    THEN IF "STOP" \in s.chip.csr0 THEN s ELSE [s EXCEPT !.chip = Reset(@)]
    ELSE LET s1 == [s EXCEPT !.chip = Lower(@, Acked(data))]
             s2 == DoInit(s1, data, block)
             s3 == DoStrt(s2, data)
             s4 == DoTdmd(s3, data)
         IN  Summarise(s4, data)

TickNoPoll(s) ==
  IF s.chip.poll > 1
    THEN [s EXCEPT !.chip.poll = @ - 1]
    ELSE [s EXCEPT !.chip.poll = PollTicks]

(* lance_tick: one call every 10000 cycles. *)
TickChip(s) ==
  IF s.chip.poll > 1
    THEN [s EXCEPT !.chip.poll = @ - 1]
    ELSE TransmitPoll([s EXCEPT !.chip.poll = PollTicks])
=============================================================================
