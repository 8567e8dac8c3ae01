---------------------------- MODULE LanceProofs ----------------------------
(***************************************************************************)
(* Theorems about Lance, for every ring size, buffer size and bound.  The  *)
(* lemmas follow LanceChip operator by operator: what each does to a       *)
(* machine state of the right type.  The last two parts are about          *)
(* LanceGlue: the count of interrupts that the boot self-test reads, and   *)
(* the frames that it gets back.                                           *)
(***************************************************************************)
EXTENDS LanceGlue, TLAPS, FiniteSetTheorems, SequenceTheorems, WellFoundedInduction
(* The walks over a descriptor chain end at the least index at which they   *)
(* stop; a non-empty set of natural numbers has one.                        *)
LEMMA LeastElement ==
  ASSUME NEW S \in SUBSET Nat, S # {}
  PROVE  \E m \in S : \A k \in S : m <= k
<1> DEFINE Below(m) == {k \in S : k < m}
           T == {Below(m) : m \in S}
<1>1. \A m \in S : Below(m) \in SUBSET Nat /\ IsFiniteSet(Below(m))
  <2>1. SUFFICES ASSUME NEW m \in S PROVE IsFiniteSet(Below(m))
    OBVIOUS
  <2>2. \A s \in Below(m) : s <= m
    OBVIOUS
  <2>3. Below(m) \in SUBSET Nat /\ m \in Nat
    OBVIOUS
  <2> HIDE DEF Below
  <2>4. QED BY <2>2, <2>3, FS_BoundedSetOfNaturals
<1>2. T \subseteq FiniteSubsetsOf(Nat) /\ T # {}
  BY <1>1 DEF FiniteSubsetsOf
<1>3. \E x \in T : \A y \in T : ~ (<<y, x>> \in StrictSubsetOrdering(Nat))
  <2> HIDE DEF T
  <2> QED BY <1>2, FS_StrictSubsetOrderingWellFounded, WFMin
<1>4. PICK m \in S : \A k \in S : ~ (<<Below(k), Below(m)>> \in StrictSubsetOrdering(Nat))
  BY <1>3
<1>5. ASSUME NEW k \in S, k < m PROVE FALSE
  <2>1. Below(k) \subseteq Below(m)
    <3>1. \A j \in S : j < k => j < m
      BY <1>5
    <3> QED BY <3>1
  <2>2. k \in Below(m) /\ k \notin Below(k)
    BY <1>5
  <2>3. Below(k) \in SUBSET Nat /\ Below(m) \in SUBSET Nat
    OBVIOUS
  <2> HIDE DEF Below
  <2> QED BY <2>1, <2>2, <2>3, <1>4, <1>5 DEF StrictSubsetOrdering
<1>6. QED BY <1>5

(* What CHOOSE makes of it: Least is the least element of its set.          *)
LEMMA LeastIsLeast ==
  ASSUME NEW S \in SUBSET Nat, S # {}
  PROVE  Least(S) \in S /\ \A k \in S : Least(S) <= k
BY LeastElement DEF Least

(* The position after (p + k) & mask lies in the ring.                      *)
LEMMA AdvInRing ==
  ASSUME NEW n \in Nat \ {0}, NEW p \in 0 .. n - 1, NEW k \in 0 .. n
  PROVE  Adv(p, k, n) \in 0 .. n - 1
BY DEF Adv

(* The transmit walk of lance_transmit ends inside the ring, on a           *)
(* descriptor where it stops, and nowhere before it.                        *)
LEMMA TxLastStops ==
  ASSUME NEW s
  PROVE  /\ TxLast(s) \in TxIdx
         /\ TxStops(s, TxLast(s))
         /\ \A k \in TxIdx : k < TxLast(s) => ~ TxStops(s, k)
<1> DEFINE S == {k \in TxIdx : TxStops(s, k)}
<1>1. TxLen - 1 \in TxIdx /\ TxIdx \subseteq Nat
  BY RingAssumption DEF TxIdx
<1>2. TxStops(s, TxLen - 1)
  BY DEF TxStops
<1>3. S \in SUBSET Nat /\ S # {}
  BY <1>1, <1>2
<1>4. TxLast(s) \in S /\ \A k \in S : TxLast(s) <= k
  <2> HIDE DEF S
  <2>1. Least(S) \in S /\ \A k \in S : Least(S) <= k
    BY <1>3, LeastIsLeast
  <2>2. TxLast(s) = Least(S)
    BY DEF TxLast, S
  <2> QED BY <2>1, <2>2
<1>5. \A k \in TxIdx : k < TxLast(s) => k \notin S
  <2> SUFFICES ASSUME NEW k \in TxIdx, k < TxLast(s), k \in S PROVE FALSE
    OBVIOUS
  <2>1. TxLast(s) <= k /\ k \in Nat /\ TxLast(s) \in Nat
    BY <1>1, <1>4
  <2> QED BY <2>1
<1> QED BY <1>4, <1>5

(* The same for the receive walk of lance_receive.                          *)
LEMMA RxLastStops ==
  ASSUME NEW s, NEW f
  PROVE  /\ RxLast(s, f) \in RxIdx
         /\ RxStops(s, f, RxLast(s, f))
         /\ \A k \in RxIdx : k < RxLast(s, f) => ~ RxStops(s, f, k)
<1> DEFINE S == {k \in RxIdx : RxStops(s, f, k)}
<1>1. RxLen - 1 \in RxIdx /\ RxIdx \subseteq Nat
  BY RingAssumption DEF RxIdx
<1>2. RxStops(s, f, RxLen - 1)
  BY DEF RxStops
<1>3. S \in SUBSET Nat /\ S # {}
  BY <1>1, <1>2
<1>4. RxLast(s, f) \in S /\ \A k \in S : RxLast(s, f) <= k
  <2> HIDE DEF S
  <2>1. Least(S) \in S /\ \A k \in S : Least(S) <= k
    BY <1>3, LeastIsLeast
  <2>2. RxLast(s, f) = Least(S)
    BY DEF RxLast, S
  <2> QED BY <2>1, <2>2
<1>5. \A k \in RxIdx : k < RxLast(s, f) => k \notin S
  <2> SUFFICES ASSUME NEW k \in RxIdx, k < RxLast(s, f), k \in S PROVE FALSE
    OBVIOUS
  <2>1. RxLast(s, f) <= k /\ k \in Nat /\ RxLast(s, f) \in Nat
    BY <1>1, <1>4
  <2> QED BY <2>1
<1> QED BY <1>4, <1>5
-----------------------------------------------------------------------------
(* The registers keep their shape.                                          *)
LEMMA ChipOpsType ==
  ASSUME NEW c \in ChipType
  PROVE  /\ UpdateInterrupts(c) \in ChipType
         /\ \A bits \in SUBSET Csr0Bits : Raise(c, bits) \in ChipType
         /\ \A bits \in SUBSET Csr0Bits : Lower(c, bits) \in ChipType
         /\ Reset(c) \in ChipType
         /\ Underrun(c) \in ChipType
         /\ TakeDemand(c) \in ChipType
         /\ \A block \in [mode: SUBSET ModeBits, ladrf: SUBSET Groups] :
              Initialize(c, block) \in ChipType
<1>1. \A d \in ChipType : UpdateInterrupts(d) \in ChipType
  BY DEF UpdateInterrupts, ChipType
<1>2. \A bits \in SUBSET Csr0Bits : Raise(c, bits) \in ChipType
  BY DEF Raise, ChipType
<1>3. \A bits \in SUBSET Csr0Bits : Lower(c, bits) \in ChipType
  BY DEF Lower, ChipType
<1>4. {"TXON"} \in SUBSET Csr0Bits /\ {"TDMD"} \in SUBSET Csr0Bits
      /\ {"STOP"} \in SUBSET Csr0Bits /\ {"IDON", "INTR"} \in SUBSET Csr0Bits
  BY DEF Csr0Bits, Acks, Causes, Faults
<1>5. Reset(c) \in ChipType
  <2> DEFINE d == [c EXCEPT !.csr0 = {"STOP"}, !.mode = {}, !.poll = PollTicks]
  <2>1. d \in ChipType
    <3>1. PollTicks \in 1 .. PollTicks /\ {} \in SUBSET ModeBits
      BY DEF PollTicks
    <3> QED BY <1>4, <3>1 DEF ChipType
  <2> HIDE DEF d
  <2>2. UpdateInterrupts(d) \in ChipType
    BY <1>1, <2>1
  <2> QED BY <2>2 DEF Reset, d
<1>6. Underrun(c) \in ChipType /\ TakeDemand(c) \in ChipType
  BY <1>3, <1>4 DEF Underrun, TakeDemand
<1>7. ASSUME NEW block \in [mode: SUBSET ModeBits, ladrf: SUBSET Groups]
      PROVE  Initialize(c, block) \in ChipType
  <2> DEFINE d == [c EXCEPT !.mode = block.mode, !.ladrf = block.ladrf, !.padr = TRUE,
                     !.txPos = 0, !.rxPos = 0,
                     !.csr0 = (@ \ {"INIT", "STOP", "STRT", "TXON", "RXON"})
                                \cup {"IDON", "INTR"}]
  <2>1. 0 \in TxIdx /\ 0 \in RxIdx
    BY RingAssumption DEF TxIdx, RxIdx
  <2>2. d \in ChipType
    BY <1>4, <2>1 DEF ChipType
  <2> QED BY <1>1, <2>2 DEF Initialize
<1> QED BY <1>1, <1>2, <1>3, <1>5, <1>6, <1>7

(* So does the machine when one part of it is replaced.                     *)
LEMMA MachineParts ==
  ASSUME NEW s \in MachineType
  PROVE  /\ s.chip \in ChipType /\ s.tx \in [TxIdx -> TxDesc]
         /\ s.rx \in [RxIdx -> RxDesc]
         /\ s.wire \in Seq(Frame) /\ s.taken \in Seq(Frame)
         /\ \A c \in ChipType : [s EXCEPT !.chip = c] \in MachineType
         /\ \A f \in Frame : [s EXCEPT !.wire = Append(@, f)] \in MachineType
<1>1. /\ s.chip \in ChipType /\ s.tx \in [TxIdx -> TxDesc]
      /\ s.rx \in [RxIdx -> RxDesc]
      /\ s.wire \in Seq(Frame) /\ s.taken \in Seq(Frame)
      /\ \A c \in ChipType : [s EXCEPT !.chip = c] \in MachineType
  BY DEF MachineType
<1>2. ASSUME NEW f \in Frame
      PROVE  [s EXCEPT !.wire = Append(@, f)] \in MachineType
  <2>1. Append(s.wire, f) \in Seq(Frame)
    BY <1>1
  <2> QED BY <2>1 DEF MachineType
<1> QED BY <1>1, <1>2

(* A filled receive descriptor is a receive descriptor.                     *)
LEMMA FillRxType ==
  ASSUME NEW d \in RxDesc, NEW f \in Frame, NEW k \in Nat, NEW last \in Nat,
         NEW whole \in BOOLEAN, NEW badFcs \in BOOLEAN
  PROVE  FillRx(d, f, k, last, whole, badFcs) \in RxDesc
<1>1. f.bytes \in Nat /\ (last + 1) * RxBytes \in Nat
  BY RingAssumption DEF Frame
<1>2. Smaller(f.bytes, (last + 1) * RxBytes) \in Nat
  BY <1>1 DEF Smaller
<1> QED BY <1>2 DEF FillRx, RxDesc

(* The offset of a ring index from the chip's position is an index too, and *)
(* is the number of steps that lead from the position to it.                *)
LEMMA Offsets ==
  ASSUME NEW c \in ChipType
  PROVE  /\ \A i \in RxIdx : RxOff(c, i) \in RxIdx /\ Adv(c.rxPos, RxOff(c, i), RxLen) = i
         /\ \A i \in TxIdx : TxOff(c, i) \in TxIdx /\ Adv(c.txPos, TxOff(c, i), TxLen) = i
<1>1. c.rxPos \in RxIdx /\ c.txPos \in TxIdx
  BY DEF ChipType
<1> QED BY <1>1, RingAssumption DEF RxOff, TxOff, RxIdx, TxIdx, Adv

(* Storing a frame, whole or cut short, keeps the machine well-formed.      *)
LEMMA StoreRxType ==
  ASSUME NEW s \in MachineType, NEW f \in Frame
  PROVE  StoreRx(s, f) \in MachineType
<1> DEFINE last   == RxLast(s, f)
           whole  == f.bytes <= (last + 1) * RxBytes
           badFcs == whole /\ ~ f.fcs /\ FcsChecked(s.chip)
           rx1 == [i \in RxIdx |->
                    IF RxOff(s.chip, i) <= last
                      THEN FillRx(s.rx[i], f, RxOff(s.chip, i), last, whole, badFcs)
                      ELSE s.rx[i]]
           chip1 == [s.chip EXCEPT !.rxPos = Adv(@, last + 1, RxLen),
                                   !.csr0 = @ \cup {"RINT", "INTR"}]
           taken1 == IF whole /\ ~ badFcs THEN Append(s.taken, f) ELSE s.taken
<1>1. last \in RxIdx /\ last \in Nat /\ last + 1 \in 0 .. RxLen
  BY RxLastStops, RingAssumption DEF RxIdx
<1>2. s.chip \in ChipType /\ s.rx \in [RxIdx -> RxDesc] /\ s.taken \in Seq(Frame)
  BY MachineParts
<1>3. whole \in BOOLEAN /\ badFcs \in BOOLEAN
  OBVIOUS
<1>4. rx1 \in [RxIdx -> RxDesc]
  <2> SUFFICES ASSUME NEW i \in RxIdx
               PROVE  FillRx(s.rx[i], f, RxOff(s.chip, i), last, whole, badFcs) \in RxDesc
                      /\ s.rx[i] \in RxDesc
    BY Zenon
  <2>1. RxOff(s.chip, i) \in Nat
    BY <1>2, Offsets DEF RxIdx
  <2>2. s.rx[i] \in RxDesc
    BY <1>2
  <2> HIDE DEF last, whole, badFcs
  <2> QED BY <1>1, <1>3, <2>1, <2>2, FillRxType
<1>5. chip1 \in ChipType
  <2>1. Adv(s.chip.rxPos, last + 1, RxLen) \in RxIdx
    BY <1>1, <1>2, AdvInRing, RingAssumption DEF ChipType, RxIdx
  <2>2. {"RINT", "INTR"} \in SUBSET Csr0Bits
    BY DEF Csr0Bits, Acks, Causes, Faults
  <2> QED BY <1>2, <2>1, <2>2 DEF ChipType
<1>6. taken1 \in Seq(Frame)
  BY <1>2
<1>7. StoreRx(s, f) = [s EXCEPT !.rx = rx1, !.taken = taken1, !.chip = chip1]
  BY DEF StoreRx, MachineType
<1> HIDE DEF rx1, chip1, taken1
<1> QED BY <1>4, <1>5, <1>6, <1>7 DEF MachineType

(* A frame that arrives leaves a well-formed machine, whether it is refused, *)
(* missed or stored.                                                        *)
LEMMA ReceiveType ==
  ASSUME NEW s \in MachineType, NEW f \in Frame
  PROVE  Receive(s, f) \in MachineType /\ Recv(s, f) \in MachineType
<1> DEFINE missed == UpdateInterrupts(Raise(s.chip, {"ERR", "MISS", "RINT", "INTR"}))
           t == StoreRx(s, f)
<1>1. missed \in ChipType
  <2>1. {"ERR", "MISS", "RINT", "INTR"} \in SUBSET Csr0Bits
    BY DEF Csr0Bits, Acks, Causes, Faults
  <2>2. Raise(s.chip, {"ERR", "MISS", "RINT", "INTR"}) \in ChipType
    BY <2>1, MachineParts, ChipOpsType
  <2> QED BY <2>2, ChipOpsType
<1>2. [s EXCEPT !.chip = missed] \in MachineType
  BY <1>1, MachineParts
<1>3. [t EXCEPT !.chip = UpdateInterrupts(t.chip)] \in MachineType
  <2>1. t \in MachineType
    BY StoreRxType
  <2>2. UpdateInterrupts(t.chip) \in ChipType
    BY <2>1, MachineParts, ChipOpsType
  <2> QED BY <2>1, <2>2, MachineParts
<1>4. Receive(s, f) \in {s, [s EXCEPT !.chip = missed],
                         [t EXCEPT !.chip = UpdateInterrupts(t.chip)]}
  BY DEF Receive
<1>5. Receive(s, f) \in MachineType
  BY <1>2, <1>3, <1>4
<1> QED BY <1>5 DEF Recv
-----------------------------------------------------------------------------
(* Releasing the descriptors of a transmit walk.                            *)
LEMMA ReleaseTxType ==
  ASSUME NEW s \in MachineType, NEW last \in TxIdx, NEW err \in BOOLEAN,
         NEW tmd3 \in SUBSET {"BUFF", "UFLO", "RTRY"}
  PROVE  /\ ReleaseTx(s, last, err, tmd3) \in MachineType
         /\ SendComplete(s, last, err, tmd3) \in MachineType
<1> DEFINE tx1 == [i \in TxIdx |->
             IF TxOff(s.chip, i) > last THEN s.tx[i]
             ELSE IF TxOff(s.chip, i) = last
               THEN [s.tx[i] EXCEPT !.own = FALSE, !.err = @ \/ err,
                                    !.tmd3 = IF tmd3 = {} THEN @ ELSE tmd3]
               ELSE [s.tx[i] EXCEPT !.own = FALSE]]
           chip1 == [s.chip EXCEPT !.txPos = Adv(@, last + 1, TxLen)]
           t == ReleaseTx(s, last, err, tmd3)
           reported == UpdateInterrupts(Raise(t.chip, {"TINT", "INTR"}))
           chip2 == [reported EXCEPT !.poll = 1]
<1>1. s.chip \in ChipType /\ s.tx \in [TxIdx -> TxDesc]
  BY MachineParts
<1>2. tx1 \in [TxIdx -> TxDesc]
  <2> SUFFICES ASSUME NEW i \in TxIdx
               PROVE  /\ s.tx[i] \in TxDesc
                      /\ [s.tx[i] EXCEPT !.own = FALSE] \in TxDesc
                      /\ [s.tx[i] EXCEPT !.own = FALSE, !.err = @ \/ err,
                            !.tmd3 = IF tmd3 = {} THEN @ ELSE tmd3] \in TxDesc
    BY Zenon
  <2>1. s.tx[i] \in TxDesc
    BY <1>1
  <2> QED BY <2>1 DEF TxDesc
<1>3. chip1 \in ChipType
  <2>1. Adv(s.chip.txPos, last + 1, TxLen) \in TxIdx
    <3>1. last + 1 \in 0 .. TxLen /\ s.chip.txPos \in 0 .. TxLen - 1
      BY <1>1, RingAssumption DEF ChipType, TxIdx
    <3> QED BY <3>1, AdvInRing, RingAssumption DEF TxIdx
  <2> QED BY <1>1, <2>1 DEF ChipType
<1>4. t = [s EXCEPT !.tx = tx1, !.chip = chip1]
  BY DEF ReleaseTx, MachineType
<1>5. t \in MachineType
  <2> HIDE DEF tx1, chip1, t
  <2> QED BY <1>2, <1>3, <1>4 DEF MachineType
<1>6. reported \in ChipType
  <2>1. {"TINT", "INTR"} \in SUBSET Csr0Bits
    BY DEF Csr0Bits, Acks, Causes, Faults
  <2> HIDE DEF t
  <2>2. t.chip \in ChipType
    BY <1>5, MachineParts
  <2>3. Raise(t.chip, {"TINT", "INTR"}) \in ChipType
    BY <2>1, <2>2, ChipOpsType
  <2> QED BY <2>3, ChipOpsType
<1>7. chip2 \in ChipType
  <2>1. 1 \in 1 .. PollTicks
    BY DEF PollTicks
  <2> HIDE DEF reported
  <2> QED BY <1>6, <2>1 DEF ChipType
<1>8. SendComplete(s, last, err, tmd3) = [t EXCEPT !.chip = chip2]
  BY DEF SendComplete
<1>9. [t EXCEPT !.chip = chip2] \in MachineType
  <2> HIDE DEF t, chip2
  <2> QED BY <1>5, <1>7, MachineParts
<1> QED BY <1>5, <1>8, <1>9

(* The frame a walk gathers is a frame.                                     *)
LEMMA TxFrameType ==
  ASSUME NEW s \in MachineType
  PROVE  /\ TxFrame(s) \in Frame
         /\ Underran(s) \in BOOLEAN
         /\ \A k \in TxIdx : TxAt(s, k) \in TxDesc
<1>1. TxLast(s) \in TxIdx /\ TxLast(s) \in Nat /\ TxLast(s) + 1 \in Nat
  BY TxLastStops DEF TxIdx
<1>2. ASSUME NEW k \in TxIdx PROVE TxAt(s, k) \in TxDesc
  <2>1. s.chip.txPos \in 0 .. TxLen - 1 /\ k \in 0 .. TxLen
    BY MachineParts, RingAssumption DEF ChipType, TxIdx
  <2>2. Adv(s.chip.txPos, k, TxLen) \in TxIdx
    BY <2>1, AdvInRing, RingAssumption DEF TxIdx
  <2> QED BY <2>2, MachineParts DEF TxAt
<1>3. [k \in 1 .. TxLast(s) + 1 |-> TxAt(s, k - 1).frag] \in Seq(Frag)
  <2>1. \A k \in 1 .. TxLast(s) + 1 : TxAt(s, k - 1).frag \in Frag
    <3> SUFFICES ASSUME NEW k \in 1 .. TxLast(s) + 1
                 PROVE  TxAt(s, k - 1).frag \in Frag
      OBVIOUS
    <3>1. k - 1 \in TxIdx
      BY <1>1, RingAssumption DEF TxIdx
    <3> QED BY <3>1, <1>2 DEF TxDesc
  <2> QED BY <1>1, <2>1, IsASeq
<1>4. TxBytes(s) \in Nat
  BY <1>1, RingAssumption DEF TxBytes
<1>5. TxFrame(s) \in Frame
  <2> DEFINE fcs == "DTCR" \notin s.chip.mode
             bytes == IF fcs THEN TxBytes(s) + 4 ELSE TxBytes(s)
  <2>1. bytes \in Nat /\ fcs \in BOOLEAN
    BY <1>4
  <2>2. TxFrame(s) = [own |-> TRUE,
                      frags |-> [k \in 1 .. TxLast(s) + 1 |-> TxAt(s, k - 1).frag],
                      bytes |-> bytes, fcs |-> fcs]
    BY DEF TxFrame
  <2> HIDE DEF bytes, fcs
  <2> QED BY <1>3, <2>1, <2>2 DEF Frame
<1>6. Underran(s) \in BOOLEAN
  BY <1>1 DEF Underran
<1> QED BY <1>2, <1>5, <1>6

(* Gathering and finishing a frame.                                         *)
LEMMA FinishType ==
  ASSUME NEW s \in MachineType
  PROVE  /\ Walked(s) \in MachineType
         /\ \A m \in MachineType, err \in BOOLEAN, tmd3 \in SUBSET {"RTRY"} :
              Finish(s, m, err, tmd3) \in MachineType
<1>1. Walked(s) \in MachineType
  <2> DEFINE c == IF Underran(s) THEN Underrun(s.chip) ELSE s.chip
             d == IF TxBytes(s) > 1518 THEN Raise(c, {"ERR", "BABL"}) ELSE c
  <2>1. {"ERR", "BABL"} \in SUBSET Csr0Bits
    BY DEF Csr0Bits, Acks, Causes, Faults
  <2>2. c \in ChipType
    BY MachineParts, ChipOpsType
  <2> HIDE DEF c
  <2>3. d \in ChipType
    BY <2>1, <2>2, ChipOpsType
  <2> HIDE DEF d
  <2>4. [s EXCEPT !.chip = d] \in MachineType
    BY <2>3, MachineParts
  <2> QED BY <2>4 DEF Walked, c, d
<1>2. ASSUME NEW m \in MachineType, NEW err \in BOOLEAN, NEW tmd3 \in SUBSET {"RTRY"}
      PROVE  Finish(s, m, err, tmd3) \in MachineType
  <2> DEFINE bits == (IF Underran(s) THEN {"UFLO", "BUFF"} ELSE {}) \cup tmd3
  <2>1. TxLast(s) \in TxIdx /\ (Underran(s) \/ err) \in BOOLEAN
    BY TxLastStops
  <2>2. bits \in SUBSET {"BUFF", "UFLO", "RTRY"}
    OBVIOUS
  <2> HIDE DEF bits
  <2>3. SendComplete(m, TxLast(s), Underran(s) \/ err, bits) \in MachineType
    BY <2>1, <2>2, ReleaseTxType
  <2> QED BY <2>3 DEF Finish, bits
<1> QED BY <1>1, <1>2

(* The outcomes of lance_transmit, as far as the machine is concerned.      *)
LEMMA TransmitOutcomes ==
  ASSUME NEW s
  PROVE  LET idle == Walked(s)
             sent == [idle EXCEPT !.wire = Append(@, TxFrame(s))]
         IN  /\ \/ Transmit(s).machine = ReleaseTx(s, TxLast(s), FALSE, {})
                \/ Transmit(s).machine = Finish(s, sent, FALSE, {})
                \/ Transmit(s).machine = Finish(s, idle, TRUE, {"RTRY"})
                \/ Transmit(s).machine = Finish(s, idle, TRUE, {})
                \/ Transmit(s).machine = Finish(s, idle, FALSE, {})
             /\ Transmit(s).loop \in {NoFrame, TxFrame(s)}
BY DEF Transmit

(* lance_transmit keeps the machine well-formed.                            *)
LEMMA TransmitType ==
  ASSUME NEW s \in MachineType
  PROVE  Transmit(s).machine \in MachineType /\ Transmit(s).loop \in Frame
<1> DEFINE idle == Walked(s)
           sent == [idle EXCEPT !.wire = Append(@, TxFrame(s))]
<1>1. idle \in MachineType
  BY FinishType
<1>2. sent \in MachineType
  <2> HIDE DEF idle
  <2> QED BY <1>1, TxFrameType, MachineParts
<1>3. ReleaseTx(s, TxLast(s), FALSE, {}) \in MachineType
  BY TxLastStops, ReleaseTxType
<1>4. \A m \in {idle, sent}, err \in BOOLEAN, tmd3 \in {{}, {"RTRY"}} :
        Finish(s, m, err, tmd3) \in MachineType
  <2> HIDE DEF idle, sent
  <2> QED BY <1>1, <1>2, FinishType
<1>5. Transmit(s).machine \in MachineType
  <2>1. \/ Transmit(s).machine = ReleaseTx(s, TxLast(s), FALSE, {})
        \/ Transmit(s).machine = Finish(s, sent, FALSE, {})
        \/ Transmit(s).machine = Finish(s, idle, TRUE, {"RTRY"})
        \/ Transmit(s).machine = Finish(s, idle, TRUE, {})
        \/ Transmit(s).machine = Finish(s, idle, FALSE, {})
    BY TransmitOutcomes, Zenon
  <2> HIDE DEF idle, sent
  <2> QED BY <1>3, <1>4, <2>1
<1>6. NoFrame \in Frame
  <2>1. <<>> \in Seq(Frag)
    OBVIOUS
  <2> QED BY <2>1 DEF NoFrame, Frame
<1>7. Transmit(s).loop \in Frame
  <2>1. Transmit(s).loop \in {NoFrame, TxFrame(s)}
    BY TransmitOutcomes, Zenon
  <2> QED BY <1>6, <2>1, TxFrameType
<1> QED BY <1>5, <1>7

(* So does a transmit poll, with the frame it may hand back to receive.     *)
LEMMA TransmitPollType ==
  ASSUME NEW s \in MachineType
  PROVE  TransmitPoll(s) \in MachineType
<1> DEFINE t == [s EXCEPT !.chip = TakeDemand(@)]
           r == Transmit(t)
<1>1. t \in MachineType
  <2>1. TakeDemand(s.chip) \in ChipType
    BY MachineParts, ChipOpsType
  <2> QED BY <2>1, MachineParts
<1>2. r.machine \in MachineType /\ r.loop \in Frame
  <2> HIDE DEF t
  <2> QED BY <1>1, TransmitType
<1>3. Receive(r.machine, r.loop) \in MachineType
  <2> HIDE DEF r
  <2> QED BY <1>2, ReceiveType
<1>4. ReleaseTx(t, 0, FALSE, {}) \in MachineType
  <2>1. 0 \in TxIdx
    BY RingAssumption DEF TxIdx
  <2> HIDE DEF t
  <2> QED BY <1>1, <2>1, ReleaseTxType
<1>5. TransmitPoll(s) \in {s, t, ReleaseTx(t, 0, FALSE, {}), r.machine,
                           Receive(r.machine, r.loop)}
  BY DEF TransmitPoll
<1> HIDE DEF t, r
<1> QED BY <1>1, <1>2, <1>3, <1>4, <1>5
-----------------------------------------------------------------------------
(* The parts of a CSR0 write keep the machine well-formed.                  *)
BlockType == [mode: SUBSET ModeBits, ladrf: SUBSET Groups]

LEMMA StartType ==
  ASSUME NEW s \in MachineType, NEW data \in SUBSET Csr0Bits
  PROVE  DoStrt(s, data) \in MachineType /\ DoTdmd(s, data) \in MachineType
<1> DEFINE strt == [s EXCEPT !.chip.csr0 = (@ \ {"STOP", "RXON", "TXON"})
                                \cup {"STRT"} \cup Enabled(s.chip.mode),
                             !.chip.poll = 1]
           tdmd == [s EXCEPT !.chip.csr0 = @ \cup {"TDMD"} \cup Implicit(s.chip),
                             !.chip.poll = 1]
<1>1. s.chip \in ChipType
  BY MachineParts
<1>2. Enabled(s.chip.mode) \in SUBSET Csr0Bits /\ {"STRT"} \in SUBSET Csr0Bits
      /\ {"TDMD"} \in SUBSET Csr0Bits /\ 1 \in 1 .. PollTicks
  BY DEF Enabled, Csr0Bits, PollTicks
<1>3. Implicit(s.chip) \in SUBSET Csr0Bits
  BY <1>2 DEF Implicit
<1>4. strt \in MachineType
  BY <1>1, <1>2, MachineParts DEF ChipType, MachineType
<1>5. tdmd \in MachineType
  BY <1>1, <1>2, <1>3, MachineParts DEF ChipType, MachineType
<1>6. TransmitPoll(strt) \in MachineType /\ TransmitPoll(tdmd) \in MachineType
  <2> HIDE DEF strt, tdmd
  <2> QED BY <1>4, <1>5, TransmitPollType
<1> QED BY <1>6 DEF DoStrt, DoTdmd

LEMMA WriteCsr0Type ==
  ASSUME NEW s \in MachineType, NEW data \in SUBSET Csr0Bits, NEW block \in BlockType
  PROVE  WriteCsr0(s, data, block) \in MachineType
<1> DEFINE s0 == [s EXCEPT !.chip = Reset(@)]
           s1 == [s EXCEPT !.chip = Lower(@, Acked(data))]
           s2 == DoInit(s1, data, block)
           s3 == DoStrt(s2, data)
           s4 == DoTdmd(s3, data)
<1>1. s0 \in MachineType
  BY MachineParts, ChipOpsType
<1>2. s1 \in MachineType
  <2>1. Acked(data) \in SUBSET Csr0Bits
    BY DEF Acked, Csr0Bits
  <2>2. Lower(s.chip, Acked(data)) \in ChipType
    BY <2>1, MachineParts, ChipOpsType
  <2> QED BY <2>2, MachineParts
<1>3. s2 \in MachineType
  <2> HIDE DEF s1
  <2>1. Initialize(s1.chip, block) \in ChipType
    BY <1>2, MachineParts, ChipOpsType DEF BlockType
  <2>2. [s1 EXCEPT !.chip = Initialize(@, block)] \in MachineType
    BY <1>2, <2>1, MachineParts
  <2> QED BY <1>2, <2>2 DEF DoInit
<1>4. s3 \in MachineType
  <2> HIDE DEF s2
  <2> QED BY <1>3, StartType
<1>5. s4 \in MachineType
  <2> HIDE DEF s3
  <2> QED BY <1>4, StartType
<1>6. Summarise(s4, data) \in MachineType
  <2> HIDE DEF s4
  <2> DEFINE kept == s4.chip.csr0 \ {"INEA", "ERR", "INTR"}
             csr0 == kept \cup (data \cap {"INEA"})
                       \cup (IF kept \cap Faults # {} THEN {"ERR"} ELSE {})
                       \cup (IF kept \cap Causes # {} THEN {"INTR"} ELSE {})
             c    == [s4.chip EXCEPT !.csr0 = csr0]
  <2>1. s4.chip \in ChipType
    BY <1>5, MachineParts
  <2>2. csr0 \in SUBSET Csr0Bits
    BY <2>1 DEF ChipType, Csr0Bits
  <2> HIDE DEF csr0
  <2>3. c \in ChipType
    BY <2>1, <2>2 DEF ChipType
  <2> HIDE DEF c
  <2>4. UpdateInterrupts(c) \in ChipType
    BY <2>3, ChipOpsType
  <2>5. [s4 EXCEPT !.chip = UpdateInterrupts(c)] \in MachineType
    BY <1>5, <2>4, MachineParts
  <2> QED BY <2>5 DEF Summarise, c, csr0
<1>7. WriteCsr0(s, data, block) \in {s, s0, Summarise(s4, data)}
  BY Zenon DEF WriteCsr0
<1> HIDE DEF s0, s4
<1> QED BY <1>1, <1>6, <1>7

(* The main loop's tick keeps the machine well-formed.                      *)
LEMMA TickChipType ==
  ASSUME NEW s \in MachineType
  PROVE  TickChip(s) \in MachineType
<1>1. s.chip \in ChipType
  BY MachineParts
<1>2. CASE s.chip.poll > 1
  <2>1. [s.chip EXCEPT !.poll = @ - 1] \in ChipType
    <3>1. s.chip.poll - 1 \in 1 .. PollTicks
      BY <1>1, <1>2 DEF ChipType, PollTicks
    <3> QED BY <1>1, <3>1 DEF ChipType
  <2>2. [s EXCEPT !.chip = [s.chip EXCEPT !.poll = @ - 1]] \in MachineType
    BY <2>1, MachineParts
  <2> QED BY <1>2, <2>2 DEF TickChip
<1>3. CASE ~ (s.chip.poll > 1)
  <2> DEFINE t == [s EXCEPT !.chip.poll = PollTicks]
  <2>1. [s.chip EXCEPT !.poll = PollTicks] \in ChipType
    BY <1>1 DEF ChipType, PollTicks
  <2>2. t \in MachineType
    BY <2>1 DEF MachineType
  <2> HIDE DEF t
  <2>3. TransmitPoll(t) \in MachineType
    BY <2>2, TransmitPollType
  <2> QED BY <1>3, <2>3 DEF TickChip, t
<1> QED BY <1>2, <1>3
-----------------------------------------------------------------------------
(* TypeOK, action by action.                                                *)
(* A handler of the chip reads a well-formed machine and leaves one.        *)
LEMMA BecomesType ==
  ASSUME NEW s \in MachineType, Becomes(s)
  PROVE  Machine' \in MachineType
<1>1. Machine' = [chip |-> s.chip, tx |-> s.tx, rx |-> s.rx,
                  wire |-> s.wire, taken |-> s.taken]
  BY DEF Machine, Becomes
<1> QED BY <1>1 DEF MachineType

(* Fresh descriptors are descriptors.                                       *)
LEMMA FreshType ==
  /\ NoFrame \in Frame
  /\ \A own \in BOOLEAN : EmptyRx(own) \in RxDesc
  /\ FreshTx \in [TxIdx -> TxDesc] /\ FreshRx \in [RxIdx -> RxDesc]
  /\ 0 \in TxIdx /\ 0 \in RxIdx
<1>1. NoFrag \in Frag /\ NoFrame \in Frame
  <2>1. <<>> \in Seq(Frag) /\ "other" \in Dst
    BY DEF Dst
  <2> QED BY <2>1 DEF NoFrag, NoFrame, Frag, Frame
<1>2. \A own \in BOOLEAN : EmptyRx(own) \in RxDesc
  BY <1>1 DEF EmptyRx, RxDesc
<1>3. FreshTx \in [TxIdx -> TxDesc]
  BY <1>1 DEF FreshTx, TxDesc
<1>4. FreshRx \in [RxIdx -> RxDesc]
  BY <1>2 DEF FreshRx
<1>5. 0 \in TxIdx /\ 0 \in RxIdx
  BY RingAssumption DEF TxIdx, RxIdx
<1> QED BY <1>1, <1>2, <1>3, <1>4, <1>5

LEMMA TypeInit == Init => TypeOK
<1> SUFFICES ASSUME Init PROVE TypeOK
  OBVIOUS
<1>1. chip \in ChipType
  <2>1. {"STOP"} \in SUBSET Csr0Bits /\ PollTicks \in 1 .. PollTicks
    BY DEF Csr0Bits, PollTicks
  <2> QED BY <2>1, FreshType DEF Init, ChipType
<1>2. rx \in [RxIdx -> RxDesc]
  <2>1. EmptyRx(FALSE) \in RxDesc
    BY FreshType
  <2> QED BY <2>1 DEF Init
<1>3. tx \in [TxIdx -> TxDesc] /\ wire \in Seq(Frame) /\ taken \in Seq(Frame)
  BY FreshType DEF Init
<1>4. Machine \in MachineType
  BY <1>1, <1>2, <1>3 DEF Machine, MachineType
<1>5. drv \in DrvType
  <2>1. 0 \in 0 .. MaxFrags /\ "other" \in Dst /\ <<>> \in Seq(Frame)
    BY EnvAssumption, RingAssumption DEF Dst
  <2>2. NoAsm \in [frame: Frame, next: Nat]
    BY FreshType DEF NoAsm
  <2> QED BY <2>1, <2>2, FreshType DEF Init, DrvType
<1> QED BY <1>4, <1>5 DEF Init, TypeOK

(* The driver's register writes.                                            *)
LEMMA Csr0WriteType ==
  ASSUME TypeOK, NEW data \in SUBSET Csr0Bits, Csr0Write(data)
  PROVE  Machine' \in MachineType
<1>1. Machine \in MachineType /\ drv.block \in BlockType
  BY DEF TypeOK, DrvType, BlockType
<1>2. WriteCsr0(Machine, data, drv.block) \in MachineType
  BY <1>1, WriteCsr0Type
<1> QED BY <1>2, BecomesType DEF Csr0Write

(* The actions that write a register.                                       *)
LEMMA TypeRegisters ==
  ASSUME TypeOK
  PROVE  /\ Stop => TypeOK'
         /\ \A data \in InitWords : WriteInit(data) => TypeOK'
         /\ \A data \in StartWords : WriteStart(data) => TypeOK'
         /\ Demand => TypeOK'
         /\ IsrAck => TypeOK'
<1> USE DEF TypeOK, DrvType
<1>1. ASSUME Stop PROVE TypeOK'
  <2>1. {"STOP"} \in SUBSET Csr0Bits /\ "other" \in Dst /\ 0 \in 0 .. MaxFrags
    BY EnvAssumption, RingAssumption DEF Csr0Bits, Dst
  <2>2. Machine' \in MachineType
    BY <1>1, <2>1, Csr0WriteType DEF Stop
  <2> QED BY <1>1, <2>1, <2>2 DEF Stop
<1>2. ASSUME NEW data \in InitWords, WriteInit(data) PROVE TypeOK'
  <2>1. data \in SUBSET Csr0Bits
    BY DEF InitWords, Csr0Bits
  <2>2. Machine' \in MachineType
    BY <1>2, <2>1, Csr0WriteType DEF WriteInit
  <2> QED BY <1>2, <2>2 DEF WriteInit
<1>3. ASSUME NEW data \in StartWords, WriteStart(data) PROVE TypeOK'
  <2>1. data \in SUBSET Csr0Bits
    BY DEF StartWords, Csr0Bits
  <2>2. Machine' \in MachineType
    BY <1>3, <2>1, Csr0WriteType DEF WriteStart
  <2> QED BY <1>3, <2>2 DEF WriteStart
<1>4. ASSUME Demand PROVE TypeOK'
  <2>1. {"TDMD", "INEA"} \in SUBSET Csr0Bits
    BY DEF Csr0Bits
  <2>2. Machine' \in MachineType
    BY <1>4, <2>1, Csr0WriteType DEF Demand
  <2> QED BY <1>4, <2>2 DEF Demand
<1>5. ASSUME IsrAck PROVE TypeOK'
  <2>1. drv.seen \cup {"INEA"} \in SUBSET Csr0Bits
    BY DEF Csr0Bits
  <2>2. Machine' \in MachineType
    BY <1>5, <2>1, Csr0WriteType DEF IsrAck
  <2> QED BY <1>5, <2>2 DEF IsrAck
<1> QED BY <1>1, <1>2, <1>3, <1>4, <1>5

(* The driver's stores and its interrupt routine.                           *)
LEMMA TypeStores ==
  ASSUME TypeOK
  PROVE  /\ \A block \in Block : MakeRings(block) => TypeOK'
         /\ \A n \in 1 .. MaxFrags, dst \in OwnDst : BeginFrame(n, dst) => TypeOK'
         /\ \A empty \in BOOLEAN : StoreTx(empty) => TypeOK'
<1>0. /\ Machine \in MachineType /\ drv \in DrvType /\ heard \in Nat
      /\ drv.done < drv.build \/ (drv.build = 0 /\ drv.done = 0)
      /\ chip \in ChipType /\ tx \in [TxIdx -> TxDesc] /\ rx \in [RxIdx -> RxDesc]
      /\ wire \in Seq(Frame) /\ taken \in Seq(Frame)
      /\ MaxFrags \in Nat /\ MaxFrags <= TxLen /\ TxLen \in Nat
  BY EnvAssumption, RingAssumption DEF TypeOK, Machine, MachineType
<1>1. ASSUME NEW block \in Block, MakeRings(block) PROVE TypeOK'
  <2>1. Machine' \in MachineType
    <3>1. tx' \in [TxIdx -> TxDesc] /\ rx' \in [RxIdx -> RxDesc]
          /\ taken' \in Seq(Frame) /\ chip' \in ChipType /\ wire' \in Seq(Frame)
      BY <1>0, <1>1, FreshType DEF MakeRings
    <3> QED BY <3>1 DEF Machine, MachineType
  <2>2. drv' \in DrvType
    <3>1. "other" \in Dst /\ 0 \in 0 .. MaxFrags /\ <<>> \in Seq(Frame)
      BY <1>0 DEF Dst
    <3>2. NoAsm \in [frame: Frame, next: Nat]
      BY FreshType DEF NoAsm
    <3>3. block \in [mode: SUBSET ModeBits, ladrf: SUBSET Groups]
      BY EnvAssumption DEF Block
    <3>4. drv.inits + 1 \in Nat
      BY <1>0 DEF DrvType
    <3> QED BY <1>0, <1>1, <3>1, <3>2, <3>3, <3>4, FreshType DEF MakeRings, DrvType
  <2>3. drv'.build = 0 /\ drv'.done = 0
    BY <1>0, <1>1 DEF MakeRings, DrvType
  <2> QED BY <1>0, <1>1, <2>1, <2>2, <2>3 DEF MakeRings, TypeOK
<1>2. ASSUME NEW n \in 1 .. MaxFrags, NEW dst \in OwnDst, BeginFrame(n, dst) PROVE TypeOK'
  <2>1. Machine' \in MachineType
    BY <1>0, <1>2 DEF BeginFrame, Machine
  <2>2. dst \in Dst /\ n \in 0 .. MaxFrags /\ 0 \in 0 .. MaxFrags /\ 0 < n
    BY <1>0, EnvAssumption
  <2>3. drv' \in DrvType
    <3>1. drv.queued + 1 \in Nat
      BY <1>0 DEF DrvType
    <3> QED BY <1>0, <1>2, <2>2, <3>1 DEF BeginFrame, DrvType
  <2>4. drv'.done < drv'.build
    BY <1>0, <1>2, <2>2 DEF BeginFrame, DrvType
  <2> QED BY <1>0, <1>2, <2>1, <2>3, <2>4 DEF BeginFrame, TypeOK
<1>3. ASSUME NEW empty \in BOOLEAN, StoreTx(empty) PROVE TypeOK'
  <2> DEFINE frag == [id |-> drv.queued, part |-> NextPart + 1, of |-> drv.build,
                      dst |-> drv.dst]
             d == [own |-> TRUE, stp |-> NextPart = 0, enp |-> NextPart = drv.build - 1,
                   empty |-> empty, err |-> FALSE, tmd3 |-> {}, frag |-> frag]
  <2>1. drv.build \in 1 .. MaxFrags /\ drv.done \in 0 .. drv.build - 1
    BY <1>0, <1>3 DEF StoreTx, DrvType
  <2>2. NextPart \in Nat
    <3>1. (drv.done + 1) % drv.build \in Nat
      BY <1>0, <2>1
    <3> QED BY <1>0, <2>1, <3>1 DEF NextPart
  <2>3. d \in TxDesc
    <3>1. frag \in Frag
      <4>1. drv.queued \in Nat /\ NextPart + 1 \in Nat /\ drv.build \in Nat /\ drv.dst \in Dst
        BY <1>0, <2>1, <2>2 DEF DrvType
      <4> QED BY <4>1 DEF Frag
    <3> HIDE DEF frag
    <3> QED BY <3>1 DEF TxDesc
  <2>4. Machine' \in MachineType
    <3>1. tx' = [tx EXCEPT ![Adv(drv.head, NextPart, TxLen)] = d]
      BY <1>3 DEF StoreTx
    <3>2. tx' \in [TxIdx -> TxDesc]
      <4> HIDE DEF d
      <4> QED BY <1>0, <2>3, <3>1
    <3> QED BY <1>0, <1>3, <3>2 DEF StoreTx, Machine, MachineType
  <2>5. Adv(drv.head, drv.build, TxLen) \in TxIdx
    <3>1. drv.head \in 0 .. TxLen - 1 /\ drv.build \in 0 .. TxLen
      BY <1>0, <2>1 DEF DrvType, TxIdx
    <3> QED BY <3>1, AdvInRing, RingAssumption DEF TxIdx
  <2>6. CASE drv.done + 1 = drv.build
    <3>1. drv' = [drv EXCEPT !.build = 0, !.done = 0, !.dst = "other",
                             !.head = Adv(@, drv.build, TxLen)]
      BY <1>3, <2>6 DEF StoreTx
    <3>2. "other" \in Dst /\ 0 \in 0 .. MaxFrags
      BY <1>0 DEF Dst
    <3>3. drv' \in DrvType /\ drv'.build = 0 /\ drv'.done = 0
      BY <1>0, <2>5, <3>1, <3>2 DEF DrvType
    <3> QED BY <1>0, <1>3, <2>4, <3>3 DEF StoreTx, TypeOK
  <2>7. CASE drv.done + 1 # drv.build
    <3>1. drv' = [drv EXCEPT !.done = @ + 1]
      BY <1>3, <2>7 DEF StoreTx
    <3>2. drv.done + 1 \in 0 .. MaxFrags /\ drv.done + 1 < drv.build
      BY <1>0, <2>1, <2>7
    <3>3. drv' \in DrvType /\ drv'.done < drv'.build
      BY <1>0, <3>1, <3>2 DEF DrvType
    <3> QED BY <1>0, <1>3, <2>4, <3>3 DEF StoreTx, TypeOK
  <2> QED BY <2>6, <2>7
<1> QED BY <1>1, <1>2, <1>3

LEMMA TypeIsr ==
  ASSUME TypeOK
  PROVE  /\ IsrRead => TypeOK'
         /\ IsrDrain => TypeOK'
         /\ IsrExit => TypeOK'
<1>0. /\ Machine \in MachineType /\ drv \in DrvType /\ heard \in Nat
      /\ drv.done < drv.build \/ (drv.build = 0 /\ drv.done = 0)
      /\ chip \in ChipType /\ tx \in [TxIdx -> TxDesc] /\ rx \in [RxIdx -> RxDesc]
      /\ wire \in Seq(Frame) /\ taken \in Seq(Frame)
  BY DEF TypeOK, Machine, MachineType
<1>1. ASSUME IsrRead PROVE TypeOK'
  <2>1. drv' \in DrvType /\ drv'.build = drv.build /\ drv'.done = drv.done
    BY <1>0, <1>1 DEF IsrRead, DrvType
  <2> QED BY <1>0, <1>1, <2>1 DEF IsrRead, TypeOK, Machine
<1>2. ASSUME IsrExit PROVE TypeOK'
  <2>1. drv' \in DrvType /\ drv'.build = drv.build /\ drv'.done = drv.done
    BY <1>0, <1>2 DEF IsrExit, DrvType
  <2> QED BY <1>0, <1>2, <2>1 DEF IsrExit, TypeOK, Machine
<1>3. ASSUME IsrDrain PROVE TypeOK'
  <2> DEFINE d     == rx[drv.rxHead]
             sofar == IF d.stp THEN NoAsm ELSE drv.asm
             joins == d.slice = sofar.next /\ (d.stp \/ d.frame = sofar.frame)
             f     == IF joins THEN d.frame ELSE NoFrame
             ends  == f # NoFrame /\ (d.slice + 1) * RxBytes >= f.bytes
             asm1  == IF d.enp \/ d.err THEN NoAsm ELSE [frame |-> f, next |-> d.slice + 1]
             got1  == IF d.enp /\ ~ d.err
                        THEN Append(drv.got, IF ends THEN f ELSE NoFrame)
                        ELSE drv.got
  <2>1. drv.rxHead \in RxIdx /\ d \in RxDesc /\ drv.got \in Seq(Frame)
    BY <1>0 DEF DrvType
  <2>2. d.frame \in Frame /\ d.slice + 1 \in Nat /\ NoFrame \in Frame
    BY <2>1, FreshType DEF RxDesc
  <2>3. f \in Frame
    BY <2>2
  <2>4. asm1 \in [frame: Frame, next: Nat]
    <3> HIDE DEF f
    <3>1. NoAsm \in [frame: Frame, next: Nat]
      BY FreshType DEF NoAsm
    <3> QED BY <2>2, <2>3, <3>1
  <2>5. got1 \in Seq(Frame)
    <3>1. (IF ends THEN f ELSE NoFrame) \in Frame
      <4> HIDE DEF f
      <4> QED BY <2>2, <2>3
    <3> HIDE DEF f
    <3> QED BY <2>1, <3>1
  <2>6. Adv(drv.rxHead, 1, RxLen) \in RxIdx
    <3>1. drv.rxHead \in 0 .. RxLen - 1 /\ 1 \in 0 .. RxLen
      BY <2>1, RingAssumption DEF RxIdx
    <3> QED BY <3>1, AdvInRing, RingAssumption DEF RxIdx
  <2>7. drv' = [drv EXCEPT !.rxHead = Adv(@, 1, RxLen), !.asm = asm1, !.got = got1]
    BY <1>3, Zenon DEF IsrDrain
  <2>8. drv' \in DrvType /\ drv'.build = drv.build /\ drv'.done = drv.done
    <3> HIDE DEF asm1, got1
    <3> QED BY <1>0, <2>4, <2>5, <2>6, <2>7 DEF DrvType
  <2>9. rx' \in [RxIdx -> RxDesc]
    <3>1. rx' = [rx EXCEPT ![drv.rxHead] = EmptyRx(TRUE)]
      BY <1>3 DEF IsrDrain
    <3>2. EmptyRx(TRUE) \in RxDesc
      BY FreshType
    <3> QED BY <1>0, <3>1, <3>2
  <2>10. Machine' \in MachineType
    BY <1>0, <1>3, <2>9 DEF IsrDrain, Machine, MachineType
  <2> QED BY <1>0, <1>3, <2>8, <2>10 DEF IsrDrain, TypeOK
<1> QED BY <1>1, <1>2, <1>3

(* A frame that comes from the host network is a frame.                     *)
LEMMA GlueFrameType ==
  ASSUME heard \in Nat, NEW len \in WireLens, NEW dst \in WireDst
  PROVE  GlueFrame(len, dst) \in Frame
<1> DEFINE frag == [id |-> heard + 1, part |-> 1, of |-> 1, dst |-> dst]
<1>1. len \in Nat /\ dst \in Dst
  BY EnvAssumption
<1>2. frag \in Frag
  BY <1>1 DEF Frag
<1> HIDE DEF frag
<1>3. <<frag>> \in Seq(Frag)
  BY <1>2
<1>4. (IF len + 4 <= 1600 THEN len + 4 ELSE len) \in Nat /\ (len + 4 <= 1600) \in BOOLEAN
  BY <1>1
<1>5. GlueFrame(len, dst) = [own |-> FALSE, frags |-> <<frag>>,
                             bytes |-> IF len + 4 <= 1600 THEN len + 4 ELSE len,
                             fcs |-> len + 4 <= 1600]
  BY DEF GlueFrame, frag
<1> QED BY <1>3, <1>4, <1>5 DEF Frame

(* The main loop: its tick, and a frame from the host network.              *)
LEMMA TypeLoop ==
  ASSUME TypeOK
  PROVE  /\ Tick => TypeOK'
         /\ \A len \in WireLens, dst \in WireDst : WireFrame(len, dst) => TypeOK'
<1>0. Machine \in MachineType /\ heard \in Nat
  BY DEF TypeOK
<1>1. ASSUME Tick PROVE TypeOK'
  <2>1. TickChip(Machine) \in MachineType
    BY <1>0, TickChipType
  <2>2. Machine' \in MachineType
    BY <1>1, <2>1, BecomesType DEF Tick
  <2> QED BY <1>1, <2>2 DEF Tick, TypeOK
<1>2. ASSUME NEW len \in WireLens, NEW dst \in WireDst, WireFrame(len, dst) PROVE TypeOK'
  <2>1. GlueFrame(len, dst) \in Frame
    BY <1>0, GlueFrameType
  <2>2. Recv(Machine, GlueFrame(len, dst)) \in MachineType
    BY <1>0, <2>1, ReceiveType
  <2>3. Machine' \in MachineType
    BY <1>2, <2>2, BecomesType DEF WireFrame
  <2>4. heard' \in Nat
    BY <1>0, <1>2 DEF WireFrame
  <2> QED BY <1>2, <2>3, <2>4 DEF WireFrame, TypeOK
<1> QED BY <1>1, <1>2

LEMMA TypeNext == TypeOK /\ [Next]_vars => TypeOK'
<1> SUFFICES ASSUME TypeOK, [Next]_vars PROVE TypeOK'
  OBVIOUS
<1>1. CASE Setup
  BY <1>1, TypeRegisters, TypeStores DEF Setup
<1>2. CASE Send
  BY <1>2, TypeRegisters, TypeStores DEF Send
<1>3. CASE Isr
  BY <1>3, TypeRegisters, TypeIsr DEF Isr
<1>4. CASE Tick
  BY <1>4, TypeLoop
<1>5. CASE Net
  BY <1>5, TypeLoop DEF Net
<1>6. CASE UNCHANGED vars
  BY <1>6 DEF vars, TypeOK, Machine
<1> QED BY <1>1, <1>2, <1>3, <1>4, <1>5, <1>6 DEF Next

(* TypeOK holds for every ring size, whatever lance_transmit and            *)
(* lance_receive walk over: the positions never leave the rings.            *)
THEOREM TypeCorrect == Spec => []TypeOK
<1>1. Init => TypeOK
  BY TypeInit
<1>2. TypeOK /\ [Next]_vars => TypeOK'
  BY TypeNext
<1> QED BY <1>1, <1>2, PTL DEF Spec
-----------------------------------------------------------------------------
(* What the handlers do to CSR0 and to the interrupt line.                  *)
LineFollows(c) == c.int <=> {"INEA", "INTR"} \subseteq c.csr0

LEMMA UpdateInterruptsEffect ==
  ASSUME NEW c \in ChipType
  PROVE  /\ UpdateInterrupts(c) \in ChipType
         /\ UpdateInterrupts(c).csr0 = c.csr0
         /\ LineFollows(UpdateInterrupts(c))
BY DEF UpdateInterrupts, ChipType, LineFollows

(* Receive leaves the chip alone, or reports a missed or a stored frame.    *)
Reports == {{"ERR", "MISS", "RINT", "INTR"}, {"RINT", "INTR"}}

LEMMA ReceiveEffect ==
  ASSUME NEW s \in MachineType, NEW f \in Frame
  PROVE  LET c == Receive(s, f).chip
         IN  \/ c = s.chip
             \/ LineFollows(c) /\ \E bits \in Reports : c.csr0 = s.chip.csr0 \cup bits
<1> DEFINE reported == Raise(s.chip, {"ERR", "MISS", "RINT", "INTR"})
           missed == UpdateInterrupts(reported)
           t == StoreRx(s, f)
<1>1. s.chip \in ChipType
  BY MachineParts
<1>2. LineFollows(missed) /\ missed.csr0 = s.chip.csr0 \cup {"ERR", "MISS", "RINT", "INTR"}
  <2>1. {"ERR", "MISS", "RINT", "INTR"} \in SUBSET Csr0Bits
    BY DEF Csr0Bits, Acks, Causes, Faults
  <2>2. reported \in ChipType
    BY <1>1, <2>1, ChipOpsType
  <2>3. reported.csr0 = s.chip.csr0 \cup {"ERR", "MISS", "RINT", "INTR"}
    BY <1>1 DEF Raise, ChipType
  <2> HIDE DEF reported
  <2> QED BY <2>2, <2>3, UpdateInterruptsEffect
<1>3. LineFollows(UpdateInterrupts(t.chip))
      /\ UpdateInterrupts(t.chip).csr0 = s.chip.csr0 \cup {"RINT", "INTR"}
  <2>1. t \in MachineType
    BY StoreRxType
  <2>2. t.chip \in ChipType
    BY <2>1, MachineParts
  <2>3. t.chip.csr0 = s.chip.csr0 \cup {"RINT", "INTR"}
    BY <1>1 DEF StoreRx, MachineType, ChipType
  <2> HIDE DEF t
  <2> QED BY <2>2, <2>3, UpdateInterruptsEffect
<1>4. \/ Receive(s, f) = s
      \/ Receive(s, f) = [s EXCEPT !.chip = missed]
      \/ Receive(s, f) = [t EXCEPT !.chip = UpdateInterrupts(t.chip)]
  BY DEF Receive
<1>5. [s EXCEPT !.chip = missed].chip = missed
  BY DEF MachineType
<1>6. [t EXCEPT !.chip = UpdateInterrupts(t.chip)].chip = UpdateInterrupts(t.chip)
  <2>1. t \in MachineType
    BY StoreRxType
  <2> HIDE DEF t
  <2> QED BY <2>1 DEF MachineType
<1> HIDE DEF missed, t
<1> QED BY <1>2, <1>3, <1>4, <1>5, <1>6 DEF Reports

(* Releasing descriptors touches no register but the position; completing a *)
(* frame reports it.                                                        *)
LEMMA SendCompleteEffect ==
  ASSUME NEW s \in MachineType
  PROVE  \A last \in TxIdx, err \in BOOLEAN, tmd3 \in SUBSET {"BUFF", "UFLO", "RTRY"} :
           /\ ReleaseTx(s, last, err, tmd3).chip.csr0 = s.chip.csr0
           /\ ReleaseTx(s, last, err, tmd3).chip.int = s.chip.int
           /\ SendComplete(s, last, err, tmd3).chip.csr0 = s.chip.csr0 \cup {"TINT", "INTR"}
           /\ LineFollows(SendComplete(s, last, err, tmd3).chip)
<1> TAKE last \in TxIdx, err \in BOOLEAN, tmd3 \in SUBSET {"BUFF", "UFLO", "RTRY"}
<1> DEFINE t == ReleaseTx(s, last, err, tmd3)
           reported == Raise(t.chip, {"TINT", "INTR"})
           c == UpdateInterrupts(reported)
<1>1. t \in MachineType /\ t.chip \in ChipType
  BY ReleaseTxType, MachineParts
<1>2. t.chip.csr0 = s.chip.csr0 /\ t.chip.int = s.chip.int
  BY DEF ReleaseTx, MachineType, ChipType
<1> HIDE DEF t
<1>3. reported \in ChipType /\ reported.csr0 = s.chip.csr0 \cup {"TINT", "INTR"}
  <2>1. {"TINT", "INTR"} \in SUBSET Csr0Bits
    BY DEF Csr0Bits, Acks, Causes, Faults
  <2>2. reported \in ChipType
    BY <1>1, <2>1, ChipOpsType
  <2> QED BY <1>1, <1>2, <2>2 DEF Raise, ChipType
<1> HIDE DEF reported
<1>4. c \in ChipType /\ c.csr0 = s.chip.csr0 \cup {"TINT", "INTR"} /\ LineFollows(c)
  BY <1>3, UpdateInterruptsEffect
<1> HIDE DEF c
<1>5. SendComplete(s, last, err, tmd3) = [t EXCEPT !.chip = [c EXCEPT !.poll = 1]]
  BY DEF SendComplete, t, c, reported
<1>6. SendComplete(s, last, err, tmd3).chip = [c EXCEPT !.poll = 1]
  BY <1>1, <1>5 DEF MachineType
<1>7. [c EXCEPT !.poll = 1].csr0 = c.csr0 /\ LineFollows([c EXCEPT !.poll = 1])
  BY <1>4 DEF ChipType, LineFollows
<1> QED BY <1>2, <1>4, <1>6, <1>7 DEF t

(* lance_transmit drops the frame without a word, or reports it, and may    *)
(* turn the transmitter off or report a babble on the way.                  *)
LEMMA TransmitEffect ==
  ASSUME NEW s \in MachineType
  PROVE  LET c == Transmit(s).machine.chip
         IN  \/ c.csr0 = s.chip.csr0 /\ c.int = s.chip.int
             \/ LineFollows(c) /\ \E off \in {{}, {"TXON"}}, babble \in {{}, {"ERR", "BABL"}} :
                  c.csr0 = (s.chip.csr0 \ off) \cup babble \cup {"TINT", "INTR"}
<1> DEFINE idle == Walked(s)
           sent == [idle EXCEPT !.wire = Append(@, TxFrame(s))]
<1>1. idle \in MachineType
  BY FinishType
<1>2. \E off \in {{}, {"TXON"}}, babble \in {{}, {"ERR", "BABL"}} :
        idle.chip.csr0 = (s.chip.csr0 \ off) \cup babble
  BY MachineParts DEF Walked, Underrun, Raise, Lower, MachineType, ChipType
<1>3. sent \in MachineType /\ sent.chip = idle.chip
  <2> HIDE DEF idle
  <2>1. sent \in MachineType
    BY <1>1, TxFrameType, MachineParts
  <2> QED BY <1>1, <2>1 DEF MachineType
<1>4. ASSUME NEW m \in {idle, sent}, NEW err \in BOOLEAN, NEW tmd3 \in {{}, {"RTRY"}}
      PROVE  LineFollows(Finish(s, m, err, tmd3).chip)
             /\ Finish(s, m, err, tmd3).chip.csr0 = idle.chip.csr0 \cup {"TINT", "INTR"}
  <2> HIDE DEF idle, sent
  <2> DEFINE bits == (IF Underran(s) THEN {"UFLO", "BUFF"} ELSE {}) \cup tmd3
  <2>1. m \in MachineType /\ m.chip = idle.chip
    BY <1>1, <1>3
  <2>2. TxLast(s) \in TxIdx /\ (Underran(s) \/ err) \in BOOLEAN
    BY TxLastStops
  <2>3. bits \in SUBSET {"BUFF", "UFLO", "RTRY"}
    OBVIOUS
  <2>4. Finish(s, m, err, tmd3) = SendComplete(m, TxLast(s), Underran(s) \/ err, bits)
    BY DEF Finish
  <2> HIDE DEF bits
  <2>5. /\ LineFollows(SendComplete(m, TxLast(s), Underran(s) \/ err, bits).chip)
        /\ SendComplete(m, TxLast(s), Underran(s) \/ err, bits).chip.csr0
             = m.chip.csr0 \cup {"TINT", "INTR"}
    <3>1. \A l \in TxIdx, e \in BOOLEAN, b \in SUBSET {"BUFF", "UFLO", "RTRY"} :
            /\ SendComplete(m, l, e, b).chip.csr0 = m.chip.csr0 \cup {"TINT", "INTR"}
            /\ LineFollows(SendComplete(m, l, e, b).chip)
      BY <2>1, SendCompleteEffect
    <3> QED BY <2>2, <2>3, <3>1, Zenon
  <2> QED BY <2>1, <2>4, <2>5
<1>5. ReleaseTx(s, TxLast(s), FALSE, {}).chip.csr0 = s.chip.csr0
      /\ ReleaseTx(s, TxLast(s), FALSE, {}).chip.int = s.chip.int
  <2>1. FALSE \in BOOLEAN /\ {} \in SUBSET {"BUFF", "UFLO", "RTRY"}
    OBVIOUS
  <2>2. TxLast(s) \in TxIdx
    BY TxLastStops
  <2>3. \A l \in TxIdx, e \in BOOLEAN, b \in SUBSET {"BUFF", "UFLO", "RTRY"} :
          ReleaseTx(s, l, e, b).chip.csr0 = s.chip.csr0
          /\ ReleaseTx(s, l, e, b).chip.int = s.chip.int
    BY SendCompleteEffect
  <2> QED BY <2>1, <2>2, <2>3, Zenon
<1>6. \/ Transmit(s).machine = ReleaseTx(s, TxLast(s), FALSE, {})
      \/ \E m \in {idle, sent}, err \in BOOLEAN, tmd3 \in {{}, {"RTRY"}} :
           Transmit(s).machine = Finish(s, m, err, tmd3)
  <2>1. \/ Transmit(s).machine = ReleaseTx(s, TxLast(s), FALSE, {})
        \/ Transmit(s).machine = Finish(s, sent, FALSE, {})
        \/ Transmit(s).machine = Finish(s, idle, TRUE, {"RTRY"})
        \/ Transmit(s).machine = Finish(s, idle, TRUE, {})
        \/ Transmit(s).machine = Finish(s, idle, FALSE, {})
    BY TransmitOutcomes, Zenon
  <2> HIDE DEF idle, sent
  <2> QED BY <2>1
<1>7. CASE Transmit(s).machine = ReleaseTx(s, TxLast(s), FALSE, {})
  BY <1>5, <1>7
<1>8. CASE \E m \in {idle, sent}, err \in BOOLEAN, tmd3 \in {{}, {"RTRY"}} :
             Transmit(s).machine = Finish(s, m, err, tmd3)
  <2> HIDE DEF idle, sent
  <2>1. LineFollows(Transmit(s).machine.chip)
        /\ Transmit(s).machine.chip.csr0 = idle.chip.csr0 \cup {"TINT", "INTR"}
    BY <1>4, <1>8
  <2> QED BY <1>2, <2>1
<1> QED BY <1>6, <1>7, <1>8
-----------------------------------------------------------------------------
(* StatusAgrees and DemandServed, handler by handler.                       *)
Served(c) == "TDMD" \in c.csr0 => "TXON" \notin c.csr0

LEMMA ReceiveAgrees ==
  ASSUME NEW s \in MachineType, NEW f \in Frame
  PROVE  /\ SummaryAgrees(s.chip) => SummaryAgrees(Receive(s, f).chip)
         /\ Served(s.chip) => Served(Receive(s, f).chip)
<1> DEFINE c == Receive(s, f).chip
<1>1. CASE c = s.chip
  BY <1>1
<1>2. CASE LineFollows(c) /\ \E bits \in Reports : c.csr0 = s.chip.csr0 \cup bits
  <2> HIDE DEF c
  <2>1. SummaryAgrees(s.chip) => SummaryAgrees(c)
    BY <1>2 DEF SummaryAgrees, LineFollows, Reports, Causes, Faults
  <2>2. Served(s.chip) => Served(c)
    BY <1>2 DEF Served, Reports
  <2> QED BY <2>1, <2>2 DEF c
<1> QED BY <1>1, <1>2, ReceiveEffect

(* After a poll with the transmitter on, the demand is gone.                *)
LEMMA TransmitPollAgrees ==
  ASSUME NEW s \in MachineType
  PROVE  /\ SummaryAgrees(s.chip) => SummaryAgrees(TransmitPoll(s).chip)
         /\ Served(TransmitPoll(s).chip)
<1> DEFINE t == [s EXCEPT !.chip = TakeDemand(@)]
           r == Transmit(t)
<1>1. t \in MachineType
  <2>1. TakeDemand(s.chip) \in ChipType
    BY MachineParts, ChipOpsType
  <2> QED BY <2>1, MachineParts
<1>2. t.chip.csr0 = s.chip.csr0 \ {"TDMD"} /\ t.chip.int = s.chip.int
  BY DEF TakeDemand, Lower, MachineType, ChipType
<1>3. (SummaryAgrees(s.chip) => SummaryAgrees(t.chip)) /\ "TDMD" \notin t.chip.csr0
  <2> HIDE DEF t
  <2> QED BY <1>2 DEF SummaryAgrees, Causes, Faults
<1>4. ReleaseTx(t, 0, FALSE, {}).chip.csr0 = t.chip.csr0
      /\ ReleaseTx(t, 0, FALSE, {}).chip.int = t.chip.int
  <2> HIDE DEF t
  <2>1. 0 \in TxIdx /\ FALSE \in BOOLEAN /\ {} \in SUBSET {"BUFF", "UFLO", "RTRY"}
    BY RingAssumption DEF TxIdx
  <2>2. \A l \in TxIdx, e \in BOOLEAN, b \in SUBSET {"BUFF", "UFLO", "RTRY"} :
          ReleaseTx(t, l, e, b).chip.csr0 = t.chip.csr0
          /\ ReleaseTx(t, l, e, b).chip.int = t.chip.int
    BY <1>1, SendCompleteEffect
  <2> QED BY <2>1, <2>2, Zenon
<1>5. r.machine \in MachineType /\ r.loop \in Frame
  <2> HIDE DEF t
  <2> QED BY <1>1, TransmitType
<1>6. /\ SummaryAgrees(t.chip) => SummaryAgrees(r.machine.chip)
      /\ "TDMD" \notin t.chip.csr0 => "TDMD" \notin r.machine.chip.csr0
  <2> HIDE DEF t
  <2> DEFINE c == r.machine.chip
  <2>1. CASE c.csr0 = t.chip.csr0 /\ c.int = t.chip.int
    <3> HIDE DEF r
    <3> QED BY <2>1 DEF SummaryAgrees
  <2>2. CASE LineFollows(c) /\ \E off \in {{}, {"TXON"}}, babble \in {{}, {"ERR", "BABL"}} :
               c.csr0 = (t.chip.csr0 \ off) \cup babble \cup {"TINT", "INTR"}
    <3> HIDE DEF c
    <3> QED BY <2>2 DEF SummaryAgrees, LineFollows, Causes, Faults, c
  <2> QED BY <1>1, <2>1, <2>2, TransmitEffect
<1>7. /\ SummaryAgrees(r.machine.chip) => SummaryAgrees(Receive(r.machine, r.loop).chip)
      /\ "TDMD" \notin r.machine.chip.csr0 => "TDMD" \notin Receive(r.machine, r.loop).chip.csr0
  <2> HIDE DEF r
  <2>1. SummaryAgrees(r.machine.chip) => SummaryAgrees(Receive(r.machine, r.loop).chip)
    BY <1>5, ReceiveAgrees
  <2>2. \/ Receive(r.machine, r.loop).chip = r.machine.chip
        \/ \E bits \in Reports :
             Receive(r.machine, r.loop).chip.csr0 = r.machine.chip.csr0 \cup bits
    BY <1>5, ReceiveEffect
  <2> QED BY <2>1, <2>2 DEF Reports
<1>8. \/ TransmitPoll(s) = s /\ "TXON" \notin s.chip.csr0
      \/ TransmitPoll(s) = t
      \/ TransmitPoll(s) = ReleaseTx(t, 0, FALSE, {})
      \/ TransmitPoll(s) = r.machine
      \/ TransmitPoll(s) = Receive(r.machine, r.loop)
  BY Zenon DEF TransmitPoll
<1> HIDE DEF t, r
<1>9. SummaryAgrees(ReleaseTx(t, 0, FALSE, {}).chip) <=> SummaryAgrees(t.chip)
  BY <1>4 DEF SummaryAgrees
<1> QED BY <1>3, <1>4, <1>6, <1>7, <1>8, <1>9 DEF Served

(* A CSR0 write always leaves the summary bits and the line in agreement.   *)
LEMMA WriteCsr0Agrees ==
  ASSUME NEW s \in MachineType, NEW data \in SUBSET Csr0Bits, NEW block \in BlockType
  PROVE  /\ SummaryAgrees(s.chip) => SummaryAgrees(WriteCsr0(s, data, block).chip)
         /\ Served(s.chip) => Served(WriteCsr0(s, data, block).chip)
<1> DEFINE s0 == [s EXCEPT !.chip = Reset(@)]
           s1 == [s EXCEPT !.chip = Lower(@, Acked(data))]
           s2 == DoInit(s1, data, block)
           s3 == DoStrt(s2, data)
           s4 == DoTdmd(s3, data)
<1>0. s.chip \in ChipType
  BY MachineParts
<1>1. SummaryAgrees(s0.chip) /\ Served(s0.chip)
  <2> DEFINE d == [s.chip EXCEPT !.csr0 = {"STOP"}, !.mode = {}, !.poll = PollTicks]
  <2>1. d \in ChipType /\ d.csr0 = {"STOP"}
    <3>1. {"STOP"} \in SUBSET Csr0Bits /\ PollTicks \in 1 .. PollTicks
      BY DEF Csr0Bits, PollTicks
    <3> QED BY <1>0, <3>1 DEF ChipType
  <2> HIDE DEF d
  <2>2. s0.chip = UpdateInterrupts(d)
    BY DEF Reset, MachineType, d
  <2>3. s0.chip.csr0 = {"STOP"} /\ LineFollows(s0.chip)
    BY <2>1, <2>2, UpdateInterruptsEffect
  <2> QED BY <2>3 DEF SummaryAgrees, LineFollows, Served, Causes, Faults
<1>2. s1 \in MachineType /\ (Served(s.chip) => Served(s1.chip))
  <2>1. Acked(data) \in SUBSET Csr0Bits
    BY DEF Acked, Csr0Bits
  <2>2. Lower(s.chip, Acked(data)) \in ChipType
    BY <1>0, <2>1, ChipOpsType
  <2>3. s1.chip.csr0 = s.chip.csr0 \ Acked(data)
    BY <1>0 DEF Lower, MachineType, ChipType
  <2>4. s1 \in MachineType
    BY <2>2, MachineParts
  <2> QED BY <2>3, <2>4 DEF Served, Acked, Acks, Causes, Faults
<1>3. s2 \in MachineType /\ (Served(s1.chip) => Served(s2.chip))
  <2> HIDE DEF s1
  <2>1. CASE s2 = s1
    BY <1>2, <2>1
  <2>2. CASE s2 = [s1 EXCEPT !.chip = Initialize(@, block)]
    <3> HIDE DEF s2
    <3>1. s1.chip \in ChipType
      BY <1>2, MachineParts
    <3>2. Initialize(s1.chip, block) \in ChipType
      BY <3>1, ChipOpsType DEF BlockType
    <3>3. s2 \in MachineType
      BY <1>2, <2>2, <3>2, MachineParts
    <3>4. "TXON" \notin s2.chip.csr0
      BY <1>2, <2>2, <3>1 DEF Initialize, UpdateInterrupts, MachineType, ChipType
    <3> QED BY <3>3, <3>4 DEF Served
  <2> QED BY <2>1, <2>2 DEF DoInit
<1>4. s3 \in MachineType /\ (Served(s2.chip) => Served(s3.chip))
  <2> HIDE DEF s2
  <2> DEFINE strt == [s2 EXCEPT !.chip.csr0 = (@ \ {"STOP", "RXON", "TXON"})
                                   \cup {"STRT"} \cup Enabled(s2.chip.mode),
                                !.chip.poll = 1]
  <2>1. s3 \in MachineType
    BY <1>3, StartType
  <2>2. strt \in MachineType
    <3>1. Enabled(s2.chip.mode) \in SUBSET Csr0Bits /\ 1 \in 1 .. PollTicks
          /\ {"STRT"} \in SUBSET Csr0Bits
      BY DEF Enabled, Csr0Bits, PollTicks
    <3> QED BY <1>3, <3>1, MachineParts DEF MachineType, ChipType
  <2>3. s3 \in {s2, TransmitPoll(strt)}
    BY DEF DoStrt
  <2> HIDE DEF strt, s3
  <2> QED BY <2>1, <2>2, <2>3, TransmitPollAgrees
<1>5. s4 \in MachineType /\ (Served(s3.chip) => Served(s4.chip))
  <2> HIDE DEF s3
  <2> DEFINE tdmd == [s3 EXCEPT !.chip.csr0 = @ \cup {"TDMD"} \cup Implicit(s3.chip),
                                !.chip.poll = 1]
  <2>1. s4 \in MachineType
    BY <1>4, StartType
  <2>2. tdmd \in MachineType
    <3>1. Implicit(s3.chip) \in SUBSET Csr0Bits /\ 1 \in 1 .. PollTicks
          /\ {"TDMD"} \in SUBSET Csr0Bits
      BY DEF Implicit, Enabled, Csr0Bits, PollTicks
    <3> QED BY <1>4, <3>1, MachineParts DEF MachineType, ChipType
  <2>3. s4 \in {s3, TransmitPoll(tdmd)}
    BY DEF DoTdmd
  <2> HIDE DEF tdmd, s4
  <2> QED BY <2>1, <2>2, <2>3, TransmitPollAgrees
<1> HIDE DEF s4
<1>6. SummaryAgrees(Summarise(s4, data).chip)
      /\ (Served(s4.chip) => Served(Summarise(s4, data).chip))
  <2> DEFINE kept == s4.chip.csr0 \ {"INEA", "ERR", "INTR"}
             csr0 == kept \cup (data \cap {"INEA"})
                       \cup (IF kept \cap Faults # {} THEN {"ERR"} ELSE {})
                       \cup (IF kept \cap Causes # {} THEN {"INTR"} ELSE {})
             c    == [s4.chip EXCEPT !.csr0 = csr0]
  <2>1. s4.chip \in ChipType
    BY <1>5, MachineParts
  <2>2. csr0 \in SUBSET Csr0Bits
    BY <2>1 DEF ChipType, Csr0Bits
  <2>3. c \in ChipType /\ c.csr0 = csr0
    <3> HIDE DEF csr0
    <3> QED BY <2>1, <2>2 DEF ChipType
  <2>4. Summarise(s4, data).chip = UpdateInterrupts(c)
    BY <1>5 DEF Summarise, MachineType
  <2>5. Summarise(s4, data).chip.csr0 = csr0 /\ LineFollows(Summarise(s4, data).chip)
    <3> HIDE DEF c, csr0
    <3> QED BY <2>3, <2>4, UpdateInterruptsEffect
  <2>6. "INTR" \in csr0 <=> csr0 \cap Causes # {}
    BY DEF Causes
  <2>7. "ERR" \in csr0 <=> csr0 \cap Faults # {}
    BY DEF Faults
  <2>8. Served(s4.chip) => ("TDMD" \in csr0 => "TXON" \notin csr0)
    BY DEF Served
  <2> HIDE DEF csr0
  <2> QED BY <2>5, <2>6, <2>7, <2>8 DEF SummaryAgrees, LineFollows, Served
<1>7. \/ WriteCsr0(s, data, block) = s
      \/ WriteCsr0(s, data, block) = s0
      \/ WriteCsr0(s, data, block) = Summarise(s4, data)
  BY Zenon DEF WriteCsr0, s4
<1> HIDE DEF s0, s1, s2, s3
<1> QED BY <1>1, <1>2, <1>3, <1>4, <1>5, <1>6, <1>7

LEMMA TickChipAgrees ==
  ASSUME NEW s \in MachineType
  PROVE  /\ SummaryAgrees(s.chip) => SummaryAgrees(TickChip(s).chip)
         /\ Served(s.chip) => Served(TickChip(s).chip)
<1>1. s.chip \in ChipType
  BY MachineParts
<1>2. CASE s.chip.poll > 1
  <2>1. TickChip(s).chip.csr0 = s.chip.csr0 /\ TickChip(s).chip.int = s.chip.int
    BY <1>2 DEF TickChip, MachineType, ChipType
  <2> QED BY <2>1 DEF SummaryAgrees, Served
<1>3. CASE ~ (s.chip.poll > 1)
  <2> DEFINE t == [s EXCEPT !.chip.poll = PollTicks]
  <2>1. t \in MachineType
    <3>1. [s.chip EXCEPT !.poll = PollTicks] \in ChipType
      BY <1>1 DEF ChipType, PollTicks
    <3> QED BY <3>1, MachineParts
  <2>2. t.chip.csr0 = s.chip.csr0 /\ t.chip.int = s.chip.int
    BY <1>1 DEF ChipType, MachineType
  <2>3. TickChip(s) = TransmitPoll(t)
    BY <1>3 DEF TickChip
  <2> HIDE DEF t
  <2>4. SummaryAgrees(s.chip) => SummaryAgrees(t.chip)
    BY <2>2 DEF SummaryAgrees
  <2> QED BY <2>1, <2>3, <2>4, TransmitPollAgrees
<1> QED BY <1>2, <1>3

(* Every action that runs a handler, and the rest, which leave the chip     *)
(* alone.                                                                   *)
LEMMA AgreesNext ==
  ASSUME TypeOK, [Next]_vars
  PROVE  /\ SummaryAgrees(chip) => SummaryAgrees(chip')
         /\ Served(chip) => Served(chip')
<1> DEFINE Keeps(c) == /\ SummaryAgrees(chip) => SummaryAgrees(c)
                       /\ Served(chip) => Served(c)
<1>0. Machine \in MachineType /\ Machine.chip = chip
  BY DEF TypeOK, Machine
<1>1. ASSUME NEW data \in SUBSET Csr0Bits, Csr0Write(data) PROVE Keeps(chip')
  <2>1. drv.block \in BlockType
    BY DEF TypeOK, DrvType, BlockType
  <2>2. chip' = WriteCsr0(Machine, data, drv.block).chip
    BY <1>1 DEF Csr0Write, Becomes
  <2> QED BY <1>0, <2>1, <2>2, WriteCsr0Agrees
<1>2. ASSUME Tick PROVE Keeps(chip')
  <2>1. chip' = TickChip(Machine).chip
    BY <1>2 DEF Tick, Becomes
  <2> QED BY <1>0, <2>1, TickChipAgrees
<1>3. ASSUME NEW len \in WireLens, NEW dst \in WireDst, WireFrame(len, dst) PROVE Keeps(chip')
  <2>1. GlueFrame(len, dst) \in Frame
    BY GlueFrameType DEF TypeOK
  <2>2. chip' = Recv(Machine, GlueFrame(len, dst)).chip
    BY <1>3 DEF WireFrame, Becomes
  <2>3. Recv(Machine, GlueFrame(len, dst)) \in {Machine, Receive(Machine, GlueFrame(len, dst))}
    BY DEF Recv
  <2>4. CASE Recv(Machine, GlueFrame(len, dst)) = Machine
    BY <1>0, <2>2, <2>4
  <2>5. CASE Recv(Machine, GlueFrame(len, dst)) = Receive(Machine, GlueFrame(len, dst))
    BY <1>0, <2>1, <2>2, <2>5, ReceiveAgrees
  <2> QED BY <2>3, <2>4, <2>5
<1>4. CASE chip' = chip
  BY <1>4
<1>5. \/ \E data \in SUBSET Csr0Bits : Csr0Write(data)
      \/ Tick
      \/ \E len \in WireLens, dst \in WireDst : WireFrame(len, dst)
      \/ chip' = chip
  <2>1. CASE Setup
    <3>1. {"STOP"} \in SUBSET Csr0Bits /\ InitWords \subseteq SUBSET Csr0Bits
          /\ StartWords \subseteq SUBSET Csr0Bits
      BY DEF Csr0Bits, InitWords, StartWords
    <3> QED BY <2>1, <3>1 DEF Setup, Stop, MakeRings, WriteInit, WriteStart
  <2>2. CASE Send
    <3>1. {"TDMD", "INEA"} \in SUBSET Csr0Bits
      BY DEF Csr0Bits
    <3> QED BY <2>2, <3>1 DEF Send, Demand, BeginFrame, StoreTx
  <2>3. CASE Isr
    <3>1. drv.seen \cup {"INEA"} \in SUBSET Csr0Bits
      BY DEF TypeOK, DrvType, Csr0Bits
    <3> QED BY <2>3, <3>1 DEF Isr, IsrRead, IsrAck, IsrDrain, IsrExit
  <2>4. CASE Tick
    BY <2>4
  <2>5. CASE Net
    BY <2>5 DEF Net
  <2>6. CASE UNCHANGED vars
    BY <2>6 DEF vars
  <2> QED BY <2>1, <2>2, <2>3, <2>4, <2>5, <2>6 DEF Next
<1> QED BY <1>1, <1>2, <1>3, <1>4, <1>5

(* The /INT line and the summary bits never lag behind the causes, on any   *)
(* path through the handlers.                                               *)
THEOREM StatusAlwaysAgrees == Spec => []StatusAgrees
<1>1. Init => StatusAgrees
  BY DEF Init, StatusAgrees, SummaryAgrees, Causes, Faults
<1>2. TypeOK /\ StatusAgrees /\ [Next]_vars => StatusAgrees'
  BY AgreesNext DEF StatusAgrees
<1> QED BY <1>1, <1>2, TypeCorrect, PTL DEF Spec

(* With the transmitter on, no transmit demand is left pending between two  *)
(* handlers.                                                                *)
THEOREM DemandAlwaysServed == Spec => []DemandServed
<1>1. Init => DemandServed
  BY DEF Init, DemandServed
<1>2. TypeOK /\ DemandServed /\ [Next]_vars => DemandServed'
  BY AgreesNext DEF DemandServed, Served
<1> QED BY <1>1, <1>2, TypeCorrect, PTL DEF Spec
-----------------------------------------------------------------------------
(* Ownership: a handler changes only descriptors that the chip owns, and    *)
(* gives up each descriptor it changes.                                     *)
TxReleases(s, t) == \A i \in TxIdx : t.tx[i] = s.tx[i] \/ (s.tx[i].own /\ ~ t.tx[i].own)
RxReleases(s, t) == \A i \in RxIdx : t.rx[i] = s.rx[i] \/ (s.rx[i].own /\ ~ t.rx[i].own)
Releases(s, t) == TxReleases(s, t) /\ RxReleases(s, t)

LEMMA ReleasesTrans ==
  ASSUME NEW s, NEW t, NEW u, Releases(s, t), Releases(t, u)
  PROVE  Releases(s, u)
<1>1. TxReleases(s, u)
  BY DEF Releases, TxReleases
<1>2. RxReleases(s, u)
  BY DEF Releases, RxReleases
<1> QED BY <1>1, <1>2 DEF Releases

LEMMA SameRingsRelease ==
  ASSUME NEW s, NEW t, s.tx = t.tx, s.rx = t.rx
  PROVE  Releases(s, t)
BY DEF Releases, TxReleases, RxReleases

(* Every descriptor of a transmit walk is owned, if the first is: the walk  *)
(* stops in front of one that is not.                                       *)
LEMMA TxWalkOwned ==
  ASSUME NEW s \in MachineType, s.tx[s.chip.txPos].own
  PROVE  \A k \in TxIdx : k <= TxLast(s) => TxAt(s, k).own
<1> SUFFICES ASSUME NEW k \in TxIdx, k <= TxLast(s) PROVE TxAt(s, k).own
  OBVIOUS
<1>1. s.chip.txPos \in TxIdx /\ TxLast(s) \in TxIdx /\ TxLen \in Nat \ {0}
  BY MachineParts, TxLastStops, RingAssumption DEF ChipType
<1>2. CASE k = 0
  <2>1. Adv(s.chip.txPos, k, TxLen) = s.chip.txPos
    BY <1>1, <1>2 DEF Adv, TxIdx
  <2> QED BY <2>1 DEF TxAt
<1>3. CASE k # 0
  <2>1. k - 1 \in TxIdx /\ k - 1 < TxLast(s) /\ (k - 1) + 1 = k
    BY <1>1, <1>3 DEF TxIdx
  <2>2. ~ TxStops(s, k - 1)
    BY <2>1, TxLastStops
  <2> QED BY <2>1, <2>2 DEF TxStops
<1> QED BY <1>2, <1>3

LEMMA RxWalkOwned ==
  ASSUME NEW s \in MachineType, NEW f \in Frame, s.rx[s.chip.rxPos].own
  PROVE  \A k \in RxIdx : k <= RxLast(s, f) => s.rx[Adv(s.chip.rxPos, k, RxLen)].own
<1> SUFFICES ASSUME NEW k \in RxIdx, k <= RxLast(s, f)
             PROVE  s.rx[Adv(s.chip.rxPos, k, RxLen)].own
  OBVIOUS
<1>1. s.chip.rxPos \in RxIdx /\ RxLast(s, f) \in RxIdx /\ RxLen \in Nat \ {0}
  BY MachineParts, RxLastStops, RingAssumption DEF ChipType
<1>2. CASE k = 0
  <2>1. Adv(s.chip.rxPos, k, RxLen) = s.chip.rxPos
    BY <1>1, <1>2 DEF Adv, RxIdx
  <2> QED BY <2>1
<1>3. CASE k # 0
  <2>1. k - 1 \in RxIdx /\ k - 1 < RxLast(s, f) /\ (k - 1) + 1 = k
    BY <1>1, <1>3 DEF RxIdx
  <2>2. ~ RxStops(s, f, k - 1)
    BY <2>1, RxLastStops
  <2> QED BY <2>1, <2>2 DEF RxStops
<1> QED BY <1>2, <1>3

(* Receive releases what it fills.                                          *)
LEMMA ReceiveReleases ==
  ASSUME NEW s \in MachineType, NEW f \in Frame
  PROVE  Releases(s, Receive(s, f))
<1> DEFINE t == StoreRx(s, f)
           last == RxLast(s, f)
<1>1. ASSUME s.rx[s.chip.rxPos].own PROVE Releases(s, t)
  <2>1. t.tx = s.tx
    BY DEF StoreRx, MachineType
  <2>2. ASSUME NEW i \in RxIdx
        PROVE  t.rx[i] = s.rx[i] \/ (s.rx[i].own /\ ~ t.rx[i].own)
    <3> DEFINE whole == f.bytes <= (last + 1) * RxBytes
               badFcs == whole /\ ~ f.fcs /\ FcsChecked(s.chip)
               d == FillRx(s.rx[i], f, RxOff(s.chip, i), last, whole, badFcs)
    <3>1. t.rx[i] = IF RxOff(s.chip, i) <= last THEN d ELSE s.rx[i]
      BY DEF StoreRx, MachineType
    <3>2. s.rx[i] \in RxDesc /\ s.chip \in ChipType
      BY MachineParts
    <3>3. d.own = FALSE
      BY <3>2 DEF FillRx, RxDesc
    <3>4. RxOff(s.chip, i) <= last => s.rx[i].own
      <4>1. RxOff(s.chip, i) \in RxIdx /\ Adv(s.chip.rxPos, RxOff(s.chip, i), RxLen) = i
        BY <3>2, Offsets
      <4> HIDE DEF last
      <4> QED BY <1>1, <4>1, RxWalkOwned DEF last
    <3> HIDE DEF d
    <3> QED BY <3>1, <3>3, <3>4
  <2> HIDE DEF t
  <2> QED BY <2>1, <2>2 DEF Releases, TxReleases, RxReleases
<1> DEFINE missed == UpdateInterrupts(Raise(s.chip, {"ERR", "MISS", "RINT", "INTR"}))
<1>2. \/ Receive(s, f) = s
      \/ Receive(s, f) = [s EXCEPT !.chip = missed]
      \/ s.rx[s.chip.rxPos].own
         /\ Receive(s, f) = [t EXCEPT !.chip = UpdateInterrupts(t.chip)]
  BY DEF Receive
<1>3. Releases(s, s)
  BY SameRingsRelease
<1>4. Releases(s, [s EXCEPT !.chip = missed])
  <2> HIDE DEF missed
  <2>1. [s EXCEPT !.chip = missed].tx = s.tx /\ [s EXCEPT !.chip = missed].rx = s.rx
    BY DEF MachineType
  <2> QED BY <2>1, SameRingsRelease
<1>5. ASSUME s.rx[s.chip.rxPos].own
      PROVE  Releases(s, [t EXCEPT !.chip = UpdateInterrupts(t.chip)])
  <2> DEFINE u == [t EXCEPT !.chip = UpdateInterrupts(t.chip)]
  <2>1. t \in MachineType
    BY StoreRxType
  <2>2. u.tx = t.tx /\ u.rx = t.rx
    <3> HIDE DEF t
    <3> QED BY <2>1 DEF MachineType
  <2> HIDE DEF u, t
  <2>3. Releases(t, u)
    BY <2>2, SameRingsRelease
  <2>4. Releases(s, t)
    BY <1>1, <1>5
  <2>5. Releases(s, u)
    BY <2>3, <2>4, ReleasesTrans
  <2> QED BY <2>5 DEF u
<1> HIDE DEF t, missed
<1> QED BY <1>2, <1>3, <1>4, <1>5

(* A release after a walk: m has the rings and the position of s.           *)
LEMMA ReleaseTxReleases ==
  ASSUME NEW s \in MachineType, NEW m \in MachineType, NEW last \in TxIdx,
         m.tx = s.tx, m.rx = s.rx, m.chip.txPos = s.chip.txPos,
         \A k \in TxIdx : k <= last => TxAt(s, k).own
  PROVE  \A err \in BOOLEAN, tmd3 \in SUBSET {"BUFF", "UFLO", "RTRY"} :
           /\ Releases(s, ReleaseTx(m, last, err, tmd3))
           /\ Releases(s, SendComplete(m, last, err, tmd3))
<1> TAKE err \in BOOLEAN, tmd3 \in SUBSET {"BUFF", "UFLO", "RTRY"}
<1> DEFINE t == ReleaseTx(m, last, err, tmd3)
<1>1. t \in MachineType
  BY ReleaseTxType
<1>2. t.rx = s.rx
  BY DEF ReleaseTx, MachineType
<1>3. ASSUME NEW i \in TxIdx
      PROVE  t.tx[i] = s.tx[i] \/ (s.tx[i].own /\ ~ t.tx[i].own)
  <2> DEFINE d == [s.tx[i] EXCEPT !.own = FALSE, !.err = @ \/ err,
                                  !.tmd3 = IF tmd3 = {} THEN @ ELSE tmd3]
             e == [s.tx[i] EXCEPT !.own = FALSE]
  <2>1. m.chip \in ChipType /\ s.tx[i] \in TxDesc
    BY MachineParts
  <2>2. TxOff(m.chip, i) \in TxIdx /\ Adv(s.chip.txPos, TxOff(m.chip, i), TxLen) = i
    BY <2>1, Offsets
  <2>3. TxOff(m.chip, i) <= last => s.tx[i].own
    BY <2>2 DEF TxAt
  <2>4. ~ d.own /\ ~ e.own
    BY <2>1 DEF TxDesc
  <2>5. t.tx[i] = IF TxOff(m.chip, i) > last THEN s.tx[i]
                  ELSE IF TxOff(m.chip, i) = last THEN d ELSE e
    BY DEF ReleaseTx, MachineType
  <2>6. TxOff(m.chip, i) \in Int /\ last \in Int
    BY <2>2 DEF TxIdx
  <2> HIDE DEF d, e, t
  <2> QED BY <2>3, <2>4, <2>5, <2>6
<1> HIDE DEF t
<1>4. Releases(s, t)
  BY <1>2, <1>3 DEF Releases, TxReleases, RxReleases
<1>5. SendComplete(m, last, err, tmd3).tx = t.tx /\ SendComplete(m, last, err, tmd3).rx = t.rx
  BY <1>1 DEF SendComplete, MachineType, t
<1>6. Releases(t, SendComplete(m, last, err, tmd3))
  BY <1>5, SameRingsRelease
<1>7. Releases(s, SendComplete(m, last, err, tmd3))
  BY <1>4, <1>6, ReleasesTrans
<1> QED BY <1>4, <1>7 DEF t

LEMMA TransmitReleases ==
  ASSUME NEW s \in MachineType, s.tx[s.chip.txPos].own
  PROVE  Releases(s, Transmit(s).machine)
<1> DEFINE idle == Walked(s)
           sent == [idle EXCEPT !.wire = Append(@, TxFrame(s))]
<1>1. /\ idle \in MachineType
      /\ idle.tx = s.tx /\ idle.rx = s.rx /\ idle.chip.txPos = s.chip.txPos
  <2>1. idle \in MachineType
    BY FinishType
  <2>2. idle.tx = s.tx /\ idle.rx = s.rx
    BY DEF Walked, MachineType
  <2>3. idle.chip.txPos = s.chip.txPos
    BY MachineParts DEF Walked, Underrun, Raise, Lower, MachineType, ChipType
  <2> QED BY <2>1, <2>2, <2>3
<1>2. /\ sent \in MachineType
      /\ sent.tx = s.tx /\ sent.rx = s.rx /\ sent.chip.txPos = s.chip.txPos
  <2> HIDE DEF idle
  <2>1. sent \in MachineType
    BY <1>1, TxFrameType, MachineParts
  <2> QED BY <1>1, <2>1 DEF MachineType
<1>3. TxLast(s) \in TxIdx /\ \A k \in TxIdx : k <= TxLast(s) => TxAt(s, k).own
  BY TxLastStops, TxWalkOwned
<1>4. ASSUME NEW m \in {idle, sent}, NEW err \in BOOLEAN, NEW tmd3 \in {{}, {"RTRY"}}
      PROVE  Releases(s, Finish(s, m, err, tmd3))
  <2> HIDE DEF idle, sent
  <2> DEFINE bits == (IF Underran(s) THEN {"UFLO", "BUFF"} ELSE {}) \cup tmd3
  <2>1. /\ m \in MachineType
        /\ m.tx = s.tx /\ m.rx = s.rx /\ m.chip.txPos = s.chip.txPos
    BY <1>1, <1>2
  <2>2. (Underran(s) \/ err) \in BOOLEAN /\ bits \in SUBSET {"BUFF", "UFLO", "RTRY"}
    OBVIOUS
  <2>3. \A e \in BOOLEAN, b \in SUBSET {"BUFF", "UFLO", "RTRY"} :
          Releases(s, SendComplete(m, TxLast(s), e, b))
    BY <1>3, <2>1, ReleaseTxReleases
  <2>4. Finish(s, m, err, tmd3) = SendComplete(m, TxLast(s), Underran(s) \/ err, bits)
    BY DEF Finish
  <2> HIDE DEF bits
  <2>5. Releases(s, SendComplete(m, TxLast(s), Underran(s) \/ err, bits))
    BY <2>2, <2>3, Zenon
  <2> QED BY <2>4, <2>5
<1>5. Releases(s, ReleaseTx(s, TxLast(s), FALSE, {}))
  <2>1. FALSE \in BOOLEAN /\ {} \in SUBSET {"BUFF", "UFLO", "RTRY"}
    OBVIOUS
  <2>2. \A e \in BOOLEAN, b \in SUBSET {"BUFF", "UFLO", "RTRY"} :
          Releases(s, ReleaseTx(s, TxLast(s), e, b))
    BY <1>3, ReleaseTxReleases
  <2> QED BY <2>1, <2>2, Zenon
<1>6. \/ Transmit(s).machine = ReleaseTx(s, TxLast(s), FALSE, {})
      \/ \E m \in {idle, sent}, err \in BOOLEAN, tmd3 \in {{}, {"RTRY"}} :
           Transmit(s).machine = Finish(s, m, err, tmd3)
  <2>1. \/ Transmit(s).machine = ReleaseTx(s, TxLast(s), FALSE, {})
        \/ Transmit(s).machine = Finish(s, sent, FALSE, {})
        \/ Transmit(s).machine = Finish(s, idle, TRUE, {"RTRY"})
        \/ Transmit(s).machine = Finish(s, idle, TRUE, {})
        \/ Transmit(s).machine = Finish(s, idle, FALSE, {})
    BY TransmitOutcomes, Zenon
  <2> HIDE DEF idle, sent
  <2> QED BY <2>1
<1> HIDE DEF idle, sent
<1> QED BY <1>4, <1>5, <1>6

LEMMA TransmitPollReleases ==
  ASSUME NEW s \in MachineType
  PROVE  Releases(s, TransmitPoll(s))
<1> DEFINE t == [s EXCEPT !.chip = TakeDemand(@)]
           r == Transmit(t)
<1>1. /\ t \in MachineType
      /\ t.tx = s.tx /\ t.rx = s.rx /\ t.chip.txPos = s.chip.txPos
  <2>1. TakeDemand(s.chip) \in ChipType
    BY MachineParts, ChipOpsType
  <2>2. t \in MachineType
    BY <2>1, MachineParts
  <2> QED BY <2>2, MachineParts DEF TakeDemand, Lower, MachineType, ChipType
<1> HIDE DEF t
<1>2. Releases(s, s) /\ Releases(s, t)
  BY <1>1, SameRingsRelease
<1>3. ASSUME s.tx[s.chip.txPos].own
      PROVE  Releases(s, ReleaseTx(t, 0, FALSE, {}))
  <2>1. 0 \in TxIdx /\ \A k \in TxIdx : k <= 0 => TxAt(t, k).own
    <3>1. 0 \in TxIdx /\ \A k \in TxIdx : k <= 0 => k = 0
      BY RingAssumption DEF TxIdx
    <3>2. Adv(t.chip.txPos, 0, TxLen) = t.chip.txPos
      BY <1>1, MachineParts, RingAssumption DEF Adv, ChipType, TxIdx
    <3> QED BY <1>1, <1>3, <3>1, <3>2 DEF TxAt
  <2>2. FALSE \in BOOLEAN /\ {} \in SUBSET {"BUFF", "UFLO", "RTRY"}
    OBVIOUS
  <2>3. \A e \in BOOLEAN, b \in SUBSET {"BUFF", "UFLO", "RTRY"} :
          Releases(t, ReleaseTx(t, 0, e, b))
    BY <1>1, <2>1, ReleaseTxReleases
  <2>4. Releases(t, ReleaseTx(t, 0, FALSE, {}))
    BY <2>2, <2>3, Zenon
  <2> QED BY <1>2, <2>4, ReleasesTrans
<1>4. ASSUME s.tx[s.chip.txPos].own
      PROVE  Releases(s, r.machine) /\ Releases(s, Receive(r.machine, r.loop))
  <2>1. Releases(t, r.machine)
    BY <1>1, <1>4, TransmitReleases
  <2>2. r.machine \in MachineType /\ r.loop \in Frame
    BY <1>1, TransmitType
  <2> HIDE DEF r
  <2>3. Releases(r.machine, Receive(r.machine, r.loop))
    BY <2>2, ReceiveReleases
  <2>4. Releases(s, r.machine)
    BY <1>2, <2>1, ReleasesTrans
  <2> QED BY <2>3, <2>4, ReleasesTrans
<1>5. \/ TransmitPoll(s) = s
      \/ TransmitPoll(s) = t
      \/ s.tx[s.chip.txPos].own /\ TransmitPoll(s) = ReleaseTx(t, 0, FALSE, {})
      \/ s.tx[s.chip.txPos].own /\ TransmitPoll(s) = r.machine
      \/ s.tx[s.chip.txPos].own /\ TransmitPoll(s) = Receive(r.machine, r.loop)
  BY Zenon DEF TransmitPoll, t
<1> HIDE DEF r
<1> QED BY <1>2, <1>3, <1>4, <1>5

LEMMA WriteCsr0Releases ==
  ASSUME NEW s \in MachineType, NEW data \in SUBSET Csr0Bits, NEW block \in BlockType
  PROVE  Releases(s, WriteCsr0(s, data, block))
<1> DEFINE s0 == [s EXCEPT !.chip = Reset(@)]
           s1 == [s EXCEPT !.chip = Lower(@, Acked(data))]
           s2 == DoInit(s1, data, block)
           s3 == DoStrt(s2, data)
           s4 == DoTdmd(s3, data)
<1>1. Releases(s, s0)
  <2>1. s0.tx = s.tx /\ s0.rx = s.rx
    BY DEF MachineType
  <2> HIDE DEF s0
  <2> QED BY <2>1, SameRingsRelease
<1>2. s1 \in MachineType /\ Releases(s, s1)
  <2>1. Acked(data) \in SUBSET Csr0Bits
    BY DEF Acked, Csr0Bits
  <2>2. Lower(s.chip, Acked(data)) \in ChipType
    BY <2>1, MachineParts, ChipOpsType
  <2>3. s1 \in MachineType
    BY <2>2, MachineParts
  <2>4. s1.tx = s.tx /\ s1.rx = s.rx
    BY DEF MachineType
  <2> HIDE DEF s1
  <2> QED BY <2>3, <2>4, SameRingsRelease
<1>3. s2 \in MachineType /\ Releases(s, s2)
  <2> HIDE DEF s1
  <2> DEFINE i == [s1 EXCEPT !.chip = Initialize(@, block)]
  <2>1. i \in MachineType
    <3>1. Initialize(s1.chip, block) \in ChipType
      BY <1>2, MachineParts, ChipOpsType DEF BlockType
    <3> QED BY <1>2, <3>1, MachineParts
  <2>2. i.tx = s1.tx /\ i.rx = s1.rx
    BY <1>2 DEF MachineType
  <2>3. s2 \in {s1, i}
    BY DEF DoInit
  <2> HIDE DEF i, s2
  <2>4. Releases(s1, i)
    BY <2>2, SameRingsRelease
  <2> QED BY <1>2, <2>1, <2>3, <2>4, ReleasesTrans
<1>4. s3 \in MachineType /\ Releases(s, s3)
  <2> HIDE DEF s2
  <2> DEFINE strt == [s2 EXCEPT !.chip.csr0 = (@ \ {"STOP", "RXON", "TXON"})
                                   \cup {"STRT"} \cup Enabled(s2.chip.mode),
                                !.chip.poll = 1]
  <2>1. s3 \in MachineType
    BY <1>3, StartType
  <2>2. strt \in MachineType /\ strt.tx = s2.tx /\ strt.rx = s2.rx
    <3>1. Enabled(s2.chip.mode) \in SUBSET Csr0Bits /\ 1 \in 1 .. PollTicks
          /\ {"STRT"} \in SUBSET Csr0Bits
      BY DEF Enabled, Csr0Bits, PollTicks
    <3> QED BY <1>3, <3>1, MachineParts DEF MachineType, ChipType
  <2>3. s3 \in {s2, TransmitPoll(strt)}
    BY DEF DoStrt
  <2> HIDE DEF strt, s3
  <2>4. Releases(s2, strt) /\ Releases(strt, TransmitPoll(strt))
    BY <2>2, SameRingsRelease, TransmitPollReleases
  <2>5. Releases(s2, TransmitPoll(strt))
    BY <2>4, ReleasesTrans
  <2>6. Releases(s, TransmitPoll(strt))
    BY <1>3, <2>5, ReleasesTrans
  <2> QED BY <1>3, <2>1, <2>3, <2>6
<1>5. s4 \in MachineType /\ Releases(s, s4)
  <2> HIDE DEF s3
  <2> DEFINE tdmd == [s3 EXCEPT !.chip.csr0 = @ \cup {"TDMD"} \cup Implicit(s3.chip),
                                !.chip.poll = 1]
  <2>1. s4 \in MachineType
    BY <1>4, StartType
  <2>2. tdmd \in MachineType /\ tdmd.tx = s3.tx /\ tdmd.rx = s3.rx
    <3>1. Implicit(s3.chip) \in SUBSET Csr0Bits /\ 1 \in 1 .. PollTicks
          /\ {"TDMD"} \in SUBSET Csr0Bits
      BY DEF Implicit, Enabled, Csr0Bits, PollTicks
    <3> QED BY <1>4, <3>1, MachineParts DEF MachineType, ChipType
  <2>3. s4 \in {s3, TransmitPoll(tdmd)}
    BY DEF DoTdmd
  <2> HIDE DEF tdmd, s4
  <2>4. Releases(s3, tdmd) /\ Releases(tdmd, TransmitPoll(tdmd))
    BY <2>2, SameRingsRelease, TransmitPollReleases
  <2>5. Releases(s3, TransmitPoll(tdmd))
    BY <2>4, ReleasesTrans
  <2>6. Releases(s, TransmitPoll(tdmd))
    BY <1>4, <2>5, ReleasesTrans
  <2> QED BY <1>4, <2>1, <2>3, <2>6
<1> HIDE DEF s4
<1>6. Releases(s, Summarise(s4, data))
  <2>1. Summarise(s4, data).tx = s4.tx /\ Summarise(s4, data).rx = s4.rx
    BY <1>5 DEF Summarise, MachineType
  <2>2. Releases(s4, Summarise(s4, data))
    BY <2>1, SameRingsRelease
  <2> QED BY <1>5, <2>2, ReleasesTrans
<1>7. \/ WriteCsr0(s, data, block) = s
      \/ WriteCsr0(s, data, block) = s0
      \/ WriteCsr0(s, data, block) = Summarise(s4, data)
  BY Zenon DEF WriteCsr0, s4
<1>8. Releases(s, s)
  BY SameRingsRelease
<1> HIDE DEF s0
<1> QED BY <1>1, <1>6, <1>7, <1>8

LEMMA TickChipReleases ==
  ASSUME NEW s \in MachineType
  PROVE  Releases(s, TickChip(s))
<1>1. s.chip \in ChipType
  BY MachineParts
<1>2. CASE s.chip.poll > 1
  <2>1. TickChip(s).tx = s.tx /\ TickChip(s).rx = s.rx
    BY <1>2 DEF TickChip, MachineType
  <2> QED BY <2>1, SameRingsRelease
<1>3. CASE ~ (s.chip.poll > 1)
  <2> DEFINE t == [s EXCEPT !.chip.poll = PollTicks]
  <2>1. t \in MachineType
    <3>1. [s.chip EXCEPT !.poll = PollTicks] \in ChipType
      BY <1>1 DEF ChipType, PollTicks
    <3> QED BY <3>1, MachineParts
  <2>2. t.tx = s.tx /\ t.rx = s.rx
    BY DEF MachineType
  <2>3. TickChip(s) = TransmitPoll(t)
    BY <1>3 DEF TickChip
  <2> HIDE DEF t
  <2>4. Releases(s, t) /\ Releases(t, TransmitPoll(t))
    BY <2>1, <2>2, SameRingsRelease, TransmitPollReleases
  <2> QED BY <2>3, <2>4, ReleasesTrans
<1> QED BY <1>2, <1>3
-----------------------------------------------------------------------------
(* The driver's side: the descriptors of the frame being queued that are    *)
(* not stored yet stay the driver's.  StoreTx does not look at OWN again    *)
(* after BeginFrame saw it clear; the handlers in between only clear it.    *)
Stored(k) == IF OwnLast THEN k \in 1 .. drv.done ELSE k < drv.done

SlotsFree ==
  \A k \in TxIdx : k < drv.build /\ ~ Stored(k) => ~ tx[Adv(drv.head, k, TxLen)].own

(* Every step is a handler's, which releases, or one of the driver's stores. *)
LEMMA StepKinds ==
  ASSUME TypeOK, [Next]_vars
  PROVE  \/ /\ Releases(Machine, Machine')
            /\ \/ drv'.build = 0
               \/ drv'.head = drv.head /\ drv'.build = drv.build /\ drv'.done = drv.done
         \/ \E block \in Block : MakeRings(block)
         \/ \E n \in 1 .. MaxFrags, dst \in OwnDst : BeginFrame(n, dst)
         \/ \E empty \in BOOLEAN : StoreTx(empty)
         \/ IsrDrain
<1> DEFINE Kept == drv'.head = drv.head /\ drv'.build = drv.build /\ drv'.done = drv.done
<1>0. Machine \in MachineType /\ drv \in DrvType
  BY DEF TypeOK
<1>1. ASSUME NEW s \in MachineType, Becomes(s), Releases(Machine, s)
      PROVE  Releases(Machine, Machine')
  <2>1. Machine'.tx = s.tx /\ Machine'.rx = s.rx
    BY <1>1 DEF Machine, Becomes
  <2>2. Releases(s, Machine')
    BY <2>1, SameRingsRelease
  <2> QED BY <1>1, <2>2, ReleasesTrans
<1>2. ASSUME NEW data \in SUBSET Csr0Bits, Csr0Write(data)
      PROVE  Releases(Machine, Machine')
  <2>1. drv.block \in BlockType
    BY <1>0 DEF DrvType, BlockType
  <2>2. /\ WriteCsr0(Machine, data, drv.block) \in MachineType
        /\ Releases(Machine, WriteCsr0(Machine, data, drv.block))
    BY <1>0, <2>1, WriteCsr0Type, WriteCsr0Releases
  <2> QED BY <1>1, <1>2, <2>2 DEF Csr0Write
<1>3. ASSUME UNCHANGED <<tx, rx>> PROVE Releases(Machine, Machine')
  BY <1>3, SameRingsRelease DEF Machine
<1>4. CASE Stop
  <2>1. {"STOP"} \in SUBSET Csr0Bits
    BY DEF Csr0Bits
  <2>2. drv'.build = 0
    BY <1>0, <1>4 DEF Stop, DrvType
  <2>3. Csr0Write({"STOP"})
    BY <1>4 DEF Stop
  <2>4. Releases(Machine, Machine')
    BY <1>2, <2>1, <2>3
  <2> QED BY <2>2, <2>4
<1>5. ASSUME NEW data \in InitWords, WriteInit(data)
      PROVE  Releases(Machine, Machine') /\ Kept
  <2>1. data \in SUBSET Csr0Bits
    BY DEF InitWords, Csr0Bits
  <2>2. Kept
    BY <1>0, <1>5 DEF WriteInit, DrvType
  <2> QED BY <1>2, <1>5, <2>1, <2>2 DEF WriteInit
<1>6. ASSUME NEW data \in StartWords, WriteStart(data)
      PROVE  Releases(Machine, Machine') /\ Kept
  <2>1. data \in SUBSET Csr0Bits
    BY DEF StartWords, Csr0Bits
  <2>2. Kept
    BY <1>0, <1>6 DEF WriteStart, DrvType
  <2> QED BY <1>2, <1>6, <2>1, <2>2 DEF WriteStart
<1>7. CASE Demand
  <2>1. {"TDMD", "INEA"} \in SUBSET Csr0Bits
    BY DEF Csr0Bits
  <2>2. Csr0Write({"TDMD", "INEA"}) /\ Kept
    BY <1>7 DEF Demand
  <2> QED BY <1>2, <2>1, <2>2
<1>8. CASE IsrAck
  <2>1. drv.seen \cup {"INEA"} \in SUBSET Csr0Bits
    BY <1>0 DEF DrvType, Csr0Bits
  <2>2. Csr0Write(drv.seen \cup {"INEA"}) /\ Kept
    BY <1>0, <1>8 DEF IsrAck, DrvType
  <2> QED BY <1>2, <2>1, <2>2
<1>9. CASE IsrRead \/ IsrExit
  <2>1. UNCHANGED <<tx, rx>> /\ Kept
    BY <1>0, <1>9 DEF IsrRead, IsrExit, DrvType
  <2> QED BY <1>3, <2>1
<1>10. CASE Tick
  <2>1. TickChip(Machine) \in MachineType /\ Releases(Machine, TickChip(Machine))
    BY <1>0, TickChipType, TickChipReleases
  <2> QED BY <1>1, <1>10, <2>1 DEF Tick
<1>11. CASE Net
  <2>1. PICK len \in WireLens, dst \in WireDst : WireFrame(len, dst)
    BY <1>11 DEF Net
  <2> DEFINE f == GlueFrame(len, dst)
  <2>2. f \in Frame
    BY GlueFrameType DEF TypeOK
  <2> HIDE DEF f
  <2>3. Recv(Machine, f) \in MachineType
    BY <1>0, <2>2, ReceiveType
  <2>4. Releases(Machine, Recv(Machine, f))
    <3>1. Releases(Machine, Machine) /\ Releases(Machine, Receive(Machine, f))
      BY <1>0, <2>2, SameRingsRelease, ReceiveReleases
    <3> QED BY <3>1 DEF Recv
  <2>5. Becomes(Recv(Machine, f)) /\ drv' = drv
    BY <2>1 DEF WireFrame, f
  <2> QED BY <1>1, <2>3, <2>4, <2>5
<1>12. CASE UNCHANGED vars
  BY <1>3, <1>12 DEF vars
<1> HIDE DEF Kept
<1>13. CASE Setup
  BY <1>4, <1>5, <1>6, <1>13 DEF Setup, Kept
<1>14. CASE Send
  BY <1>7, <1>14 DEF Send, Kept
<1>15. CASE Isr
  BY <1>8, <1>9, <1>15 DEF Isr, Kept
<1> QED BY <1>10, <1>11, <1>12, <1>13, <1>14, <1>15 DEF Next

(* Two different offsets are two different descriptors.                     *)
LEMMA AdvInjective ==
  ASSUME NEW n \in Nat \ {0}, NEW p \in 0 .. n - 1,
         NEW j \in 0 .. n - 1, NEW k \in 0 .. n - 1, Adv(p, j, n) = Adv(p, k, n)
  PROVE  j = k
BY DEF Adv

(* A handler leaves the slots free.                                         *)
LEMMA ReleaseKeepsSlots ==
  ASSUME TypeOK, TypeOK', SlotsFree, Releases(Machine, Machine'),
         drv'.head = drv.head, drv'.build = drv.build, drv'.done = drv.done
  PROVE  SlotsFree'
<1> SUFFICES ASSUME NEW k \in TxIdx, k < drv.build, ~ Stored(k)
             PROVE  ~ tx'[Adv(drv.head, k, TxLen)].own
  BY DEF SlotsFree, Stored
<1> DEFINE i == Adv(drv.head, k, TxLen)
<1>1. i \in TxIdx
  <2>1. drv.head \in 0 .. TxLen - 1 /\ k \in 0 .. TxLen
    BY RingAssumption DEF TypeOK, DrvType, TxIdx
  <2> QED BY <2>1, AdvInRing, RingAssumption DEF TxIdx
<1>2. ~ tx[i].own
  BY DEF SlotsFree
<1>3. tx'[i] = tx[i] \/ (tx[i].own /\ ~ tx'[i].own)
  BY <1>1 DEF Releases, TxReleases, Machine
<1> QED BY <1>2, <1>3

(* Storing a buffer of the frame leaves the others free.                    *)
LEMMA StoreKeepsSlots ==
  ASSUME TypeOK, SlotsFree, NEW empty \in BOOLEAN, StoreTx(empty)
  PROVE  SlotsFree' /\ ~ tx[Adv(drv.head, NextPart, TxLen)].own
                    /\ tx'[Adv(drv.head, NextPart, TxLen)].own
<1>1. /\ drv \in DrvType /\ tx \in [TxIdx -> TxDesc]
      /\ drv.build \in 1 .. TxLen /\ drv.done \in 0 .. drv.build - 1
      /\ drv.head \in 0 .. TxLen - 1 /\ TxLen \in Nat \ {0}
  <2>1. drv.build > 0
    BY DEF StoreTx
  <2>2. /\ drv \in DrvType /\ tx \in [TxIdx -> TxDesc]
        /\ drv.done < drv.build \/ (drv.build = 0 /\ drv.done = 0)
    BY DEF TypeOK, Machine, MachineType
  <2>3. drv.build \in 0 .. MaxFrags /\ drv.done \in 0 .. MaxFrags
        /\ drv.head \in 0 .. TxLen - 1
    BY <2>2 DEF DrvType, TxIdx
  <2> QED BY <2>1, <2>2, <2>3, EnvAssumption, RingAssumption
<1>2. /\ NextPart \in TxIdx /\ NextPart < drv.build /\ ~ Stored(NextPart)
      /\ OwnLast /\ drv.done + 1 < drv.build => NextPart = drv.done + 1
      /\ ~ OwnLast => NextPart = drv.done
  <2>1. CASE OwnLast /\ drv.done + 1 < drv.build
    <3>1. (drv.done + 1) % drv.build = drv.done + 1
      BY <1>1, <2>1
    <3> QED BY <1>1, <2>1, <3>1 DEF NextPart, Stored, TxIdx
  <2>2. CASE OwnLast /\ ~ (drv.done + 1 < drv.build)
    <3>1. drv.done + 1 = drv.build /\ (drv.done + 1) % drv.build = 0
      BY <1>1, <2>2
    <3> QED BY <1>1, <2>2, <3>1 DEF NextPart, Stored, TxIdx
  <2>3. CASE ~ OwnLast
    BY <1>1, <2>3 DEF NextPart, Stored, TxIdx
  <2> QED BY <2>1, <2>2, <2>3
<1> DEFINE i == Adv(drv.head, NextPart, TxLen)
           frag == [id |-> drv.queued, part |-> NextPart + 1, of |-> drv.build,
                    dst |-> drv.dst]
           d == [own |-> TRUE, stp |-> NextPart = 0, enp |-> NextPart = drv.build - 1,
                 empty |-> empty, err |-> FALSE, tmd3 |-> {}, frag |-> frag]
<1>3. i \in TxIdx /\ tx' = [tx EXCEPT ![i] = d]
  <2>1. NextPart \in 0 .. TxLen
    BY <1>1, <1>2 DEF TxIdx
  <2>2. i \in TxIdx
    BY <1>1, <2>1, AdvInRing DEF TxIdx
  <2> QED BY <2>2 DEF StoreTx
<1>4. ~ tx[i].own
  BY <1>2 DEF SlotsFree
<1>5. tx'[i].own
  BY <1>1, <1>3
<1>6. CASE drv.done + 1 = drv.build
  <2>1. drv'.build = 0
    BY <1>1, <1>6 DEF StoreTx, DrvType
  <2>2. SlotsFree'
    BY <2>1 DEF SlotsFree, TxIdx
  <2> QED BY <1>4, <1>5, <2>2
<1>7. CASE drv.done + 1 # drv.build
  <2>1. drv'.build = drv.build /\ drv'.head = drv.head /\ drv'.done = drv.done + 1
    BY <1>1, <1>7 DEF StoreTx, DrvType
  <2>2. SlotsFree'
    <3> SUFFICES ASSUME NEW k \in TxIdx, k < drv.build, ~ Stored(k)'
                 PROVE  ~ tx'[Adv(drv.head, k, TxLen)].own
      BY <2>1 DEF SlotsFree
    <3>1. ~ Stored(k) /\ k # NextPart
      BY <1>1, <1>2, <1>7, <2>1 DEF Stored, TxIdx
    <3>2. ~ tx[Adv(drv.head, k, TxLen)].own
      BY <3>1 DEF SlotsFree
    <3>3. Adv(drv.head, k, TxLen) # i
      <4>1. k \in 0 .. TxLen - 1 /\ NextPart \in 0 .. TxLen - 1
        BY <1>1, <1>2 DEF TxIdx
      <4> QED BY <1>1, <3>1, <4>1, AdvInjective
    <3>4. Adv(drv.head, k, TxLen) \in TxIdx
      <4>1. k \in 0 .. TxLen
        BY <1>1 DEF TxIdx
      <4> QED BY <1>1, <4>1, AdvInRing DEF TxIdx
    <3> HIDE DEF d, i
    <3> QED BY <1>1, <1>3, <3>2, <3>3, <3>4
  <2> QED BY <1>4, <1>5, <2>2
<1> QED BY <1>6, <1>7

LEMMA SlotsNext ==
  ASSUME TypeOK, TypeOK', SlotsFree, [Next]_vars
  PROVE  SlotsFree'
<1>1. CASE drv'.build = 0
  BY <1>1 DEF SlotsFree, TxIdx
<1>2. CASE /\ Releases(Machine, Machine')
           /\ drv'.head = drv.head /\ drv'.build = drv.build /\ drv'.done = drv.done
  BY <1>2, ReleaseKeepsSlots
<1>3. ASSUME NEW block \in Block, MakeRings(block) PROVE SlotsFree'
  <2>1. drv'.build = 0
    BY <1>3 DEF MakeRings, TypeOK, DrvType
  <2> QED BY <1>1, <2>1
<1>4. ASSUME NEW n \in 1 .. MaxFrags, NEW dst \in OwnDst, BeginFrame(n, dst) PROVE SlotsFree'
  <2>1. drv'.build = n /\ drv'.head = drv.head /\ tx' = tx
    BY <1>4 DEF BeginFrame, TypeOK, DrvType
  <2>2. \A k \in TxIdx : k < n => ~ tx[Adv(drv.head, k, TxLen)].own
    BY <1>4, EnvAssumption DEF BeginFrame, FreeTx, TxIdx
  <2> QED BY <2>1, <2>2 DEF SlotsFree
<1>5. ASSUME NEW empty \in BOOLEAN, StoreTx(empty) PROVE SlotsFree'
  BY <1>5, StoreKeepsSlots
<1>6. ASSUME IsrDrain PROVE SlotsFree'
  <2>1. drv'.head = drv.head /\ drv'.build = drv.build /\ drv'.done = drv.done /\ tx' = tx
    BY <1>6 DEF IsrDrain, TypeOK, DrvType
  <2> QED BY <2>1 DEF SlotsFree, Stored
<1> QED BY <1>1, <1>2, <1>3, <1>4, <1>5, <1>6, StepKinds

(* What a step may do to descriptors while the rings stand.                 *)
Hands ==
  drv'.inits = drv.inits =>
    /\ \A i \in TxIdx : tx'[i] # tx[i] => tx'[i].own # tx[i].own
    /\ \A i \in RxIdx : rx'[i] # rx[i] => rx'[i].own # rx[i].own

LEMMA HandsNext ==
  ASSUME TypeOK, TypeOK', SlotsFree, [Next]_vars
  PROVE  Hands
<1>0. /\ tx \in [TxIdx -> TxDesc] /\ rx \in [RxIdx -> RxDesc]
      /\ tx' \in [TxIdx -> TxDesc] /\ rx' \in [RxIdx -> RxDesc]
  BY DEF TypeOK, Machine, MachineType
<1>1. CASE Releases(Machine, Machine')
  <2>1. \A i \in TxIdx : tx'[i] = tx[i] \/ (tx[i].own /\ ~ tx'[i].own)
    BY <1>1 DEF Releases, TxReleases, Machine
  <2>2. \A i \in RxIdx : rx'[i] = rx[i] \/ (rx[i].own /\ ~ rx'[i].own)
    BY <1>1 DEF Releases, RxReleases, Machine
  <2> QED BY <2>1, <2>2 DEF Hands
<1>2. ASSUME NEW block \in Block, MakeRings(block) PROVE Hands
  <2>1. drv'.inits = drv.inits + 1 /\ drv.inits \in Nat
    BY <1>2 DEF MakeRings, TypeOK, DrvType
  <2> QED BY <2>1 DEF Hands
<1>3. ASSUME NEW n \in 1 .. MaxFrags, NEW dst \in OwnDst, BeginFrame(n, dst) PROVE Hands
  BY <1>3 DEF BeginFrame, Hands
<1>4. ASSUME NEW empty \in BOOLEAN, StoreTx(empty) PROVE Hands
  <2> DEFINE i == Adv(drv.head, NextPart, TxLen)
  <2>1. ~ tx[i].own /\ tx'[i].own
    BY <1>4, StoreKeepsSlots
  <2>2. \A j \in TxIdx : j # i => tx'[j] = tx[j]
    BY <1>0, <1>4 DEF StoreTx
  <2>3. rx' = rx
    BY <1>4 DEF StoreTx
  <2> HIDE DEF i
  <2> QED BY <2>1, <2>2, <2>3 DEF Hands
<1>5. ASSUME IsrDrain PROVE Hands
  <2>1. rx' = [rx EXCEPT ![drv.rxHead] = EmptyRx(TRUE)] /\ tx' = tx
        /\ ~ rx[drv.rxHead].own
    BY <1>5 DEF IsrDrain
  <2>2. EmptyRx(TRUE).own = TRUE
    BY DEF EmptyRx
  <2> QED BY <1>0, <2>1, <2>2 DEF Hands
<1> QED BY <1>1, <1>2, <1>3, <1>4, <1>5, StepKinds

(* A descriptor changes only by changing hands, in rings of every size,     *)
(* whatever chain lance_transmit or lance_receive walks.                    *)
THEOREM AlwaysChangesHands == Spec => ChangesHands
<1>1. Init => SlotsFree
  BY DEF Init, SlotsFree, TxIdx
<1>2. TypeOK /\ TypeOK' /\ SlotsFree /\ [Next]_vars => SlotsFree'
  BY SlotsNext
<1>3. TypeOK /\ TypeOK' /\ SlotsFree /\ [Next]_vars => [Hands]_vars
  BY HandsNext
<1>4. Spec => [][Hands]_vars
  BY <1>1, <1>2, <1>3, TypeCorrect, PTL DEF Spec
<1>5. [][Hands]_vars => ChangesHands
  BY PTL DEF Hands, ChangesHands
<1> QED BY <1>4, <1>5

-----------------------------------------------------------------------------
(***************************************************************************)
(* Chip and driver in step on the two rings of Lance: what the walks of    *)
(* lance_receive and lance_transmit do to the runs of descriptors the chip *)
(* owns, and the invariant that makes RingsInStep, NoLostWakeup and        *)
(* UnderrunStops hold for every ring size.                                 *)
(***************************************************************************)
(* Positions and offsets in a ring.                                         *)
Off(p, i, n) == IF p <= i THEN i - p ELSE i - p + n

LEMMA OffIsOffset ==
  ASSUME NEW c, NEW i
  PROVE  RxOff(c, i) = Off(c.rxPos, i, RxLen) /\ TxOff(c, i) = Off(c.txPos, i, TxLen)
BY DEF RxOff, TxOff, Off

(* An offset leads from the position to the index, and back.                *)
LEMMA OffAdv ==
  ASSUME NEW n \in Nat \ {0}, NEW p \in 0 .. n - 1
  PROVE  /\ \A i \in 0 .. n - 1 : Off(p, i, n) \in 0 .. n - 1 /\ Adv(p, Off(p, i, n), n) = i
         /\ \A k \in 0 .. n - 1 : Off(p, Adv(p, k, n), n) = k
BY DEF Off, Adv

(* When the position moves m descriptors on, the offsets of those it passed *)
(* go to the end of the ring and the others come m nearer.                  *)
LEMMA OffShift ==
  ASSUME NEW n \in Nat \ {0}, NEW p \in 0 .. n - 1, NEW m \in 0 .. n
  PROVE  /\ Adv(p, m, n) \in 0 .. n - 1
         /\ \A i \in 0 .. n - 1 :
              Off(Adv(p, m, n), i, n) = IF Off(p, i, n) < m THEN Off(p, i, n) - m + n
                                                            ELSE Off(p, i, n) - m
         /\ \A k \in 0 .. n - m : Adv(Adv(p, m, n), k, n) = Adv(p, m + k, n)
<1>1. CASE p + m < n
  BY <1>1 DEF Off, Adv
<1>2. CASE ~ (p + m < n)
  BY <1>2 DEF Off, Adv
<1> QED BY <1>1, <1>2
-----------------------------------------------------------------------------
(* The state of a ring: from the chip's position on, the receive ring's     *)
(* descriptors it owns run exactly up to the driver's head rh; those of the *)
(* transmit ring up to h, with the dn buffers after the first of the frame  *)
(* of b buffers that is being queued behind h.                              *)
RxRun(s, n) == \A i \in RxIdx : s.rx[i].own <=> RxOff(s.chip, i) < n

RxStep(s, rh) ==
  \E n \in 0 .. RxLen : rh = Adv(s.chip.rxPos, n, RxLen) /\ RxRun(s, n)

TxRun(s, n, dn) ==
  \A i \in TxIdx : s.tx[i].own <=> (TxOff(s.chip, i) < n \/ TxOff(s.chip, i) \in n + 1 .. n + dn)

TxStep(s, h, b, dn) ==
  \E n \in 0 .. TxLen :
    /\ h = Adv(s.chip.txPos, n, TxLen)
    /\ TxRun(s, n, dn)
    /\ n + b <= TxLen
    /\ dn < b \/ dn = 0

(* The transmitter runs only after STRT, and not after an underrun.         *)
Underflow(s) == \E i \in TxIdx : "UFLO" \in s.tx[i].tmd3

Sound(s) ==
  /\ "TXON" \in s.chip.csr0 => "STRT" \in s.chip.csr0
  /\ Underflow(s) => "TXON" \notin s.chip.csr0 /\ "STRT" \in s.chip.csr0

(* What every handler leaves alone in the registers.                        *)
Settled == {"INIT", "STRT", "INEA", "RXON", "STOP"}

Stays(c, d) ==
  /\ \A bit \in Settled : bit \in d.csr0 <=> bit \in c.csr0
  /\ "TXON" \in d.csr0 => "TXON" \in c.csr0
  /\ "RINT" \in c.csr0 => "RINT" \in d.csr0
  /\ d.mode = c.mode /\ d.padr = c.padr

(* What a handler may do to the machine between two register writes.        *)
Runs(s, t) ==
  /\ \A rh \in RxIdx : RxStep(s, rh) => RxStep(t, rh)
  /\ \A h \in TxIdx, b \in Nat, dn \in Nat : TxStep(s, h, b, dn) => TxStep(t, h, b, dn)
  /\ Sound(s) => Sound(t)
  /\ t.rx # s.rx => "RINT" \in t.chip.csr0
  /\ Stays(s.chip, t.chip)

LEMMA RunsTrans ==
  ASSUME NEW s, NEW t, NEW u, Runs(s, t), Runs(t, u)
  PROVE  Runs(s, u)
<1>1. \A rh \in RxIdx : RxStep(s, rh) => RxStep(u, rh)
  BY DEF Runs
<1>2. \A h \in TxIdx, b \in Nat, dn \in Nat : TxStep(s, h, b, dn) => TxStep(u, h, b, dn)
  BY DEF Runs
<1>3. Sound(s) => Sound(u)
  BY DEF Runs
<1>4. u.rx # s.rx => "RINT" \in u.chip.csr0
  BY DEF Runs, Stays
<1>5. Stays(s.chip, u.chip)
  <2>1. Stays(s.chip, t.chip) /\ Stays(t.chip, u.chip)
    BY DEF Runs
  <2> QED BY <2>1 DEF Stays
<1> QED BY <1>1, <1>2, <1>3, <1>4, <1>5 DEF Runs

(* A step that leaves rings and positions alone.                            *)
LEMMA SameRingsRun ==
  ASSUME NEW s, NEW t, s.tx = t.tx, s.rx = t.rx,
         s.chip.txPos = t.chip.txPos, s.chip.rxPos = t.chip.rxPos
  PROVE  /\ \A rh \in RxIdx : RxStep(s, rh) <=> RxStep(t, rh)
         /\ \A h \in TxIdx, b \in Nat, dn \in Nat : TxStep(s, h, b, dn) <=> TxStep(t, h, b, dn)
         /\ Underflow(s) <=> Underflow(t)
<1>1. \A i : RxOff(s.chip, i) = RxOff(t.chip, i) /\ TxOff(s.chip, i) = TxOff(t.chip, i)
  BY DEF RxOff, TxOff
<1>2. \A n : RxRun(s, n) <=> RxRun(t, n)
  BY <1>1 DEF RxRun
<1>3. \A n, dn : TxRun(s, n, dn) <=> TxRun(t, n, dn)
  BY <1>1 DEF TxRun
<1>4. \A rh \in RxIdx : RxStep(s, rh) <=> RxStep(t, rh)
  BY <1>2 DEF RxStep
<1>5. \A h \in TxIdx, b \in Nat, dn \in Nat : TxStep(s, h, b, dn) <=> TxStep(t, h, b, dn)
  BY <1>3 DEF TxStep
<1> QED BY <1>4, <1>5 DEF Underflow
-----------------------------------------------------------------------------
(* What a receive walk of last + 1 descriptors leaves of the receive ring.  *)
RxWalked(s, t, last) ==
  /\ t.chip.rxPos = Adv(s.chip.rxPos, last + 1, RxLen)
  /\ \A i \in RxIdx : IF RxOff(s.chip, i) > last THEN t.rx[i] = s.rx[i] ELSE ~ t.rx[i].own

(* The walk stays in the run: rings that were in step still are.            *)
LEMMA RxWalkKeepsStep ==
  ASSUME NEW s \in MachineType, NEW t \in MachineType, NEW last \in RxIdx, NEW rh \in RxIdx,
         \A k \in RxIdx : k <= last => s.rx[Adv(s.chip.rxPos, k, RxLen)].own,
         RxWalked(s, t, last), RxStep(s, rh)
  PROVE  RxStep(t, rh)
<1>1. PICK n \in 0 .. RxLen : rh = Adv(s.chip.rxPos, n, RxLen) /\ RxRun(s, n)
  BY DEF RxStep
<1>2. /\ RxLen \in Nat \ {0} /\ RxIdx = 0 .. RxLen - 1
      /\ s.chip.rxPos \in 0 .. RxLen - 1 /\ t.chip.rxPos \in 0 .. RxLen - 1
      /\ last \in 0 .. RxLen - 1 /\ last + 1 \in 0 .. RxLen
  BY RingAssumption, MachineParts DEF RxIdx, ChipType
<1> DEFINE p == s.chip.rxPos
           q == t.chip.rxPos
<1>3. last < n
  <2> SUFFICES ASSUME n <= last PROVE FALSE
    BY <1>2
  <2>1. n \in 0 .. RxLen - 1
    BY <1>2
  <2>2. Adv(p, n, RxLen) \in RxIdx /\ Off(p, Adv(p, n, RxLen), RxLen) = n
    BY <1>2, <2>1, OffAdv, AdvInRing
  <2>3. s.rx[Adv(p, n, RxLen)].own
    BY <1>2, <2>1
  <2>4. Off(p, Adv(p, n, RxLen), RxLen) < n
    BY <1>1, <2>2, <2>3, OffIsOffset DEF RxRun
  <2> QED BY <2>1, <2>2, <2>4
<1> DEFINE n1 == n - (last + 1)
<1>4. n1 \in 0 .. RxLen /\ n = last + 1 + n1 /\ n1 \in 0 .. RxLen - (last + 1)
  BY <1>2, <1>3
<1>5. q = Adv(p, last + 1, RxLen)
  BY DEF RxWalked
<1>6. rh = Adv(q, n1, RxLen)
  <2> HIDE DEF n1, p, q
  <2>1. \A k \in 0 .. RxLen - (last + 1) :
          Adv(Adv(p, last + 1, RxLen), k, RxLen) = Adv(p, last + 1 + k, RxLen)
    BY <1>2, OffShift DEF p
  <2> QED BY <1>1, <1>4, <1>5, <2>1 DEF p
<1>7. RxRun(t, n1)
  <2> SUFFICES ASSUME NEW i \in RxIdx PROVE t.rx[i].own <=> RxOff(t.chip, i) < n1
    BY DEF RxRun
  <2> DEFINE o == Off(p, i, RxLen)
  <2>1. o \in 0 .. RxLen - 1
    BY <1>2, OffAdv
  <2>2. RxOff(t.chip, i) = IF o < last + 1 THEN o - (last + 1) + RxLen ELSE o - (last + 1)
    <3>1. \A j \in 0 .. RxLen - 1 :
            Off(Adv(p, last + 1, RxLen), j, RxLen) =
              IF Off(p, j, RxLen) < last + 1 THEN Off(p, j, RxLen) - (last + 1) + RxLen
                                             ELSE Off(p, j, RxLen) - (last + 1)
      BY <1>2, OffShift
    <3>2. RxOff(t.chip, i) = Off(q, i, RxLen) /\ i \in 0 .. RxLen - 1
      BY <1>2, OffIsOffset
    <3> HIDE DEF p, q
    <3> QED BY <1>5, <3>1, <3>2
  <2>3. s.rx[i].own <=> o < n
    BY <1>1, OffIsOffset DEF RxRun
  <2>4. IF o > last THEN t.rx[i] = s.rx[i] ELSE ~ t.rx[i].own
    BY OffIsOffset DEF RxWalked
  <2> HIDE DEF o, n1
  <2>5. last \in Int /\ n \in Int /\ o \in Int /\ n1 \in Int /\ RxLen \in Int
    BY <1>2, <1>4, <2>1
  <2>6. CASE o > last
    <3>1. RxOff(t.chip, i) = o - (last + 1) /\ t.rx[i].own = s.rx[i].own
      BY <2>2, <2>4, <2>5, <2>6
    <3>2. o - (last + 1) < n1 <=> o < n
      BY <1>4, <2>5
    <3> QED BY <2>3, <3>1, <3>2
  <2>7. CASE ~ (o > last)
    <3>1. RxOff(t.chip, i) = o - (last + 1) + RxLen /\ ~ t.rx[i].own
      BY <2>2, <2>4, <2>5, <2>7
    <3>2. ~ (o - (last + 1) + RxLen < n1)
      BY <1>4, <2>1, <2>5
    <3> QED BY <3>1, <3>2
  <2> QED BY <2>5, <2>6, <2>7
<1> QED BY <1>4, <1>6, <1>7 DEF RxStep

(* Receive touches the receive side only: it leaves the ring alone, or      *)
(* walks over descriptors the chip owns and reports it by RINT.             *)
LEMMA ReceiveWalks ==
  ASSUME NEW s \in MachineType, NEW f \in Frame
  PROVE  LET t == Receive(s, f)
         IN  /\ t.tx = s.tx /\ t.chip.txPos = s.chip.txPos /\ t.wire = s.wire
             /\ Stays(s.chip, t.chip)
             /\ \/ t.rx = s.rx /\ t.chip.rxPos = s.chip.rxPos
                \/ /\ "RINT" \in t.chip.csr0
                   /\ \E last \in RxIdx :
                        /\ \A k \in RxIdx : k <= last => s.rx[Adv(s.chip.rxPos, k, RxLen)].own
                        /\ RxWalked(s, t, last)
<1> DEFINE Goal(t) ==
             /\ t.tx = s.tx /\ t.chip.txPos = s.chip.txPos /\ t.wire = s.wire
             /\ Stays(s.chip, t.chip)
             /\ \/ t.rx = s.rx /\ t.chip.rxPos = s.chip.rxPos
                \/ /\ "RINT" \in t.chip.csr0
                   /\ \E last \in RxIdx :
                        /\ \A k \in RxIdx : k <= last => s.rx[Adv(s.chip.rxPos, k, RxLen)].own
                        /\ RxWalked(s, t, last)
           bits == {"ERR", "MISS", "RINT", "INTR"}
           missed == UpdateInterrupts(Raise(s.chip, bits))
           u == StoreRx(s, f)
           last == RxLast(s, f)
<1>1. s.chip \in ChipType /\ u \in MachineType /\ u.chip \in ChipType
  BY StoreRxType, MachineParts
<1>2. Goal(s)
  BY DEF Stays
<1>3. Goal([s EXCEPT !.chip = missed])
  <2> DEFINE t == [s EXCEPT !.chip = missed]
  <2>1. t.tx = s.tx /\ t.rx = s.rx /\ t.wire = s.wire /\ t.chip = missed
    BY DEF MachineType
  <2>2. /\ missed.txPos = s.chip.txPos /\ missed.rxPos = s.chip.rxPos
        /\ missed.csr0 = s.chip.csr0 \cup bits /\ missed.mode = s.chip.mode /\ missed.padr = s.chip.padr
    BY <1>1 DEF UpdateInterrupts, Raise, ChipType
  <2>3. Stays(s.chip, missed)
    BY <2>2 DEF Stays, Settled
  <2> HIDE DEF t, missed
  <2> QED BY <2>1, <2>2, <2>3
<1>4. ASSUME s.rx[s.chip.rxPos].own
      PROVE  Goal([u EXCEPT !.chip = UpdateInterrupts(u.chip)])
  <2> DEFINE t == [u EXCEPT !.chip = UpdateInterrupts(u.chip)]
  <2>1. /\ u.tx = s.tx /\ u.wire = s.wire
        /\ u.chip.txPos = s.chip.txPos /\ u.chip.mode = s.chip.mode /\ u.chip.padr = s.chip.padr
        /\ u.chip.csr0 = s.chip.csr0 \cup {"RINT", "INTR"}
        /\ u.chip.rxPos = Adv(s.chip.rxPos, last + 1, RxLen)
    BY <1>1 DEF StoreRx, MachineType, ChipType
  <2>2. ASSUME NEW i \in RxIdx
        PROVE  IF RxOff(s.chip, i) > last THEN u.rx[i] = s.rx[i] ELSE ~ u.rx[i].own
    <3> DEFINE whole == f.bytes <= (last + 1) * RxBytes
               badFcs == whole /\ ~ f.fcs /\ FcsChecked(s.chip)
               d == FillRx(s.rx[i], f, RxOff(s.chip, i), last, whole, badFcs)
    <3>1. u.rx[i] = IF RxOff(s.chip, i) <= last THEN d ELSE s.rx[i]
      BY DEF StoreRx, MachineType
    <3>2. s.rx[i] \in RxDesc /\ RxOff(s.chip, i) \in RxIdx /\ last \in RxIdx
      BY <1>1, MachineParts, Offsets, RxLastStops
    <3>3. ~ d.own
      BY <3>2 DEF FillRx, RxDesc
    <3> HIDE DEF d, u, last
    <3> QED BY <3>1, <3>2, <3>3 DEF RxIdx
  <2> HIDE DEF u
  <2>3. /\ t.tx = u.tx /\ t.rx = u.rx /\ t.wire = u.wire
        /\ t.chip.txPos = u.chip.txPos /\ t.chip.rxPos = u.chip.rxPos
        /\ t.chip.csr0 = u.chip.csr0 /\ t.chip.mode = u.chip.mode /\ t.chip.padr = u.chip.padr
    BY <1>1 DEF MachineType, UpdateInterrupts, ChipType
  <2> HIDE DEF t, last
  <2>4. Stays(s.chip, t.chip) /\ "RINT" \in t.chip.csr0
    BY <2>1, <2>3 DEF Stays, Settled
  <2>5. RxWalked(s, t, last)
    BY <2>1, <2>2, <2>3 DEF RxWalked
  <2>6. last \in RxIdx
        /\ \A k \in RxIdx : k <= last => s.rx[Adv(s.chip.rxPos, k, RxLen)].own
    BY <1>4, RxLastStops, RxWalkOwned DEF last
  <2>7. Goal(t)
    BY <2>1, <2>3, <2>4, <2>5, <2>6
  <2> QED BY <2>7 DEF t
<1>5. \/ Receive(s, f) = s
      \/ Receive(s, f) = [s EXCEPT !.chip = missed]
      \/ s.rx[s.chip.rxPos].own
         /\ Receive(s, f) = [u EXCEPT !.chip = UpdateInterrupts(u.chip)]
  BY DEF Receive
<1>6. Goal(Receive(s, f))
  <2> HIDE DEF Goal, missed, u
  <2> QED BY <1>2, <1>3, <1>4, <1>5
<1> QED BY <1>6

LEMMA ReceiveRuns ==
  ASSUME NEW s \in MachineType, NEW f \in Frame
  PROVE  Runs(s, Receive(s, f))
<1>1. PICK t \in MachineType : t = Receive(s, f)
  BY ReceiveType
<1>2. /\ t.tx = s.tx /\ t.chip.txPos = s.chip.txPos /\ t.wire = s.wire
      /\ Stays(s.chip, t.chip)
      /\ \/ t.rx = s.rx /\ t.chip.rxPos = s.chip.rxPos
         \/ /\ "RINT" \in t.chip.csr0
            /\ \E last \in RxIdx :
                 /\ \A k \in RxIdx : k <= last => s.rx[Adv(s.chip.rxPos, k, RxLen)].own
                 /\ RxWalked(s, t, last)
  BY <1>1, ReceiveWalks
<1>3. \A rh \in RxIdx : RxStep(s, rh) => RxStep(t, rh)
  <2>1. CASE t.rx = s.rx /\ t.chip.rxPos = s.chip.rxPos
    BY <1>2, <2>1, SameRingsRun
  <2>2. CASE \E last \in RxIdx :
                 /\ \A k \in RxIdx : k <= last => s.rx[Adv(s.chip.rxPos, k, RxLen)].own
                 /\ RxWalked(s, t, last)
    BY <2>2, RxWalkKeepsStep
  <2> QED BY <1>2, <2>1, <2>2
<1>4. \A h \in TxIdx, b \in Nat, dn \in Nat : TxStep(s, h, b, dn) => TxStep(t, h, b, dn)
  <2>1. \A i : TxOff(s.chip, i) = TxOff(t.chip, i)
    BY <1>2 DEF TxOff
  <2>2. \A n, dn : TxRun(s, n, dn) <=> TxRun(t, n, dn)
    BY <1>2, <2>1 DEF TxRun
  <2> QED BY <1>2, <2>2 DEF TxStep
<1>5. Sound(s) => Sound(t)
  BY <1>2 DEF Sound, Underflow, Stays, Settled
<1>6. t.rx # s.rx => "RINT" \in t.chip.csr0
  BY <1>2
<1> QED BY <1>1, <1>2, <1>3, <1>4, <1>5, <1>6 DEF Runs
-----------------------------------------------------------------------------
(* What a transmit walk of last + 1 descriptors leaves: their OWN bits are  *)
(* clear, the last one may carry errors, and nothing else changes.          *)
TxWalked(s, t, last) ==
  /\ t.rx = s.rx /\ t.chip.rxPos = s.chip.rxPos /\ t.taken = s.taken
  /\ t.chip.txPos = Adv(s.chip.txPos, last + 1, TxLen)
  /\ \A i \in TxIdx :
       IF TxOff(s.chip, i) > last THEN t.tx[i] = s.tx[i]
       ELSE /\ ~ t.tx[i].own
            /\ t.tx[i].frag = s.tx[i].frag /\ t.tx[i].enp = s.tx[i].enp
            /\ s.tx[i].err => t.tx[i].err

(* The walk ends inside the run that the chip owns.                         *)
LEMMA TxWalkInRun ==
  ASSUME NEW s \in MachineType, NEW last \in TxIdx, NEW n \in 0 .. TxLen, NEW dn,
         TxRun(s, n, dn),
         \A k \in TxIdx : k <= last => TxAt(s, k).own
  PROVE  last < n
<1>1. /\ TxLen \in Nat \ {0} /\ TxIdx = 0 .. TxLen - 1
      /\ s.chip.txPos \in 0 .. TxLen - 1 /\ last \in 0 .. TxLen - 1
  BY RingAssumption, MachineParts DEF TxIdx, ChipType
<1> SUFFICES ASSUME n <= last PROVE FALSE
  BY <1>1
<1> DEFINE i == Adv(s.chip.txPos, n, TxLen)
<1>2. n \in 0 .. TxLen - 1
  BY <1>1
<1>3. i \in TxIdx /\ Off(s.chip.txPos, i, TxLen) = n
  BY <1>1, <1>2, OffAdv, AdvInRing
<1>4. s.tx[i].own
  BY <1>1, <1>2 DEF TxAt
<1>5. TxOff(s.chip, i) = n
  BY <1>3, OffIsOffset
<1> HIDE DEF i
<1>6. n < n \/ n \in n + 1 .. n + dn
  BY <1>3, <1>4, <1>5 DEF TxRun
<1> QED BY <1>2, <1>6

(* Passing m descriptors of the run leaves a run that is m shorter.         *)
LEMMA TxWalkKeepsRun ==
  ASSUME NEW s \in MachineType, NEW t \in MachineType, NEW last \in TxIdx,
         NEW n \in 0 .. TxLen, NEW b \in Nat, NEW dn \in Nat,
         TxRun(s, n, dn), n + b <= TxLen, dn < b \/ dn = 0,
         last < n, TxWalked(s, t, last)
  PROVE  /\ n - (last + 1) \in 0 .. TxLen
         /\ Adv(s.chip.txPos, n, TxLen) = Adv(t.chip.txPos, n - (last + 1), TxLen)
         /\ TxRun(t, n - (last + 1), dn)
         /\ n - (last + 1) + b <= TxLen
<1>1. /\ TxLen \in Nat \ {0} /\ TxIdx = 0 .. TxLen - 1
      /\ s.chip.txPos \in 0 .. TxLen - 1 /\ t.chip.txPos \in 0 .. TxLen - 1
      /\ last \in 0 .. TxLen - 1 /\ last + 1 \in 0 .. TxLen
  BY RingAssumption, MachineParts, SMTT(30) DEF TxIdx, ChipType
<1> DEFINE p == s.chip.txPos
           q == t.chip.txPos
           n1 == n - (last + 1)
<1>2. n1 \in 0 .. TxLen /\ n = last + 1 + n1 /\ n1 \in 0 .. TxLen - (last + 1)
      /\ n1 + b <= TxLen
  BY <1>1
<1>3. q = Adv(p, last + 1, TxLen)
  BY DEF TxWalked
<1>4. Adv(p, n, TxLen) = Adv(q, n1, TxLen)
  <2> HIDE DEF n1, p, q
  <2>1. \A k \in 0 .. TxLen - (last + 1) :
          Adv(Adv(p, last + 1, TxLen), k, TxLen) = Adv(p, last + 1 + k, TxLen)
    BY <1>1, OffShift DEF p
  <2> QED BY <1>2, <1>3, <2>1
<1>5. TxRun(t, n1, dn)
  <2> SUFFICES ASSUME NEW i \in TxIdx
               PROVE  t.tx[i].own <=>
                        (TxOff(t.chip, i) < n1 \/ TxOff(t.chip, i) \in n1 + 1 .. n1 + dn)
    BY DEF TxRun
  <2> DEFINE o == Off(p, i, TxLen)
  <2>1. o \in 0 .. TxLen - 1
    BY <1>1, OffAdv
  <2>2. TxOff(t.chip, i) = IF o < last + 1 THEN o - (last + 1) + TxLen ELSE o - (last + 1)
    <3>1. \A j \in 0 .. TxLen - 1 :
            Off(Adv(p, last + 1, TxLen), j, TxLen) =
              IF Off(p, j, TxLen) < last + 1 THEN Off(p, j, TxLen) - (last + 1) + TxLen
                                             ELSE Off(p, j, TxLen) - (last + 1)
      BY <1>1, OffShift
    <3>2. TxOff(t.chip, i) = Off(q, i, TxLen) /\ i \in 0 .. TxLen - 1
      BY <1>1, OffIsOffset
    <3> HIDE DEF p, q
    <3> QED BY <1>3, <3>1, <3>2
  <2>3. s.tx[i].own <=> (o < n \/ o \in n + 1 .. n + dn)
    BY OffIsOffset DEF TxRun
  <2>4. IF o > last THEN t.tx[i] = s.tx[i] ELSE ~ t.tx[i].own
    BY OffIsOffset DEF TxWalked
  <2> HIDE DEF o
  <2> QED BY <1>1, <1>2, <2>1, <2>2, <2>3, <2>4
<1> QED BY <1>2, <1>4, <1>5

LEMMA TxWalkKeepsStep ==
  ASSUME NEW s \in MachineType, NEW t \in MachineType, NEW last \in TxIdx,
         NEW h \in TxIdx, NEW b \in Nat, NEW dn \in Nat,
         \A k \in TxIdx : k <= last => TxAt(s, k).own,
         TxWalked(s, t, last), TxStep(s, h, b, dn)
  PROVE  TxStep(t, h, b, dn)
<1>1. PICK n \in 0 .. TxLen : /\ h = Adv(s.chip.txPos, n, TxLen)
                              /\ TxRun(s, n, dn)
                              /\ n + b <= TxLen
                              /\ dn < b \/ dn = 0
  BY DEF TxStep
<1>2. last < n
  BY <1>1, TxWalkInRun
<1>3. /\ n - (last + 1) \in 0 .. TxLen
      /\ Adv(s.chip.txPos, n, TxLen) = Adv(t.chip.txPos, n - (last + 1), TxLen)
      /\ TxRun(t, n - (last + 1), dn)
      /\ n - (last + 1) + b <= TxLen
  BY <1>1, <1>2, TxWalkKeepsRun
<1> QED BY <1>1, <1>3 DEF TxStep

(* Releasing the descriptors of a walk, with or without a report; m has the *)
(* rings and the positions of s.                                            *)
LEMMA ReleaseWalks ==
  ASSUME NEW s \in MachineType, NEW m \in MachineType, NEW last \in TxIdx,
         m.tx = s.tx, m.rx = s.rx, m.taken = s.taken,
         m.chip.txPos = s.chip.txPos, m.chip.rxPos = s.chip.rxPos
  PROVE  \A err \in BOOLEAN, tmd3 \in SUBSET {"BUFF", "UFLO", "RTRY"} :
           \A t \in {ReleaseTx(m, last, err, tmd3), SendComplete(m, last, err, tmd3)} :
             /\ t \in MachineType
             /\ TxWalked(s, t, last)
             /\ t.wire = m.wire /\ t.chip.mode = m.chip.mode /\ t.chip.padr = m.chip.padr
             /\ t.chip.csr0 \in {m.chip.csr0, m.chip.csr0 \cup {"TINT", "INTR"}}
             /\ Underflow(t) => Underflow(s) \/ "UFLO" \in tmd3
<1> TAKE err \in BOOLEAN, tmd3 \in SUBSET {"BUFF", "UFLO", "RTRY"}
<1> DEFINE u == ReleaseTx(m, last, err, tmd3)
           v == SendComplete(m, last, err, tmd3)
<1>1. u \in MachineType /\ v \in MachineType /\ u.chip \in ChipType /\ m.chip \in ChipType
  BY ReleaseTxType, MachineParts
<1>2. /\ u.rx = s.rx /\ u.wire = m.wire /\ u.taken = s.taken
      /\ u.chip.rxPos = s.chip.rxPos /\ u.chip.mode = m.chip.mode /\ u.chip.padr = m.chip.padr
      /\ u.chip.txPos = Adv(s.chip.txPos, last + 1, TxLen)
      /\ u.chip.csr0 = m.chip.csr0
  BY <1>1 DEF ReleaseTx, MachineType, ChipType
<1>3. ASSUME NEW i \in TxIdx
      PROVE  /\ IF TxOff(s.chip, i) > last THEN u.tx[i] = s.tx[i]
                ELSE /\ ~ u.tx[i].own
                     /\ u.tx[i].frag = s.tx[i].frag /\ u.tx[i].enp = s.tx[i].enp
                     /\ s.tx[i].err => u.tx[i].err
             /\ "UFLO" \in u.tx[i].tmd3 => "UFLO" \in s.tx[i].tmd3 \/ "UFLO" \in tmd3
  <2> DEFINE d == [s.tx[i] EXCEPT !.own = FALSE, !.err = @ \/ err,
                                  !.tmd3 = IF tmd3 = {} THEN @ ELSE tmd3]
             e == [s.tx[i] EXCEPT !.own = FALSE]
  <2>1. s.tx[i] \in TxDesc
    BY MachineParts
  <2>2. TxOff(m.chip, i) = TxOff(s.chip, i)
    BY DEF TxOff
  <2>3. u.tx[i] = IF TxOff(s.chip, i) > last THEN s.tx[i]
                  ELSE IF TxOff(s.chip, i) = last THEN d ELSE e
    <3>1. u.tx[i] = IF TxOff(m.chip, i) > last THEN s.tx[i]
                    ELSE IF TxOff(m.chip, i) = last THEN d ELSE e
      BY DEF ReleaseTx, MachineType
    <3> HIDE DEF u, d, e
    <3> QED BY <2>2, <3>1
  <2>4. /\ ~ d.own /\ d.frag = s.tx[i].frag /\ d.enp = s.tx[i].enp
        /\ s.tx[i].err => d.err
        /\ d.tmd3 = IF tmd3 = {} THEN s.tx[i].tmd3 ELSE tmd3
    BY <2>1 DEF TxDesc
  <2>5. /\ ~ e.own /\ e.frag = s.tx[i].frag /\ e.enp = s.tx[i].enp
        /\ e.err = s.tx[i].err /\ e.tmd3 = s.tx[i].tmd3
    BY <2>1 DEF TxDesc
  <2>6. u.tx[i] = s.tx[i] \/ u.tx[i] = d \/ u.tx[i] = e
    BY <2>3
  <2>7. TxOff(s.chip, i) > last \/ u.tx[i] = d \/ u.tx[i] = e
    BY <2>3
  <2>8. TxOff(s.chip, i) > last => u.tx[i] = s.tx[i]
    BY <2>3
  <2> HIDE DEF u, d, e
  <2> QED BY <2>4, <2>5, <2>6, <2>7, <2>8
<1> HIDE DEF u
<1>4. TxWalked(s, u, last) /\ (Underflow(u) => Underflow(s) \/ "UFLO" \in tmd3)
  BY <1>2, <1>3 DEF TxWalked, Underflow
<1>5. /\ v.tx = u.tx /\ v.rx = u.rx /\ v.wire = u.wire /\ v.taken = u.taken
      /\ v.chip.txPos = u.chip.txPos /\ v.chip.rxPos = u.chip.rxPos
      /\ v.chip.mode = u.chip.mode /\ v.chip.padr = u.chip.padr /\ v.chip.csr0 = u.chip.csr0 \cup {"TINT", "INTR"}
  BY <1>1 DEF SendComplete, MachineType, UpdateInterrupts, Raise, ChipType, u
<1> HIDE DEF v
<1>6. TxWalked(s, v, last) /\ (Underflow(v) => Underflow(s) \/ "UFLO" \in tmd3)
  BY <1>4, <1>5 DEF TxWalked, Underflow
<1>7. \A t \in {u, v} :
             /\ t \in MachineType
             /\ TxWalked(s, t, last)
             /\ t.wire = m.wire /\ t.chip.mode = m.chip.mode /\ t.chip.padr = m.chip.padr
             /\ t.chip.csr0 \in {m.chip.csr0, m.chip.csr0 \cup {"TINT", "INTR"}}
             /\ Underflow(t) => Underflow(s) \/ "UFLO" \in tmd3
  BY <1>1, <1>2, <1>4, <1>5, <1>6
<1> QED BY <1>7 DEF u, v

(* lance_transmit from a descriptor the chip owns: a walk over the run; the *)
(* registers keep what they settle, an underrun turns the transmitter off,  *)
(* and outside loopback the frame goes to the wire.                         *)
LEMMA TransmitWalks ==
  ASSUME NEW s \in MachineType, s.tx[s.chip.txPos].own
  PROVE  LET t == Transmit(s).machine
         IN  /\ t \in MachineType
             /\ \A k \in TxIdx : k <= TxLast(s) => TxAt(s, k).own
             /\ TxWalked(s, t, TxLast(s))
             /\ Stays(s.chip, t.chip)
             /\ Underflow(t) => Underflow(s) \/ "TXON" \notin t.chip.csr0
             /\ t.wire \in {s.wire, Append(s.wire, TxFrame(s))}
             /\ "LOOP" \notin s.chip.mode /\ ~ TxAt(s, TxLast(s)).empty
                  => t.wire = Append(s.wire, TxFrame(s))
<1> DEFINE idle == Walked(s)
           sent == [idle EXCEPT !.wire = Append(@, TxFrame(s))]
           last == TxLast(s)
           loud == "LOOP" \notin s.chip.mode /\ ~ TxAt(s, last).empty
           Goal(t) ==
             /\ t \in MachineType
             /\ TxWalked(s, t, last)
             /\ Stays(s.chip, t.chip)
             /\ Underflow(t) => Underflow(s) \/ "TXON" \notin t.chip.csr0
             /\ t.wire \in {s.wire, Append(s.wire, TxFrame(s))}
             /\ loud => t.wire = Append(s.wire, TxFrame(s))
<1>1. last \in TxIdx /\ \A k \in TxIdx : k <= last => TxAt(s, k).own
  BY TxLastStops, TxWalkOwned
<1>2. /\ idle \in MachineType /\ idle.tx = s.tx /\ idle.rx = s.rx /\ idle.wire = s.wire
      /\ idle.taken = s.taken
      /\ idle.chip.txPos = s.chip.txPos /\ idle.chip.rxPos = s.chip.rxPos
      /\ idle.chip.mode = s.chip.mode /\ idle.chip.padr = s.chip.padr
      /\ \E off \in {{}, {"TXON"}}, babble \in {{}, {"ERR", "BABL"}} :
           idle.chip.csr0 = (s.chip.csr0 \ off) \cup babble
      /\ Underran(s) => "TXON" \notin idle.chip.csr0
  <2>1. idle \in MachineType
    BY FinishType
  <2>2. idle.tx = s.tx /\ idle.rx = s.rx /\ idle.wire = s.wire /\ idle.taken = s.taken
    BY DEF Walked, MachineType
  <2>3. /\ idle.chip.txPos = s.chip.txPos /\ idle.chip.rxPos = s.chip.rxPos
        /\ idle.chip.mode = s.chip.mode /\ idle.chip.padr = s.chip.padr
    BY MachineParts DEF Walked, Underrun, Raise, Lower, MachineType, ChipType
  <2>4. \E off \in {{}, {"TXON"}}, babble \in {{}, {"ERR", "BABL"}} :
          idle.chip.csr0 = (s.chip.csr0 \ off) \cup babble
    BY MachineParts DEF Walked, Underrun, Raise, Lower, MachineType, ChipType
  <2>5. Underran(s) => "TXON" \notin idle.chip.csr0
    BY MachineParts DEF Walked, Underrun, Raise, Lower, MachineType, ChipType
  <2> QED BY <2>1, <2>2, <2>3, <2>4, <2>5
<1>3. /\ sent \in MachineType /\ sent.tx = s.tx /\ sent.rx = s.rx /\ sent.taken = s.taken
      /\ sent.chip = idle.chip /\ sent.wire = Append(s.wire, TxFrame(s))
  <2> HIDE DEF idle
  <2>1. sent \in MachineType
    BY <1>2, TxFrameType, MachineParts
  <2> QED BY <1>2, <2>1 DEF MachineType
<1> HIDE DEF idle, sent, last
<1>4. ASSUME NEW m \in {idle, sent}, NEW err \in BOOLEAN, NEW tmd3 \in {{}, {"RTRY"}},
             loud => m = sent
      PROVE  Goal(Finish(s, m, err, tmd3))
  <2> DEFINE bits == (IF Underran(s) THEN {"UFLO", "BUFF"} ELSE {}) \cup tmd3
             t == Finish(s, m, err, tmd3)
  <2>1. /\ m \in MachineType /\ m.tx = s.tx /\ m.rx = s.rx /\ m.taken = s.taken
        /\ m.chip.txPos = s.chip.txPos /\ m.chip.rxPos = s.chip.rxPos
        /\ m.chip = idle.chip
        /\ m.wire \in {s.wire, Append(s.wire, TxFrame(s))}
        /\ loud => m.wire = Append(s.wire, TxFrame(s))
    BY <1>2, <1>3, <1>4
  <2>2. (Underran(s) \/ err) \in BOOLEAN /\ bits \in SUBSET {"BUFF", "UFLO", "RTRY"}
        /\ ("UFLO" \in bits => Underran(s))
    OBVIOUS
  <2> HIDE DEF bits
  <2>3. t = SendComplete(m, last, Underran(s) \/ err, bits)
    BY DEF Finish, bits, last
  <2>4. \A e \in BOOLEAN, b \in SUBSET {"BUFF", "UFLO", "RTRY"} :
          \A u \in {ReleaseTx(m, last, e, b), SendComplete(m, last, e, b)} :
             /\ u \in MachineType
             /\ TxWalked(s, u, last)
             /\ u.wire = m.wire /\ u.chip.mode = m.chip.mode /\ u.chip.padr = m.chip.padr
             /\ u.chip.csr0 \in {m.chip.csr0, m.chip.csr0 \cup {"TINT", "INTR"}}
             /\ Underflow(u) => Underflow(s) \/ "UFLO" \in b
    BY <1>1, <2>1, ReleaseWalks, SMTT(30)
  <2> HIDE DEF t
  <2>5. /\ t \in MachineType
        /\ TxWalked(s, t, last)
        /\ t.wire = m.wire /\ t.chip.mode = m.chip.mode /\ t.chip.padr = m.chip.padr
        /\ t.chip.csr0 \in {m.chip.csr0, m.chip.csr0 \cup {"TINT", "INTR"}}
        /\ Underflow(t) => Underflow(s) \/ "UFLO" \in bits
    BY <2>2, <2>3, <2>4
  <2>6. Stays(s.chip, t.chip)
    BY <1>2, <2>1, <2>5 DEF Stays, Settled
  <2>7. Underflow(t) => Underflow(s) \/ "TXON" \notin t.chip.csr0
    BY <1>2, <2>1, <2>2, <2>5
  <2>8. Goal(t)
    BY <2>1, <2>5, <2>6, <2>7
  <2> QED BY <2>8 DEF t
<1>5. ASSUME ~ loud PROVE Goal(ReleaseTx(s, last, FALSE, {}))
  <2> DEFINE t == ReleaseTx(s, last, FALSE, {})
             none == {}
  <2>1. FALSE \in BOOLEAN /\ none \in SUBSET {"BUFF", "UFLO", "RTRY"} /\ "UFLO" \notin none
    OBVIOUS
  <2> HIDE DEF none
  <2>2. \A e \in BOOLEAN, b \in SUBSET {"BUFF", "UFLO", "RTRY"} :
          \A u \in {ReleaseTx(s, last, e, b), SendComplete(s, last, e, b)} :
             /\ u \in MachineType
             /\ TxWalked(s, u, last)
             /\ u.wire = s.wire /\ u.chip.mode = s.chip.mode /\ u.chip.padr = s.chip.padr
             /\ u.chip.csr0 \in {s.chip.csr0, s.chip.csr0 \cup {"TINT", "INTR"}}
             /\ Underflow(u) => Underflow(s) \/ "UFLO" \in b
    BY <1>1, ReleaseWalks
  <2>3. t = ReleaseTx(s, last, FALSE, none)
    BY DEF none
  <2> HIDE DEF t
  <2>4. /\ t \in MachineType
        /\ TxWalked(s, t, last)
        /\ t.wire = s.wire /\ t.chip.mode = s.chip.mode /\ t.chip.padr = s.chip.padr
        /\ t.chip.csr0 \in {s.chip.csr0, s.chip.csr0 \cup {"TINT", "INTR"}}
        /\ Underflow(t) => Underflow(s)
    BY <2>1, <2>2, <2>3
  <2>5. Stays(s.chip, t.chip)
    BY <2>4 DEF Stays, Settled
  <2>6. Goal(t)
    BY <1>5, <2>4, <2>5
  <2> QED BY <2>6 DEF t
<1>6. \/ ~ loud /\ Transmit(s).machine = ReleaseTx(s, last, FALSE, {})
      \/ \E m \in {idle, sent}, err \in BOOLEAN, tmd3 \in {{}, {"RTRY"}} :
           (loud => m = sent) /\ Transmit(s).machine = Finish(s, m, err, tmd3)
  <2>1. \/ TxAt(s, last).empty /\ Transmit(s).machine = ReleaseTx(s, last, FALSE, {})
        \/ Transmit(s).machine = Finish(s, sent, FALSE, {})
        \/ "LOOP" \in s.chip.mode /\ Transmit(s).machine = Finish(s, idle, TRUE, {"RTRY"})
        \/ "LOOP" \in s.chip.mode /\ Transmit(s).machine = Finish(s, idle, TRUE, {})
        \/ "LOOP" \in s.chip.mode /\ Transmit(s).machine = Finish(s, idle, FALSE, {})
    BY DEF Transmit, idle, sent, last
  <2> QED BY <2>1
<1>7. Goal(Transmit(s).machine)
  <2> HIDE DEF Goal, loud
  <2> QED BY <1>4, <1>5, <1>6
<1> QED BY <1>1, <1>7 DEF last

LEMMA TransmitRuns ==
  ASSUME NEW s \in MachineType, s.tx[s.chip.txPos].own, "TXON" \in s.chip.csr0
  PROVE  Runs(s, Transmit(s).machine)
<1>1. PICK t \in MachineType : t = Transmit(s).machine
  BY TransmitType
<1>2. /\ \A k \in TxIdx : k <= TxLast(s) => TxAt(s, k).own
      /\ TxWalked(s, t, TxLast(s)) /\ TxLast(s) \in TxIdx
      /\ Stays(s.chip, t.chip)
      /\ Underflow(t) => Underflow(s) \/ "TXON" \notin t.chip.csr0
  BY <1>1, TransmitWalks, TxLastStops
<1>3. \A rh \in RxIdx : RxStep(s, rh) => RxStep(t, rh)
  <2>1. t.rx = s.rx /\ t.chip.rxPos = s.chip.rxPos
    BY <1>2 DEF TxWalked
  <2>2. \A n : RxRun(s, n) <=> RxRun(t, n)
    BY <2>1 DEF RxRun, RxOff
  <2> QED BY <2>1, <2>2 DEF RxStep
<1>4. \A h \in TxIdx, b \in Nat, dn \in Nat : TxStep(s, h, b, dn) => TxStep(t, h, b, dn)
  BY <1>2, TxWalkKeepsStep
<1>5. Sound(s) => Sound(t)
  BY <1>2 DEF Sound, Stays, Settled
<1>6. t.rx # s.rx => "RINT" \in t.chip.csr0
  BY <1>2 DEF TxWalked
<1> QED BY <1>1, <1>2, <1>3, <1>4, <1>5, <1>6 DEF Runs

(* A machine whose rings and positions are those of s, and whose registers  *)
(* settle the same.                                                         *)
LEMMA StaysRuns ==
  ASSUME NEW s, NEW t, s.tx = t.tx, s.rx = t.rx,
         s.chip.txPos = t.chip.txPos, s.chip.rxPos = t.chip.rxPos, Stays(s.chip, t.chip)
  PROVE  Runs(s, t)
<1>1. Sound(s) => Sound(t)
  BY SameRingsRun DEF Sound, Stays, Settled
<1> QED BY <1>1, SameRingsRun DEF Runs

(* Skipping one descriptor the chip owns.                                   *)
LEMMA SkipRuns ==
  ASSUME NEW s \in MachineType, s.tx[s.chip.txPos].own
  PROVE  Runs(s, ReleaseTx(s, 0, FALSE, {}))
<1> DEFINE none == {}
<1>1. 0 \in TxIdx /\ \A k \in TxIdx : k <= 0 => TxAt(s, k).own
  <2>1. 0 \in TxIdx /\ \A k \in TxIdx : k <= 0 => k = 0
    BY RingAssumption DEF TxIdx
  <2>2. Adv(s.chip.txPos, 0, TxLen) = s.chip.txPos
    BY MachineParts, RingAssumption DEF Adv, ChipType, TxIdx
  <2> QED BY <2>1, <2>2 DEF TxAt
<1>2. FALSE \in BOOLEAN /\ none \in SUBSET {"BUFF", "UFLO", "RTRY"} /\ "UFLO" \notin none
  OBVIOUS
<1> HIDE DEF none
<1>3. PICK t : t = ReleaseTx(s, 0, FALSE, none)
  OBVIOUS
<1>4. \A e \in BOOLEAN, b \in SUBSET {"BUFF", "UFLO", "RTRY"} :
        \A u \in {ReleaseTx(s, 0, e, b), SendComplete(s, 0, e, b)} :
           /\ u \in MachineType
           /\ TxWalked(s, u, 0)
           /\ u.wire = s.wire /\ u.chip.mode = s.chip.mode /\ u.chip.padr = s.chip.padr
           /\ u.chip.csr0 \in {s.chip.csr0, s.chip.csr0 \cup {"TINT", "INTR"}}
           /\ Underflow(u) => Underflow(s) \/ "UFLO" \in b
  BY <1>1, ReleaseWalks
<1>5. /\ t \in MachineType /\ TxWalked(s, t, 0) /\ t.chip.mode = s.chip.mode /\ t.chip.padr = s.chip.padr
      /\ t.chip.csr0 \in {s.chip.csr0, s.chip.csr0 \cup {"TINT", "INTR"}}
      /\ Underflow(t) => Underflow(s)
  BY <1>2, <1>3, <1>4
<1>6. \A rh \in RxIdx : RxStep(s, rh) => RxStep(t, rh)
  <2>1. t.rx = s.rx /\ t.chip.rxPos = s.chip.rxPos
    BY <1>5 DEF TxWalked
  <2>2. \A n : RxRun(s, n) <=> RxRun(t, n)
    BY <2>1 DEF RxRun, RxOff
  <2> QED BY <2>1, <2>2 DEF RxStep
<1>7. \A h \in TxIdx, b \in Nat, dn \in Nat : TxStep(s, h, b, dn) => TxStep(t, h, b, dn)
  BY <1>1, <1>5, TxWalkKeepsStep
<1>8. Stays(s.chip, t.chip)
  BY <1>5 DEF Stays, Settled
<1>9. Sound(s) => Sound(t)
  BY <1>5, <1>8 DEF Sound, Stays, Settled
<1>10. t.rx # s.rx => "RINT" \in t.chip.csr0
  BY <1>5 DEF TxWalked
<1>11. Runs(s, t)
  BY <1>6, <1>7, <1>8, <1>9, <1>10 DEF Runs
<1> QED BY <1>3, <1>11 DEF none

(* lance_transmit_poll as a whole.                                          *)
LEMMA TransmitPollRuns ==
  ASSUME NEW s \in MachineType
  PROVE  Runs(s, TransmitPoll(s))
<1> DEFINE t == [s EXCEPT !.chip = TakeDemand(@)]
           r == Transmit(t)
<1>1. /\ t \in MachineType
      /\ t.tx = s.tx /\ t.rx = s.rx
      /\ t.chip.txPos = s.chip.txPos /\ t.chip.rxPos = s.chip.rxPos
      /\ Stays(s.chip, t.chip)
      /\ "TXON" \in s.chip.csr0 => "TXON" \in t.chip.csr0
  <2>1. TakeDemand(s.chip) \in ChipType
    BY MachineParts, ChipOpsType
  <2>2. t \in MachineType
    BY <2>1, MachineParts
  <2>3. /\ t.tx = s.tx /\ t.rx = s.rx
        /\ t.chip.txPos = s.chip.txPos /\ t.chip.rxPos = s.chip.rxPos
        /\ t.chip.csr0 = s.chip.csr0 \ {"TDMD"} /\ t.chip.mode = s.chip.mode /\ t.chip.padr = s.chip.padr
    BY MachineParts DEF TakeDemand, Lower, MachineType, ChipType
  <2> HIDE DEF t
  <2>4. Stays(s.chip, t.chip) /\ ("TXON" \in s.chip.csr0 => "TXON" \in t.chip.csr0)
    BY <2>3 DEF Stays, Settled
  <2> QED BY <2>2, <2>3, <2>4
<1> HIDE DEF t
<1>2. Runs(s, s) /\ Runs(s, t)
  <2>1. Stays(s.chip, s.chip)
    BY DEF Stays
  <2> QED BY <1>1, <2>1, StaysRuns
<1>3. ASSUME s.tx[s.chip.txPos].own PROVE Runs(s, ReleaseTx(t, 0, FALSE, {}))
  <2>1. Runs(t, ReleaseTx(t, 0, FALSE, {}))
    BY <1>1, <1>3, SkipRuns
  <2> QED BY <1>2, <2>1, RunsTrans
<1>4. ASSUME s.tx[s.chip.txPos].own, "TXON" \in s.chip.csr0
      PROVE  Runs(s, r.machine) /\ Runs(s, Receive(r.machine, r.loop))
  <2>1. Runs(t, r.machine)
    BY <1>1, <1>4, TransmitRuns
  <2>2. r.machine \in MachineType /\ r.loop \in Frame
    BY <1>1, TransmitType
  <2> HIDE DEF r
  <2>3. Runs(r.machine, Receive(r.machine, r.loop))
    BY <2>2, ReceiveRuns
  <2>4. Runs(s, r.machine)
    BY <1>2, <2>1, RunsTrans
  <2> QED BY <2>3, <2>4, RunsTrans
<1>5. \/ TransmitPoll(s) = s
      \/ TransmitPoll(s) = t
      \/ s.tx[s.chip.txPos].own /\ TransmitPoll(s) = ReleaseTx(t, 0, FALSE, {})
      \/ /\ s.tx[s.chip.txPos].own /\ "TXON" \in s.chip.csr0
         /\ TransmitPoll(s) = r.machine \/ TransmitPoll(s) = Receive(r.machine, r.loop)
  BY Zenon DEF TransmitPoll, t
<1> HIDE DEF r
<1> QED BY <1>2, <1>3, <1>4, <1>5
-----------------------------------------------------------------------------
(* A write to CSR0 that neither stops nor initialises the chip: it lowers   *)
(* the causes it acknowledges, starts the chip and polls the transmit ring  *)
(* at most twice, and brings the summary bits up to date.                   *)
Alike(s, t) ==
  /\ s.tx = t.tx /\ s.rx = t.rx /\ s.wire = t.wire /\ s.taken = t.taken
  /\ s.chip.txPos = t.chip.txPos /\ s.chip.rxPos = t.chip.rxPos
  /\ s.chip.mode = t.chip.mode /\ s.chip.padr = t.chip.padr

(* With the transmitter on, the receiver is on too unless MODE disables it. *)
Hears(c) == "TXON" \in c.csr0 /\ "DRX" \notin c.mode => "RXON" \in c.csr0

(* STRT is set afterwards, and if it was set before, the transmitter is not *)
(* turned on.                                                               *)
Started(c, d) ==
  /\ \A bit \in {"INIT", "INEA", "IDON", "TINT"} : bit \in d.csr0 <=> bit \in c.csr0
  /\ "RINT" \in c.csr0 => "RINT" \in d.csr0
  /\ "STOP" \in d.csr0 => "STOP" \in c.csr0
  /\ "STRT" \in d.csr0
  /\ "STRT" \in c.csr0 /\ "TXON" \in d.csr0 => "TXON" \in c.csr0
  /\ Hears(c) => Hears(d)

LEMMA StartSteps ==
  ASSUME NEW s \in MachineType, NEW data \in SUBSET Csr0Bits
  PROVE  \A t \in {DoStrt(s, data), DoTdmd(s, data)} :
           \/ t = s
           \/ \E u \in MachineType :
                Alike(s, u) /\ Started(s.chip, u.chip) /\ t = TransmitPoll(u)
<1> DEFINE strt == [s EXCEPT !.chip.csr0 = (@ \ {"STOP", "RXON", "TXON"})
                                \cup {"STRT"} \cup Enabled(s.chip.mode),
                             !.chip.poll = 1]
           tdmd == [s EXCEPT !.chip.csr0 = @ \cup {"TDMD"} \cup Implicit(s.chip),
                             !.chip.poll = 1]
<1>1. s.chip \in ChipType
  BY MachineParts
<1>2. Enabled(s.chip.mode) \in SUBSET {"RXON", "TXON"}
  BY DEF Enabled
<1>3. Implicit(s.chip) = IF "STRT" \in s.chip.csr0 THEN {}
                         ELSE {"STRT"} \cup Enabled(s.chip.mode)
  BY DEF Implicit
<1>4. {"TDMD", "STRT", "RXON", "TXON"} \in SUBSET Csr0Bits /\ 1 \in 1 .. PollTicks
  BY DEF Csr0Bits, PollTicks
<1>5. strt \in MachineType /\ tdmd \in MachineType
  <2>1. (s.chip.csr0 \ {"STOP", "RXON", "TXON"}) \cup {"STRT"} \cup Enabled(s.chip.mode)
          \in SUBSET Csr0Bits
    BY <1>1, <1>2, <1>4 DEF ChipType
  <2>2. s.chip.csr0 \cup {"TDMD"} \cup Implicit(s.chip) \in SUBSET Csr0Bits
    BY <1>1, <1>2, <1>3, <1>4 DEF ChipType
  <2> QED BY <1>1, <1>4, <2>1, <2>2, MachineParts DEF ChipType, MachineType
<1>6. Alike(s, strt) /\ Alike(s, tdmd)
  BY <1>1 DEF Alike, ChipType, MachineType
<1>7. /\ strt.chip.csr0 = (s.chip.csr0 \ {"STOP", "RXON", "TXON"})
                            \cup {"STRT"} \cup Enabled(s.chip.mode)
      /\ tdmd.chip.csr0 = s.chip.csr0 \cup {"TDMD"} \cup Implicit(s.chip)
  BY <1>1 DEF ChipType, MachineType
<1>8. \/ DoStrt(s, data) = s
      \/ "STRT" \notin s.chip.csr0 /\ DoStrt(s, data) = TransmitPoll(strt)
  BY DEF DoStrt
<1>9. \/ DoTdmd(s, data) = s
      \/ DoTdmd(s, data) = TransmitPoll(tdmd)
  BY DEF DoTdmd
<1> HIDE DEF strt, tdmd
<1>h. /\ "DRX" \notin s.chip.mode => "RXON" \in Enabled(s.chip.mode)
      /\ strt.chip.mode = s.chip.mode /\ tdmd.chip.mode = s.chip.mode
  BY <1>6 DEF Enabled, Alike
<1>10. "STRT" \notin s.chip.csr0 => Started(s.chip, strt.chip)
  <2>1. Hears(strt.chip)
    BY <1>2, <1>7, <1>h DEF Hears
  <2> QED BY <1>2, <1>7, <2>1 DEF Started
<1>11. Started(s.chip, tdmd.chip)
  <2>1. Hears(s.chip) => Hears(tdmd.chip)
    BY <1>2, <1>3, <1>7, <1>h DEF Hears
  <2> QED BY <1>2, <1>3, <1>7, <2>1 DEF Started
<1> QED BY <1>5, <1>6, <1>8, <1>9, <1>10, <1>11

(* The write as a chain of such steps.                                      *)
LEMMA WriteCsr0Steps ==
  ASSUME NEW s \in MachineType, NEW data \in SUBSET Csr0Bits, NEW block \in BlockType,
         "STOP" \notin data
  PROVE  \E s1, s2, s3, s4 \in MachineType :
           /\ Alike(s, s1) /\ s1.chip.csr0 = s.chip.csr0 \ Acked(data)
           /\ s2 = DoInit(s1, data, block)
           /\ s3 = DoStrt(s2, data)
           /\ s4 = DoTdmd(s3, data)
           /\ Alike(s4, WriteCsr0(s, data, block))
           /\ \A bit \in {"INIT", "RINT", "STOP", "STRT", "TXON", "RXON", "IDON", "TINT"} :
                bit \in WriteCsr0(s, data, block).chip.csr0 <=> bit \in s4.chip.csr0
           /\ "INEA" \in WriteCsr0(s, data, block).chip.csr0 <=> "INEA" \in data
<1> DEFINE s1 == [s EXCEPT !.chip = Lower(@, Acked(data))]
           s2 == DoInit(s1, data, block)
           s3 == DoStrt(s2, data)
           s4 == DoTdmd(s3, data)
           w  == Summarise(s4, data)
<1>1. /\ s1 \in MachineType /\ Alike(s, s1)
      /\ s1.chip.csr0 = s.chip.csr0 \ Acked(data)
  <2>1. Acked(data) \in SUBSET Csr0Bits
    BY DEF Acked, Csr0Bits
  <2>2. Lower(s.chip, Acked(data)) \in ChipType
    BY <2>1, MachineParts, ChipOpsType
  <2>3. s1 \in MachineType
    BY <2>2, MachineParts
  <2>4. s1.chip.csr0 = s.chip.csr0 \ Acked(data)
    BY MachineParts DEF Lower, MachineType, ChipType
  <2>5. Alike(s, s1)
    BY MachineParts DEF Lower, MachineType, ChipType, Alike
  <2> QED BY <2>3, <2>4, <2>5
<1>2. WriteCsr0(s, data, block) = w
  BY DEF WriteCsr0
<1> HIDE DEF s1
<1>3. s2 \in MachineType
  <2>1. Initialize(s1.chip, block) \in ChipType
    BY <1>1, MachineParts, ChipOpsType DEF BlockType
  <2>2. [s1 EXCEPT !.chip = Initialize(@, block)] \in MachineType
    BY <1>1, <2>1, MachineParts
  <2> QED BY <1>1, <2>2 DEF DoInit
<1> HIDE DEF s2
<1>4. s3 \in MachineType
  BY <1>3, StartType
<1> HIDE DEF s3
<1>5. s4 \in MachineType /\ s4.chip \in ChipType
  BY <1>4, StartType, MachineParts
<1> HIDE DEF s4
<1>6. /\ Alike(s4, w)
      /\ \A bit \in {"INIT", "RINT", "STOP", "STRT", "TXON", "RXON", "IDON", "TINT"} :
           bit \in w.chip.csr0 <=> bit \in s4.chip.csr0
      /\ "INEA" \in w.chip.csr0 <=> "INEA" \in data
  <2> DEFINE kept == s4.chip.csr0 \ {"INEA", "ERR", "INTR"}
             csr0 == kept \cup (data \cap {"INEA"})
                       \cup (IF kept \cap Faults # {} THEN {"ERR"} ELSE {})
                       \cup (IF kept \cap Causes # {} THEN {"INTR"} ELSE {})
  <2>1. w.chip.csr0 = csr0 /\ Alike(s4, w)
    BY <1>5 DEF Summarise, UpdateInterrupts, MachineType, ChipType, Alike
  <2>2. \A bit \in {"INIT", "RINT", "STOP", "STRT", "TXON", "RXON", "IDON", "TINT"} :
          bit \in csr0 <=> bit \in s4.chip.csr0
    OBVIOUS
  <2>3. "INEA" \in csr0 <=> "INEA" \in data
    OBVIOUS
  <2> HIDE DEF w, csr0
  <2> QED BY <2>1, <2>2, <2>3
<1> QED BY <1>1, <1>2, <1>3, <1>4, <1>5, <1>6 DEF s2, s3, s4

(* What a poll after a start, or none, does: what Runs says, except that    *)
(* the transmitter and the receiver may come on.                            *)
Drives(s, t) ==
  /\ \A rh \in RxIdx : RxStep(s, rh) => RxStep(t, rh)
  /\ \A h \in TxIdx, b \in Nat, dn \in Nat : TxStep(s, h, b, dn) => TxStep(t, h, b, dn)
  /\ Sound(s) => Sound(t)
  /\ t.rx # s.rx => "RINT" \in t.chip.csr0
  /\ "RINT" \in s.chip.csr0 => "RINT" \in t.chip.csr0
  /\ "INIT" \in t.chip.csr0 <=> "INIT" \in s.chip.csr0

LEMMA DrivesTrans ==
  ASSUME NEW s, NEW t, NEW u, Drives(s, t), Drives(t, u)
  PROVE  Drives(s, u)
BY DEF Drives

LEMMA StartDrives ==
  ASSUME NEW s \in MachineType, NEW data \in SUBSET Csr0Bits
  PROVE  \A t \in {DoStrt(s, data), DoTdmd(s, data)} : Drives(s, t)
<1> TAKE t \in {DoStrt(s, data), DoTdmd(s, data)}
<1>1. CASE t = s
  BY <1>1 DEF Drives
<1>2. ASSUME NEW u \in MachineType, Alike(s, u), Started(s.chip, u.chip), t = TransmitPoll(u)
      PROVE  Drives(s, t)
  <2>1. Drives(s, u)
    <3>1. Sound(s) => Sound(u)
      <4>1. Underflow(s) <=> Underflow(u)
        BY <1>2, SameRingsRun DEF Alike
      <4> QED BY <1>2, <4>1 DEF Sound, Started
    <3> QED BY <1>2, <3>1, SameRingsRun DEF Drives, Alike, Started
  <2>2. Drives(u, t)
    BY <1>2, TransmitPollRuns DEF Drives, Runs, Stays, Settled
  <2> QED BY <2>1, <2>2, DrivesTrans
<1> QED BY <1>1, <1>2, StartSteps, Zenon

(* The chain from the initialisation on.                                    *)
LEMMA TailDrives ==
  ASSUME NEW s \in MachineType, NEW data \in SUBSET Csr0Bits,
         NEW s3 \in MachineType, NEW s4 \in MachineType, NEW t,
         s3 = DoStrt(s, data), s4 = DoTdmd(s3, data), Alike(s4, t),
         \A bit \in {"INIT", "RINT", "STOP", "STRT", "TXON", "RXON", "IDON", "TINT"} :
           bit \in t.chip.csr0 <=> bit \in s4.chip.csr0
  PROVE  Drives(s, t)
<1>1. Drives(s, s4)
  <2>1. Drives(s, s3) /\ Drives(s3, s4)
    BY StartDrives
  <2> QED BY <2>1, DrivesTrans
<1>2. Drives(s4, t)
  <2>1. Underflow(s4) <=> Underflow(t)
    BY SameRingsRun DEF Alike
  <2>2. Sound(s4) => Sound(t)
    BY <2>1 DEF Sound
  <2> QED BY <2>2, SameRingsRun DEF Alike, Drives
<1> QED BY <1>1, <1>2, DrivesTrans

LEMMA WriteCsr0Drives ==
  ASSUME NEW s \in MachineType, NEW data \in SUBSET Csr0Bits, NEW block \in BlockType,
         "STOP" \notin data, "INIT" \notin data
  PROVE  LET t == WriteCsr0(s, data, block)
         IN  /\ \A rh \in RxIdx : RxStep(s, rh) => RxStep(t, rh)
             /\ \A h \in TxIdx, b \in Nat, dn \in Nat :
                  TxStep(s, h, b, dn) => TxStep(t, h, b, dn)
             /\ Sound(s) => Sound(t)
             /\ t.rx # s.rx => "RINT" \in t.chip.csr0
             /\ "RINT" \in s.chip.csr0 /\ "RINT" \notin data => "RINT" \in t.chip.csr0
             /\ "INIT" \in t.chip.csr0 <=> "INIT" \in s.chip.csr0
             /\ "INEA" \in t.chip.csr0 <=> "INEA" \in data
<1>1. PICK t : t = WriteCsr0(s, data, block)
  OBVIOUS
<1>2. PICK s1, s2, s3, s4 \in MachineType :
        /\ Alike(s, s1) /\ s1.chip.csr0 = s.chip.csr0 \ Acked(data)
        /\ s2 = DoInit(s1, data, block)
        /\ s3 = DoStrt(s2, data)
        /\ s4 = DoTdmd(s3, data)
        /\ Alike(s4, t)
        /\ \A bit \in {"INIT", "RINT", "STOP", "STRT", "TXON", "RXON", "IDON", "TINT"} :
             bit \in t.chip.csr0 <=> bit \in s4.chip.csr0
        /\ "INEA" \in t.chip.csr0 <=> "INEA" \in data
  BY <1>1, WriteCsr0Steps
<1>3. Drives(s1, t)
  <2>1. s2 = s1
    BY <1>2 DEF DoInit
  <2> QED BY <1>2, <2>1, TailDrives
<1>4. \A bit \in {"INIT", "STRT", "TXON"} : bit \in s1.chip.csr0 <=> bit \in s.chip.csr0
  BY <1>2 DEF Acked, Acks, Causes, Faults
<1>5. /\ \A rh \in RxIdx : RxStep(s, rh) => RxStep(s1, rh)
      /\ \A h \in TxIdx, b \in Nat, dn \in Nat : TxStep(s, h, b, dn) => TxStep(s1, h, b, dn)
      /\ Sound(s) => Sound(s1)
      /\ "RINT" \in s.chip.csr0 /\ "RINT" \notin data => "RINT" \in s1.chip.csr0
  <2>1. Sound(s) => Sound(s1)
    <3>1. Underflow(s) <=> Underflow(s1)
      BY <1>2, SameRingsRun DEF Alike
    <3> QED BY <1>4, <3>1 DEF Sound
  <2>2. "RINT" \in s.chip.csr0 /\ "RINT" \notin data => "RINT" \in s1.chip.csr0
    BY <1>2 DEF Acked
  <2> QED BY <1>2, <2>1, <2>2, SameRingsRun DEF Alike
<1>6. s1.rx = s.rx
  BY <1>2 DEF Alike
<1> QED BY <1>1, <1>2, <1>3, <1>4, <1>5, <1>6 DEF Drives

(* The write that initialises the chip, on rings as the driver has just     *)
(* built them: the positions go to 0.                                       *)
LEMMA InitDrives ==
  ASSUME NEW s \in MachineType, NEW data \in SUBSET Csr0Bits, NEW block \in BlockType,
         "STOP" \notin data, "INIT" \in data, data \cap Acks = {},
         "INIT" \notin s.chip.csr0
  PROVE  \E u \in MachineType :
           /\ u.tx = s.tx /\ u.rx = s.rx /\ u.chip.txPos = 0 /\ u.chip.rxPos = 0
           /\ {"INIT", "STRT", "TXON", "RXON", "STOP"} \cap u.chip.csr0 = {}
           /\ "RINT" \in s.chip.csr0 => "RINT" \in u.chip.csr0
           /\ Drives(u, WriteCsr0(s, data, block))
           /\ "INEA" \in WriteCsr0(s, data, block).chip.csr0 <=> "INEA" \in data
<1>1. PICK t : t = WriteCsr0(s, data, block)
  OBVIOUS
<1>2. PICK s1, s2, s3, s4 \in MachineType :
        /\ Alike(s, s1) /\ s1.chip.csr0 = s.chip.csr0 \ Acked(data)
        /\ s2 = DoInit(s1, data, block)
        /\ s3 = DoStrt(s2, data)
        /\ s4 = DoTdmd(s3, data)
        /\ Alike(s4, t)
        /\ \A bit \in {"INIT", "RINT", "STOP", "STRT", "TXON", "RXON", "IDON", "TINT"} :
             bit \in t.chip.csr0 <=> bit \in s4.chip.csr0
        /\ "INEA" \in t.chip.csr0 <=> "INEA" \in data
  BY <1>1, WriteCsr0Steps
<1>3. Drives(s2, t)
  BY <1>2, TailDrives
<1>4. s1.chip.csr0 = s.chip.csr0
  BY <1>2 DEF Acked
<1>5. s2 = [s1 EXCEPT !.chip = Initialize(@, block)] /\ s1.chip \in ChipType
  BY <1>2, <1>4, MachineParts DEF DoInit
<1>6. /\ s2.tx = s1.tx /\ s2.rx = s1.rx /\ s2.chip.txPos = 0 /\ s2.chip.rxPos = 0
      /\ s2.chip.csr0 = (s1.chip.csr0 \ {"INIT", "STOP", "STRT", "TXON", "RXON"})
                          \cup {"IDON", "INTR"}
  BY <1>5, ZenonT(40) DEF Initialize, UpdateInterrupts, MachineType, ChipType
<1>7. s2.tx = s.tx /\ s2.rx = s.rx
  BY <1>2, <1>6 DEF Alike
<1> QED BY <1>1, <1>2, <1>3, <1>4, <1>6, <1>7
-----------------------------------------------------------------------------
(* The main loop's two handlers, and what they do to rings the driver has   *)
(* built but not handed to the chip yet: nothing, while the transmitter and *)
(* the receiver are off and the wire is quiet.                              *)
LEMMA TickChipRuns ==
  ASSUME NEW s \in MachineType
  PROVE  /\ Runs(s, TickChip(s))
         /\ "TXON" \notin s.chip.csr0 => TickChip(s).tx = s.tx /\ TickChip(s).rx = s.rx
<1>1. s.chip \in ChipType
  BY MachineParts
<1>2. CASE s.chip.poll > 1
  <2> DEFINE t == [s EXCEPT !.chip.poll = @ - 1]
  <2>1. /\ t.tx = s.tx /\ t.rx = s.rx
        /\ t.chip.txPos = s.chip.txPos /\ t.chip.rxPos = s.chip.rxPos
        /\ t.chip.csr0 = s.chip.csr0 /\ t.chip.mode = s.chip.mode /\ t.chip.padr = s.chip.padr
    BY <1>1 DEF MachineType, ChipType
  <2> HIDE DEF t
  <2>2. Runs(s, t)
    BY <2>1, StaysRuns DEF Stays
  <2>3. TickChip(s) = t
    BY <1>2 DEF TickChip, t
  <2> QED BY <2>1, <2>2, <2>3
<1>3. CASE ~ (s.chip.poll > 1)
  <2> DEFINE t == [s EXCEPT !.chip.poll = PollTicks]
  <2>1. t \in MachineType
    <3>1. [s.chip EXCEPT !.poll = PollTicks] \in ChipType
      BY <1>1 DEF ChipType, PollTicks
    <3> QED BY <3>1, MachineParts
  <2>2. /\ t.tx = s.tx /\ t.rx = s.rx
        /\ t.chip.txPos = s.chip.txPos /\ t.chip.rxPos = s.chip.rxPos
        /\ t.chip.csr0 = s.chip.csr0 /\ t.chip.mode = s.chip.mode /\ t.chip.padr = s.chip.padr
    BY <1>1 DEF MachineType, ChipType
  <2>3. TickChip(s) = TransmitPoll(t)
    BY <1>3 DEF TickChip
  <2> HIDE DEF t
  <2>4. Runs(s, t) /\ Runs(t, TransmitPoll(t))
    BY <2>1, <2>2, StaysRuns, TransmitPollRuns DEF Stays
  <2>5. "TXON" \notin s.chip.csr0 => TransmitPoll(t) = t
    BY <2>2 DEF TransmitPoll
  <2> QED BY <2>2, <2>3, <2>4, <2>5, RunsTrans
<1> QED BY <1>2, <1>3

LEMMA RecvRuns ==
  ASSUME NEW s \in MachineType, NEW f \in Frame
  PROVE  /\ Runs(s, Recv(s, f)) /\ Recv(s, f).tx = s.tx
         /\ "RXON" \notin s.chip.csr0 /\ DstOf(f) # "self" => Recv(s, f) = s
<1>1. Runs(s, s)
  BY StaysRuns DEF Stays
<1>2. Runs(s, Receive(s, f)) /\ Receive(s, f).tx = s.tx
  BY ReceiveRuns, ReceiveWalks
<1>3. Recv(s, f) = s \/ (~ InternalLoop(s.chip) /\ Recv(s, f) = Receive(s, f))
  BY DEF Recv
<1>4. "RXON" \notin s.chip.csr0 /\ DstOf(f) # "self" /\ ~ InternalLoop(s.chip)
        => Receive(s, f) = s
  BY DEF Receive, Accepts, SelfAddressed
<1> QED BY <1>1, <1>2, <1>3, <1>4

LEMMA BecomesIs ==
  ASSUME NEW s \in MachineType, Becomes(s)
  PROVE  Machine' = s
BY DEF Becomes, Machine, MachineType
-----------------------------------------------------------------------------
(* The inductive invariant.  Between MakeRings and the write of INIT the    *)
(* chip's positions are stale, so the rings are in step only from INIT on;  *)
(* until then it matters that nothing touches the fresh rings.              *)
NeverInit == "INIT" \notin chip.csr0

FreshUntilInit ==
  drv.phase = "ready" =>
    /\ {"TXON", "RXON"} \cap chip.csr0 = {}
    /\ tx = FreshTx
    /\ QuietWire => rx = FreshRx
    /\ drv.head = 0 /\ drv.build = 0 /\ drv.done = 0 /\ drv.rxHead = 0

IsrRunsUp == drv.isr # "idle" => drv.phase = "up"

LineEnabled == drv.phase = "up" => "INEA" \in chip.csr0

(* A filled buffer that the driver has not begun to read has its RINT.      *)
Reported ==
  drv.phase # "down" /\ drv.isr # "drain" /\ ~ rx[drv.rxHead].own => "RINT" \in chip.csr0

RingInv ==
  /\ NeverInit
  /\ FreshUntilInit
  /\ IsrRunsUp
  /\ LineEnabled
  /\ Reported
  /\ Running => Sound(Machine)
  /\ Running /\ QuietWire => RxStep(Machine, drv.rxHead)
  /\ Running /\ OwnLast => TxStep(Machine, drv.head, drv.build, drv.done)

LEMMA RingInit == Init => RingInv
BY DEF Init, RingInv, NeverInit, FreshUntilInit, IsrRunsUp, LineEnabled, Reported, Running

(* The parts of a well-typed state.                                         *)
LEMMA StateParts ==
  ASSUME TypeOK
  PROVE  /\ Machine \in MachineType /\ drv \in DrvType
         /\ Machine.chip = chip /\ Machine.tx = tx /\ Machine.rx = rx /\ Machine.wire = wire
         /\ tx \in [TxIdx -> TxDesc] /\ rx \in [RxIdx -> RxDesc] /\ chip \in ChipType
         /\ drv.head \in TxIdx /\ drv.rxHead \in RxIdx
         /\ drv.build \in Nat /\ drv.done \in Nat
         /\ drv.block \in BlockType
BY EnvAssumption, RingAssumption DEF TypeOK, Machine, MachineType, DrvType, BlockType

(* A handler that runs between two register writes keeps the invariant.     *)
LEMMA RunsKeepRings ==
  ASSUME TypeOK, RingInv, NEW t \in MachineType, Runs(Machine, t), Becomes(t), drv' = drv,
         drv.phase = "ready" => tx' = tx /\ (QuietWire => rx' = rx)
  PROVE  RingInv'
<1>1. Machine' = t /\ chip' = t.chip /\ rx' = t.rx
  BY BecomesIs DEF Becomes
<1>2. Stays(chip, chip')
  BY <1>1, StateParts DEF Runs
<1>3. NeverInit' /\ IsrRunsUp' /\ LineEnabled'
  BY <1>2 DEF RingInv, NeverInit, IsrRunsUp, LineEnabled, Stays, Settled
<1>4. FreshUntilInit'
  BY <1>2 DEF RingInv, FreshUntilInit, Stays, Settled
<1>5. Reported'
  <2> SUFFICES ASSUME drv.phase # "down", drv.isr # "drain", ~ rx'[drv.rxHead].own
               PROVE  "RINT" \in chip'.csr0
    BY DEF Reported
  <2>1. CASE rx' = rx
    BY <1>2, <2>1 DEF RingInv, Reported, Stays
  <2>2. CASE rx' # rx
    BY <1>1, <2>2, StateParts DEF Runs
  <2> QED BY <2>1, <2>2
<1>6. (Running => Sound(Machine))'
  <2>1. Running => Sound(t)
    BY DEF Runs, RingInv
  <2> QED BY <1>1, <2>1 DEF Running
<1>7. (Running /\ QuietWire => RxStep(Machine, drv.rxHead))'
  <2>1. Running /\ QuietWire => RxStep(t, drv.rxHead)
    BY StateParts DEF Runs, RingInv
  <2>2. Machine' = t /\ drv' = drv
    BY <1>1
  <2> QED BY <2>1, <2>2 DEF Running
<1>8. (Running /\ OwnLast => TxStep(Machine, drv.head, drv.build, drv.done))'
  <2>1. Running /\ OwnLast => TxStep(t, drv.head, drv.build, drv.done)
    BY StateParts DEF Runs, RingInv
  <2>2. Machine' = t /\ drv' = drv
    BY <1>1
  <2> QED BY <2>1, <2>2 DEF Running
<1> QED BY <1>3, <1>4, <1>5, <1>6, <1>7, <1>8 DEF RingInv

LEMMA RingLoop ==
  ASSUME TypeOK, RingInv
  PROVE  (Tick => RingInv') /\ (Net => RingInv')
<1>1. ASSUME Tick PROVE RingInv'
  <2>1. PICK t \in MachineType : t = TickChip(Machine)
    BY StateParts, TickChipType
  <2>2. Runs(Machine, t) /\ ("TXON" \notin chip.csr0 => t.tx = tx /\ t.rx = rx)
    BY <2>1, StateParts, TickChipRuns
  <2>3. Becomes(t) /\ drv' = drv
    BY <1>1, <2>1 DEF Tick
  <2>4. drv.phase = "ready" => "TXON" \notin chip.csr0
    BY DEF RingInv, FreshUntilInit
  <2>5. drv.phase = "ready" => tx' = tx /\ rx' = rx
    BY <2>2, <2>3, <2>4 DEF Becomes
  <2> QED BY <2>2, <2>3, <2>5, RunsKeepRings
<1>2. ASSUME Net PROVE RingInv'
  <2>1. PICK len \in WireLens, dst \in WireDst : WireFrame(len, dst)
    BY <1>2 DEF Net
  <2>2. PICK f \in Frame : f = GlueFrame(len, dst)
    BY GlueFrameType DEF TypeOK
  <2>3. PICK t \in MachineType : t = Recv(Machine, f)
    BY <2>2, StateParts, ReceiveType
  <2>4. Becomes(t) /\ drv' = drv
    BY <2>1, <2>2, <2>3 DEF WireFrame
  <2>5. /\ Runs(Machine, t) /\ t.tx = tx
        /\ "RXON" \notin chip.csr0 /\ DstOf(f) # "self" => t = Machine
    BY <2>2, <2>3, StateParts, RecvRuns
  <2>6. DstOf(f) = dst
    BY <2>2 DEF GlueFrame, DstOf
  <2>7. drv.phase = "ready" /\ QuietWire => rx' = rx
    <3>1. drv.phase = "ready" => "RXON" \notin chip.csr0
      BY DEF RingInv, FreshUntilInit
    <3>2. QuietWire => dst # "self" \/ "RXON" \in chip.csr0
      BY <2>1 DEF WireFrame
    <3> QED BY <2>4, <2>5, <2>6, <3>1, <3>2, StateParts DEF Becomes
  <2>8. tx' = tx
    BY <2>4, <2>5 DEF Becomes
  <2> QED BY <2>4, <2>5, <2>7, <2>8, RunsKeepRings
<1> QED BY <1>1, <1>2
-----------------------------------------------------------------------------
(* The driver's register writes.                                            *)
(* A write with the chip running: data holds INEA, neither INIT nor STOP,   *)
(* and acknowledges RINT only on the way into the drain.                    *)
LEMMA WriteKeepsRings ==
  ASSUME TypeOK, RingInv, Running, NEW data \in SUBSET Csr0Bits, Csr0Write(data),
         "STOP" \notin data, "INIT" \notin data, "INEA" \in data,
         Running', IsrRunsUp', drv'.isr = "drain" \/ (drv'.isr = drv.isr /\ "RINT" \notin data),
         drv'.head = drv.head, drv'.build = drv.build, drv'.done = drv.done,
         drv'.rxHead = drv.rxHead
  PROVE  RingInv'
<1>1. PICK t \in MachineType : t = WriteCsr0(Machine, data, drv.block)
  BY StateParts, WriteCsr0Type
<1>2. Becomes(t) /\ Machine' = t /\ chip' = t.chip /\ rx' = t.rx
  BY <1>1, BecomesIs DEF Csr0Write, Becomes
<1>3. /\ \A rh \in RxIdx : RxStep(Machine, rh) => RxStep(t, rh)
      /\ \A h \in TxIdx, b \in Nat, dn \in Nat :
           TxStep(Machine, h, b, dn) => TxStep(t, h, b, dn)
      /\ Sound(Machine) => Sound(t)
      /\ t.rx # Machine.rx => "RINT" \in t.chip.csr0
      /\ "RINT" \in Machine.chip.csr0 /\ "RINT" \notin data => "RINT" \in t.chip.csr0
      /\ "INIT" \in t.chip.csr0 <=> "INIT" \in Machine.chip.csr0
      /\ "INEA" \in t.chip.csr0 <=> "INEA" \in data
  BY <1>1, StateParts, WriteCsr0Drives
<1>4. NeverInit' /\ LineEnabled'
  BY <1>2, <1>3, StateParts DEF RingInv, NeverInit, LineEnabled
<1>5. FreshUntilInit'
  BY DEF FreshUntilInit, Running
<1>6. Reported'
  <2> SUFFICES ASSUME drv'.isr # "drain", ~ rx'[drv.rxHead].own
               PROVE  "RINT" \in chip'.csr0
    BY DEF Reported
  <2>1. CASE rx' = rx
    BY <1>2, <1>3, <2>1, StateParts DEF RingInv, Reported, Running
  <2>2. CASE rx' # rx
    BY <1>2, <1>3, <2>2, StateParts
  <2> QED BY <2>1, <2>2
<1>7. (Running => Sound(Machine))'
  <2>1. Sound(t)
    BY <1>3 DEF RingInv
  <2> QED BY <1>2, <2>1
<1>8. (Running /\ QuietWire => RxStep(Machine, drv.rxHead))'
  <2>1. QuietWire => RxStep(t, drv.rxHead)
    BY <1>3, StateParts DEF RingInv
  <2> QED BY <1>2, <2>1
<1>9. (Running /\ OwnLast => TxStep(Machine, drv.head, drv.build, drv.done))'
  <2>1. OwnLast => TxStep(t, drv.head, drv.build, drv.done)
    BY <1>3, StateParts DEF RingInv
  <2> QED BY <1>2, <2>1
<1> QED BY <1>4, <1>5, <1>6, <1>7, <1>8, <1>9 DEF RingInv

(* The write of INIT puts chip and driver in step on the fresh rings.       *)
LEMMA FreshInStep ==
  ASSUME NEW s, s.chip.txPos = 0, s.chip.rxPos = 0
  PROVE  /\ s.tx = FreshTx => TxStep(s, 0, 0, 0) /\ ~ Underflow(s)
         /\ s.rx = FreshRx => RxStep(s, 0)
<1>1. ASSUME s.tx = FreshTx PROVE TxStep(s, 0, 0, 0) /\ ~ Underflow(s)
  <2>1. \A i \in TxIdx : ~ s.tx[i].own /\ s.tx[i].tmd3 = {}
    BY <1>1 DEF FreshTx
  <2>2. \A i \in TxIdx : TxOff(s.chip, i) = i /\ i >= 0
    BY DEF TxOff, TxIdx
  <2>3. TxRun(s, 0, 0)
    BY <2>1, <2>2 DEF TxRun, TxIdx
  <2>4. 0 \in 0 .. TxLen /\ 0 = Adv(s.chip.txPos, 0, TxLen) /\ 0 + 0 <= TxLen
    BY RingAssumption DEF Adv
  <2>5. TxStep(s, 0, 0, 0)
    BY <2>3, <2>4 DEF TxStep
  <2> QED BY <2>1, <2>5 DEF Underflow
<1>2. ASSUME s.rx = FreshRx PROVE RxStep(s, 0)
  <2>1. \A i \in RxIdx : s.rx[i].own
    BY <1>2 DEF FreshRx, EmptyRx
  <2>2. \A i \in RxIdx : RxOff(s.chip, i) < RxLen
    BY RingAssumption DEF RxOff, RxIdx
  <2>3. RxRun(s, RxLen)
    BY <2>1, <2>2 DEF RxRun
  <2>4. RxLen \in 0 .. RxLen /\ 0 = Adv(s.chip.rxPos, RxLen, RxLen)
    BY RingAssumption DEF Adv
  <2> QED BY <2>3, <2>4 DEF RxStep
<1> QED BY <1>1, <1>2

LEMMA RingSetup ==
  ASSUME TypeOK, RingInv
  PROVE  Setup => RingInv'
<1>1. ASSUME Stop PROVE RingInv'
  <2>1. drv'.phase = "down" /\ drv'.isr = "idle"
    BY <1>1, StateParts DEF Stop, DrvType
  <2>2. NeverInit'
    <3>1. PICK t : t = WriteCsr0(Machine, {"STOP"}, drv.block)
      OBVIOUS
    <3>2. chip' = t.chip
      BY <1>1, <3>1 DEF Stop, Csr0Write, Becomes
    <3>3. t = Machine \/ t = [Machine EXCEPT !.chip = Reset(@)]
      BY <3>1 DEF WriteCsr0
    <3>4. CASE t = Machine
      BY <3>2, <3>4, StateParts DEF RingInv, NeverInit
    <3>5. CASE t = [Machine EXCEPT !.chip = Reset(@)]
      <4>1. t.chip.csr0 = {"STOP"}
        BY <3>5, StateParts DEF MachineType, ChipType, Reset, UpdateInterrupts
      <4> QED BY <3>2, <4>1 DEF NeverInit
    <3> QED BY <3>3, <3>4, <3>5
  <2> QED BY <2>1, <2>2
         DEF RingInv, FreshUntilInit, IsrRunsUp, LineEnabled, Reported, Running
<1>2. ASSUME NEW block \in Block, MakeRings(block) PROVE RingInv'
  <2>1. /\ drv'.phase = "ready" /\ drv'.isr = "idle" /\ drv'.rxHead = 0
        /\ drv'.head = 0 /\ drv'.build = 0 /\ drv'.done = 0
        /\ tx' = FreshTx /\ rx' = FreshRx /\ chip' = chip
        /\ {"TXON", "RXON"} \cap chip.csr0 = {}
    BY <1>2, StateParts DEF MakeRings, DrvType
  <2>2. rx'[0].own
    BY <2>1, FreshType DEF FreshRx, EmptyRx
  <2> QED BY <2>1, <2>2
         DEF RingInv, NeverInit, FreshUntilInit, IsrRunsUp, LineEnabled, Reported, Running
<1>3. ASSUME NEW data \in InitWords, WriteInit(data) PROVE RingInv'
  <2>1. /\ data \in SUBSET Csr0Bits /\ "STOP" \notin data /\ "INIT" \in data
        /\ data \cap Acks = {} /\ ("STRT" \in data => "INEA" \in data)
    BY DEF InitWords, Csr0Bits, Acks, Causes, Faults
  <2>2. PICK t \in MachineType : t = WriteCsr0(Machine, data, drv.block)
    BY <2>1, StateParts, WriteCsr0Type
  <2>3. Becomes(t) /\ Machine' = t /\ chip' = t.chip /\ rx' = t.rx
    BY <1>3, <2>2, BecomesIs DEF WriteInit, Csr0Write, Becomes
  <2>4. "INIT" \notin Machine.chip.csr0
    BY StateParts DEF RingInv, NeverInit
  <2>5. PICK u \in MachineType :
           /\ u.tx = tx /\ u.rx = rx /\ u.chip.txPos = 0 /\ u.chip.rxPos = 0
           /\ {"INIT", "STRT", "TXON", "RXON", "STOP"} \cap u.chip.csr0 = {}
           /\ "RINT" \in chip.csr0 => "RINT" \in u.chip.csr0
           /\ Drives(u, t)
           /\ "INEA" \in t.chip.csr0 <=> "INEA" \in data
    BY <2>1, <2>2, <2>4, StateParts, InitDrives
  <2>6. /\ drv.phase = "ready" /\ drv.isr = "idle"
        /\ tx = FreshTx /\ (QuietWire => rx = FreshRx)
        /\ drv.head = 0 /\ drv.build = 0 /\ drv.done = 0 /\ drv.rxHead = 0
    BY <1>3 DEF WriteInit, RingInv, FreshUntilInit, IsrRunsUp
  <2>7. /\ drv'.phase \in {"inited", "up"} /\ (drv'.phase = "up" => "STRT" \in data)
        /\ drv'.isr = "idle" /\ drv'.rxHead = 0
        /\ drv'.head = 0 /\ drv'.build = 0 /\ drv'.done = 0
    BY <1>3, <2>6, StateParts DEF WriteInit, DrvType
  <2>8. TxStep(u, 0, 0, 0) /\ ~ Underflow(u) /\ (QuietWire => RxStep(u, 0))
    BY <2>5, <2>6, FreshInStep
  <2>9. Sound(u)
    BY <2>5, <2>8 DEF Sound
  <2>10. TxStep(t, 0, 0, 0) /\ Sound(t) /\ (QuietWire => RxStep(t, 0))
    BY <2>5, <2>8, <2>9, FreshType DEF Drives
  <2>11. NeverInit'
    BY <2>3, <2>5 DEF NeverInit, Drives
  <2>12. LineEnabled'
    BY <2>1, <2>3, <2>5, <2>7 DEF LineEnabled
  <2>13. Reported'
    <3> SUFFICES ASSUME ~ rx'[0].own PROVE "RINT" \in chip'.csr0
      BY <2>7 DEF Reported
    <3>1. CASE rx' = rx
      BY <2>3, <2>5, <2>6, <3>1 DEF RingInv, Reported, Drives
    <3>2. CASE rx' # rx
      BY <2>3, <2>5, <3>2 DEF Drives
    <3> QED BY <3>1, <3>2
  <2>14. FreshUntilInit' /\ IsrRunsUp'
    BY <2>7 DEF FreshUntilInit, IsrRunsUp
  <2>15. (Running => Sound(Machine))'
    BY <2>3, <2>10
  <2>16. (Running /\ QuietWire => RxStep(Machine, drv.rxHead))'
    BY <2>3, <2>7, <2>10
  <2>17. (Running /\ OwnLast => TxStep(Machine, drv.head, drv.build, drv.done))'
    BY <2>3, <2>7, <2>10
  <2> QED BY <2>11, <2>12, <2>13, <2>14, <2>15, <2>16, <2>17 DEF RingInv
<1>4. ASSUME NEW data \in StartWords, WriteStart(data) PROVE RingInv'
  <2>1. /\ data \in SUBSET Csr0Bits /\ "STOP" \notin data /\ "INIT" \notin data
        /\ "INEA" \in data /\ "RINT" \notin data
    BY DEF StartWords, Csr0Bits
  <2>2. /\ Running /\ Csr0Write(data)
        /\ drv'.phase = "up" /\ drv'.isr = drv.isr /\ drv'.rxHead = drv.rxHead
        /\ drv'.head = drv.head /\ drv'.build = drv.build /\ drv'.done = drv.done
    BY <1>4, StateParts DEF WriteStart, Running, DrvType
  <2>3. Running' /\ IsrRunsUp'
    BY <2>2 DEF Running, IsrRunsUp
  <2> QED BY <2>1, <2>2, <2>3, WriteKeepsRings
<1> QED BY <1>1, <1>2, <1>3, <1>4 DEF Setup

LEMMA RingWrites ==
  ASSUME TypeOK, RingInv
  PROVE  (Demand => RingInv') /\ (IsrAck => RingInv')
<1>1. ASSUME Demand PROVE RingInv'
  <2>1. PICK data : data = {"TDMD", "INEA"}
    OBVIOUS
  <2>2. /\ data \in SUBSET Csr0Bits /\ "STOP" \notin data /\ "INIT" \notin data
        /\ "INEA" \in data /\ "RINT" \notin data
    BY <2>1 DEF Csr0Bits
  <2>3. Running /\ Csr0Write(data) /\ drv' = drv
    BY <1>1, <2>1 DEF Demand, Running
  <2>4. Running' /\ IsrRunsUp'
    BY <2>3 DEF Running, IsrRunsUp, RingInv
  <2> QED BY <2>2, <2>3, <2>4, WriteKeepsRings
<1>2. ASSUME IsrAck PROVE RingInv'
  <2>1. PICK data : data = drv.seen \cup {"INEA"}
    OBVIOUS
  <2>2. /\ data \in SUBSET Csr0Bits /\ "STOP" \notin data /\ "INIT" \notin data
        /\ "INEA" \in data
    BY <2>1, StateParts DEF Csr0Bits, DrvType, Acks, Causes, Faults
  <2>3. drv.phase = "up" /\ Csr0Write(data)
    BY <1>2, <2>1 DEF IsrAck, RingInv, IsrRunsUp
  <2>4. /\ drv'.phase = drv.phase /\ drv'.isr = "drain" /\ drv'.rxHead = drv.rxHead
        /\ drv'.head = drv.head /\ drv'.build = drv.build /\ drv'.done = drv.done
    BY <1>2, StateParts DEF IsrAck, DrvType
  <2>5. Running /\ Running' /\ IsrRunsUp'
    BY <2>3, <2>4 DEF Running, IsrRunsUp
  <2> QED BY <2>2, <2>3, <2>4, <2>5, WriteKeepsRings
<1> QED BY <1>1, <1>2
-----------------------------------------------------------------------------
(* The driver's stores into the transmit ring.                              *)
(* The descriptors BeginFrame saw free lie behind the run, so there is room *)
(* for the whole frame.                                                     *)
LEMMA RoomForFrame ==
  ASSUME TypeOK, NEW n \in 1 .. MaxFrags, FreeTx(n),
         NEW m \in 0 .. TxLen, drv.head = Adv(chip.txPos, m, TxLen), TxRun(Machine, m, 0)
  PROVE  m + n <= TxLen
<1>1. /\ TxLen \in Nat \ {0} /\ TxIdx = 0 .. TxLen - 1 /\ chip.txPos \in 0 .. TxLen - 1
      /\ n \in 1 .. TxLen
  BY StateParts, EnvAssumption, RingAssumption DEF TxIdx, ChipType
<1> SUFFICES ASSUME m + n > TxLen PROVE FALSE
  BY <1>1
<1> DEFINE k == TxLen - m
<1>2. m > 0 /\ k \in 0 .. TxLen - m /\ k \in 0 .. n - 1 /\ m + k = TxLen
  BY <1>1
<1>3. Adv(drv.head, k, TxLen) = Adv(chip.txPos, m + k, TxLen)
  <2> HIDE DEF k
  <2>1. \A j \in 0 .. TxLen - m :
          Adv(Adv(chip.txPos, m, TxLen), j, TxLen) = Adv(chip.txPos, m + j, TxLen)
    BY <1>1, OffShift
  <2> QED BY <1>2, <2>1
<1>4. Adv(chip.txPos, TxLen, TxLen) = chip.txPos
  BY <1>1 DEF Adv
<1>5. ~ tx[chip.txPos].own
  <2> HIDE DEF k
  <2>1. ~ tx[Adv(drv.head, k, TxLen)].own
    BY <1>2 DEF FreeTx
  <2> QED BY <1>2, <1>3, <1>4, <2>1
<1>6. TxOff(chip, chip.txPos) = 0 /\ chip.txPos \in TxIdx
  BY <1>1 DEF TxOff
<1>7. tx[chip.txPos].own <=> (0 < m \/ 0 \in m + 1 .. m + 0)
  BY <1>6, StateParts DEF TxRun
<1> QED BY <1>2, <1>5, <1>7

(* Storing with the first buffer last: behind the run the stored buffers    *)
(* leave out exactly the first one, until it closes the gap.                *)
LEMMA StoreGrowsRun ==
  ASSUME TypeOK, NEW empty \in BOOLEAN, StoreTx(empty), OwnLast,
         NEW n \in 0 .. TxLen, drv.head = Adv(chip.txPos, n, TxLen),
         TxRun(Machine, n, drv.done), n + drv.build <= TxLen
  PROVE  LET closes == drv.done + 1 = drv.build
             k == IF closes THEN 0 ELSE drv.done + 1
             m == IF closes THEN n + drv.build ELSE n
         IN  /\ NextPart = k /\ n + k \in TxIdx
             /\ Adv(drv.head, k, TxLen) = Adv(chip.txPos, n + k, TxLen)
             /\ \A j \in TxIdx : j # n + k => TxAt(Machine', j) = TxAt(Machine, j)
             /\ m \in 0 .. TxLen /\ drv'.head = Adv(chip'.txPos, m, TxLen)
             /\ TxRun(Machine', m, drv'.done)
             /\ m + drv'.build <= TxLen
             /\ drv'.done < drv'.build \/ drv'.done = 0
<1>2. /\ TxLen \in Nat \ {0} /\ TxIdx = 0 .. TxLen - 1 /\ chip.txPos \in 0 .. TxLen - 1
      /\ drv.build \in Nat /\ drv.done \in Nat
      /\ drv.build > 0 /\ drv.done < drv.build
  BY StateParts, RingAssumption DEF TxIdx, ChipType, StoreTx, TypeOK
<1>1. /\ drv.head = Adv(chip.txPos, n, TxLen) /\ TxRun(Machine, n, drv.done)
      /\ n + drv.build <= TxLen
  OBVIOUS
<1> DEFINE m == IF drv.done + 1 = drv.build THEN n + drv.build ELSE n
           Goal == /\ m \in 0 .. TxLen /\ drv'.head = Adv(chip'.txPos, m, TxLen)
                   /\ TxRun(Machine', m, drv'.done)
                   /\ m + drv'.build <= TxLen
                   /\ drv'.done < drv'.build \/ drv'.done = 0
<1> DEFINE k == IF drv.done + 1 = drv.build THEN 0 ELSE drv.done + 1
           i == Adv(drv.head, k, TxLen)
<1>3. NextPart = k
  <2>1. CASE drv.done + 1 = drv.build
    <3>1. (drv.done + 1) % drv.build = 0
      BY <1>2, <2>1
    <3> QED BY <2>1, <3>1 DEF NextPart
  <2>2. CASE drv.done + 1 # drv.build
    <3> SUFFICES ASSUME NEW a \in Nat, NEW b \in Nat, a + 1 < b, a = drv.done, b = drv.build
                 PROVE  NextPart = k
      BY <1>2, <2>2
    <3>1. (a + 1) % b = a + 1
      OBVIOUS
    <3> QED BY <2>2, <3>1 DEF NextPart
  <2> QED BY <2>1, <2>2
<1>4. k \in 0 .. drv.build - 1 /\ n + k \in 0 .. TxLen - 1 /\ k \in 0 .. TxLen - n
  BY <1>1, <1>2
<1>5. i = Adv(chip.txPos, n + k, TxLen) /\ i \in TxIdx /\ TxOff(chip, i) = n + k
  <2> HIDE DEF k
  <2>1. i = Adv(chip.txPos, n + k, TxLen)
    <3>1. \A j \in 0 .. TxLen - n :
            Adv(Adv(chip.txPos, n, TxLen), j, TxLen) = Adv(chip.txPos, n + j, TxLen)
      BY <1>2, OffShift
    <3> QED BY <1>1, <1>4, <3>1
  <2> HIDE DEF i
  <2>2. i \in TxIdx
    <3>1. n + k \in 0 .. TxLen
      BY <1>2, <1>4
    <3> QED BY <1>2, <2>1, <3>1, AdvInRing
  <2>3. Off(chip.txPos, i, TxLen) = n + k
    BY <1>2, <1>4, <2>1, OffAdv
  <2> QED BY <2>1, <2>2, <2>3, OffIsOffset
<1>6. \A j \in TxIdx : TxOff(chip, j) = n + k <=> j = i
  <2> HIDE DEF k, i
  <2>1. \A j \in TxIdx : Adv(chip.txPos, TxOff(chip, j), TxLen) = j
    BY StateParts, Offsets
  <2> QED BY <1>5, <2>1
<1>7. /\ tx'[i].own
      /\ \A j \in TxIdx : j # i => tx'[j] = tx[j]
      /\ chip' = chip
  BY <1>3, <1>5, StateParts DEF StoreTx
<1> DEFINE Owned(o, e, dn) == o < e \/ o \in e + 1 .. e + dn
<1>8. \A j \in TxIdx :
        tx'[j].own <=> Owned(TxOff(chip, j), n, drv.done) \/ TxOff(chip, j) = n + k
  <2> HIDE DEF k, i
  <2>1. \A j \in TxIdx : tx[j].own <=> Owned(TxOff(chip, j), n, drv.done)
    BY <1>1, StateParts DEF TxRun
  <2> QED BY <1>5, <1>6, <1>7, <2>1
<1>9. \A j \in TxIdx : TxOff(chip, j) \in 0 .. TxLen - 1
  BY <1>2, StateParts, Offsets
<1>10. ASSUME drv.done + 1 = drv.build PROVE Goal
  <2>1. drv'.head = Adv(drv.head, drv.build, TxLen) /\ drv'.build = 0 /\ drv'.done = 0
    BY <1>10, StateParts DEF StoreTx, DrvType
  <2>2. drv'.head = Adv(chip.txPos, n + drv.build, TxLen)
    <3>1. \A j \in 0 .. TxLen - n :
            Adv(Adv(chip.txPos, n, TxLen), j, TxLen) = Adv(chip.txPos, n + j, TxLen)
      BY <1>2, OffShift
    <3> QED BY <1>1, <1>2, <2>1, <3>1
  <2>3. \A j \in TxIdx : tx'[j].own <=> Owned(TxOff(chip, j), n + drv.build, 0)
    <3> SUFFICES ASSUME NEW j \in TxIdx, NEW o \in 0 .. TxLen - 1, o = TxOff(chip, j)
                 PROVE  tx'[j].own <=> Owned(o, n + drv.build, 0)
      BY <1>9
    <3>1. tx'[j].own <=> Owned(o, n, drv.done) \/ o = n
      BY <1>1, <1>8, <1>10
    <3> QED BY <1>2, <1>10, <3>1
  <2>4. TxRun(Machine', n + drv.build, 0)
    BY <1>7, <2>3 DEF TxRun, Machine
  <2>5. n + drv.build \in 0 .. TxLen /\ n + drv.build + 0 <= TxLen
    BY <1>1, <1>2
  <2> QED BY <1>7, <1>10, <2>1, <2>2, <2>4, <2>5
<1>11. ASSUME drv.done + 1 # drv.build PROVE Goal
  <2>1. drv'.head = drv.head /\ drv'.build = drv.build /\ drv'.done = drv.done + 1
    BY <1>11, StateParts DEF StoreTx, DrvType
  <2>2. \A j \in TxIdx : tx'[j].own <=> Owned(TxOff(chip, j), n, drv.done + 1)
    <3> SUFFICES ASSUME NEW j \in TxIdx, NEW o \in 0 .. TxLen - 1, o = TxOff(chip, j)
                 PROVE  tx'[j].own <=> Owned(o, n, drv.done + 1)
      BY <1>9
    <3>1. k = drv.done + 1
      BY <1>11
    <3>2. tx'[j].own <=> Owned(o, n, drv.done) \/ o = n + k
      BY <1>8
    <3> HIDE DEF k, m, i
    <3>3. \A e \in Nat, a \in Nat : Owned(o, e, a + 1) <=> Owned(o, e, a) \/ o = e + (a + 1)
      OBVIOUS
    <3>4. n \in Nat /\ drv.done \in Nat
      BY <1>2
    <3> HIDE DEF Owned
    <3> QED BY <3>1, <3>2, <3>3, <3>4
  <2>3. TxRun(Machine', n, drv.done + 1)
    BY <1>7, <2>2 DEF TxRun, Machine
  <2>4. drv.done + 1 < drv.build
    BY <1>2, <1>11
  <2> QED BY <1>1, <1>7, <1>11, <2>1, <2>3, <2>4
<1>12. ASSUME NEW j \in TxIdx, j # n + k
       PROVE  TxAt(Machine', j) = TxAt(Machine, j)
  <2>1. Adv(chip.txPos, j, TxLen) \in TxIdx
    <3>1. j \in 0 .. TxLen
      BY <1>2
    <3> QED BY <1>2, <3>1, AdvInRing
  <2>2. Off(chip.txPos, Adv(chip.txPos, j, TxLen), TxLen) = j
    BY <1>2, OffAdv
  <2> HIDE DEF k, i
  <2>3. Adv(chip.txPos, j, TxLen) # i
    BY <1>5, <1>12, <2>2, OffIsOffset
  <2> QED BY <1>7, <2>1, <2>3 DEF TxAt, Machine
<1>13. Goal
  BY <1>10, <1>11
<1>14. NextPart = k /\ n + k \in TxIdx /\ i = Adv(chip.txPos, n + k, TxLen)
  BY <1>2, <1>3, <1>4, <1>5
<1> QED BY <1>12, <1>13, <1>14

LEMMA StoreInStep ==
  ASSUME TypeOK, NEW empty \in BOOLEAN, StoreTx(empty), OwnLast,
         TxStep(Machine, drv.head, drv.build, drv.done)
  PROVE  TxStep(Machine, drv.head, drv.build, drv.done)'
<1>1. PICK n \in 0 .. TxLen :
        /\ drv.head = Adv(chip.txPos, n, TxLen)
        /\ TxRun(Machine, n, drv.done)
        /\ n + drv.build <= TxLen
  BY StateParts DEF TxStep
<1>2. \E m \in 0 .. TxLen :
        /\ drv'.head = Adv(chip'.txPos, m, TxLen)
        /\ TxRun(Machine', m, drv'.done)
        /\ m + drv'.build <= TxLen
        /\ drv'.done < drv'.build \/ drv'.done = 0
  BY <1>1, StoreGrowsRun
<1>3. TxStep(Machine', drv'.head, drv'.build, drv'.done)
  BY <1>2 DEF TxStep, Machine
<1> QED BY <1>3

LEMMA RingStores ==
  ASSUME TypeOK, RingInv
  PROVE  /\ \A n \in 1 .. MaxFrags, dst \in OwnDst : BeginFrame(n, dst) => RingInv'
         /\ \A empty \in BOOLEAN : StoreTx(empty) => RingInv'
<1>1. ASSUME NEW n \in 1 .. MaxFrags, NEW dst \in OwnDst, BeginFrame(n, dst)
      PROVE  RingInv'
  <2>1. /\ Machine' = Machine /\ chip' = chip /\ rx' = rx /\ tx' = tx
        /\ drv'.phase = drv.phase /\ drv'.isr = drv.isr /\ drv'.rxHead = drv.rxHead
        /\ drv'.head = drv.head /\ drv'.build = n /\ drv'.done = 0
        /\ Running
    BY <1>1, StateParts DEF BeginFrame, DrvType, Machine, Running
  <2>2. NeverInit' /\ IsrRunsUp' /\ LineEnabled' /\ Reported' /\ FreshUntilInit'
    BY <2>1 DEF RingInv, NeverInit, IsrRunsUp, LineEnabled, Reported, FreshUntilInit, Running
  <2>3. OwnLast => TxStep(Machine, drv.head, n, 0)
    <3>1. FreeTx(n) /\ drv.build = 0
      BY <1>1 DEF BeginFrame
    <3>2. drv.done = 0
      BY <3>1, StateParts DEF TypeOK
    <3> SUFFICES ASSUME OwnLast PROVE TxStep(Machine, drv.head, n, 0)
      OBVIOUS
    <3>3. PICK m \in 0 .. TxLen :
            drv.head = Adv(chip.txPos, m, TxLen) /\ TxRun(Machine, m, 0)
      BY <2>1, <3>1, <3>2, StateParts DEF RingInv, TxStep
    <3>4. m + n <= TxLen /\ 0 < n
      BY <3>1, <3>3, RoomForFrame
    <3> QED BY <3>3, <3>4, StateParts DEF TxStep
  <2>4. (Running => Sound(Machine))' /\ (Running /\ QuietWire => RxStep(Machine, drv.rxHead))'
    BY <2>1 DEF RingInv, Running
  <2>5. (Running /\ OwnLast => TxStep(Machine, drv.head, drv.build, drv.done))'
    BY <2>1, <2>3
  <2> QED BY <2>2, <2>4, <2>5 DEF RingInv
<1>2. ASSUME NEW empty \in BOOLEAN, StoreTx(empty) PROVE RingInv'
  <2>1. /\ chip' = chip /\ rx' = rx
        /\ drv'.phase = drv.phase /\ drv'.isr = drv.isr /\ drv'.rxHead = drv.rxHead
        /\ drv.build > 0
    BY <1>2, StateParts DEF StoreTx, DrvType
  <2>2. drv.phase # "ready"
    BY <2>1 DEF RingInv, FreshUntilInit
  <2>3. NeverInit' /\ IsrRunsUp' /\ LineEnabled' /\ Reported' /\ FreshUntilInit'
    BY <2>1, <2>2 DEF RingInv, NeverInit, IsrRunsUp, LineEnabled, Reported, FreshUntilInit
  <2>4. (Running => Sound(Machine))'
    <3>1. Underflow(Machine') => Underflow(Machine)
      <4> DEFINE i == Adv(drv.head, NextPart, TxLen)
      <4>1. \A j \in TxIdx : j # i => tx'[j] = tx[j]
        BY <1>2, StateParts DEF StoreTx
      <4>2. i \in TxIdx => tx'[i].tmd3 = {}
        BY <1>2, StateParts DEF StoreTx
      <4> HIDE DEF i
      <4> QED BY <4>1, <4>2 DEF Underflow, Machine
    <3> QED BY <2>1, <3>1 DEF RingInv, Running, Sound, Machine
  <2>5. (Running /\ QuietWire => RxStep(Machine, drv.rxHead))'
    <3>1. \A m : RxRun(Machine, m) <=> RxRun(Machine', m)
      BY <2>1 DEF RxRun, Machine
    <3> QED BY <2>1, <3>1 DEF RingInv, Running, RxStep, Machine
  <2>6. (Running /\ OwnLast => TxStep(Machine, drv.head, drv.build, drv.done))'
    <3>1. Running' <=> Running
      BY <2>1 DEF Running
    <3> QED BY <1>2, <3>1, StoreInStep DEF RingInv
  <2> QED BY <2>3, <2>4, <2>5, <2>6 DEF RingInv
<1> QED BY <1>1, <1>2
-----------------------------------------------------------------------------
(* The interrupt routine.  The buffer it gives back is the one behind the   *)
(* run, so the run grows by it.                                             *)
LEMMA DrainInStep ==
  ASSUME TypeOK, IsrDrain, RxStep(Machine, drv.rxHead)
  PROVE  RxStep(Machine, drv.rxHead)'
<1>1. PICK n \in 0 .. RxLen :
        drv.rxHead = Adv(chip.rxPos, n, RxLen) /\ RxRun(Machine, n)
  BY StateParts DEF RxStep
<1>2. /\ RxLen \in Nat \ {0} /\ RxIdx = 0 .. RxLen - 1 /\ chip.rxPos \in 0 .. RxLen - 1
      /\ drv.rxHead \in RxIdx
  BY StateParts, RingAssumption DEF RxIdx, ChipType
<1>3. /\ ~ rx[drv.rxHead].own
      /\ rx'[drv.rxHead].own
      /\ \A j \in RxIdx : j # drv.rxHead => rx'[j] = rx[j]
      /\ chip' = chip
      /\ drv'.rxHead = Adv(drv.rxHead, 1, RxLen)
  BY <1>2, StateParts DEF IsrDrain, EmptyRx, DrvType
<1>4. \A j \in RxIdx : RxOff(chip, j) \in 0 .. RxLen - 1
                       /\ Adv(chip.rxPos, RxOff(chip, j), RxLen) = j
  BY <1>2, StateParts, Offsets
<1>5. n < RxLen
  <2> SUFFICES ASSUME n = RxLen PROVE FALSE
    BY <1>2
  <2>1. rx[drv.rxHead].own <=> RxOff(chip, drv.rxHead) < n
    BY <1>1, <1>2, StateParts DEF RxRun
  <2> QED BY <1>2, <1>3, <1>4, <2>1
<1>6. RxOff(chip, drv.rxHead) = n
  <2>1. n \in 0 .. RxLen - 1
    BY <1>2, <1>5
  <2>2. Off(chip.rxPos, drv.rxHead, RxLen) = n
    BY <1>1, <1>2, <2>1, OffAdv
  <2> QED BY <2>2, OffIsOffset
<1>7. \A j \in RxIdx : rx'[j].own <=> RxOff(chip, j) < n + 1
  <2> SUFFICES ASSUME NEW j \in RxIdx, NEW o \in 0 .. RxLen - 1, o = RxOff(chip, j)
               PROVE  rx'[j].own <=> o < n + 1
    BY <1>4
  <2>1. CASE j = drv.rxHead
    BY <1>3, <1>6, <2>1
  <2>2. CASE j # drv.rxHead
    <3>1. o # n
      BY <1>1, <1>4, <2>2
    <3>2. rx'[j].own <=> o < n
      BY <1>1, <1>3, <2>2, StateParts DEF RxRun
    <3> QED BY <3>1, <3>2
  <2> QED BY <2>1, <2>2
<1>8. drv'.rxHead = Adv(chip.rxPos, n + 1, RxLen) /\ n + 1 \in 0 .. RxLen
  <2>1. \A k \in 0 .. RxLen - n :
          Adv(Adv(chip.rxPos, n, RxLen), k, RxLen) = Adv(chip.rxPos, n + k, RxLen)
    BY <1>2, OffShift
  <2> QED BY <1>1, <1>2, <1>3, <1>5, <2>1
<1>9. RxRun(Machine', n + 1)
  BY <1>3, <1>7 DEF RxRun, Machine
<1>10. RxStep(Machine', drv'.rxHead)
  BY <1>3, <1>8, <1>9 DEF RxStep, Machine
<1> QED BY <1>10

LEMMA RingIsr ==
  ASSUME TypeOK, RingInv
  PROVE  Isr => RingInv'
<1>1. ASSUME IsrRead \/ IsrExit PROVE RingInv'
  <2>1. /\ Machine' = Machine /\ chip' = chip /\ rx' = rx /\ tx' = tx
        /\ drv'.phase = drv.phase /\ drv'.rxHead = drv.rxHead
        /\ drv'.head = drv.head /\ drv'.build = drv.build /\ drv'.done = drv.done
    BY <1>1, StateParts DEF IsrRead, IsrExit, DrvType, Machine
  <2>2. /\ drv'.isr # "idle" => drv.phase = "up"
        /\ drv.isr # "drain" \/ rx[drv.rxHead].own
    BY <1>1, StateParts DEF IsrRead, IsrExit, DrvType
  <2>3. NeverInit' /\ IsrRunsUp' /\ LineEnabled' /\ FreshUntilInit'
    BY <2>1, <2>2 DEF RingInv, NeverInit, IsrRunsUp, LineEnabled, FreshUntilInit
  <2>4. Reported'
    BY <2>1, <2>2 DEF RingInv, Reported
  <2>5. /\ (Running => Sound(Machine))'
        /\ (Running /\ QuietWire => RxStep(Machine, drv.rxHead))'
        /\ (Running /\ OwnLast => TxStep(Machine, drv.head, drv.build, drv.done))'
    BY <2>1 DEF RingInv, Running
  <2> QED BY <2>3, <2>4, <2>5 DEF RingInv
<1>2. ASSUME IsrDrain PROVE RingInv'
  <2>1. /\ chip' = chip /\ tx' = tx
        /\ drv'.phase = drv.phase /\ drv'.isr = "drain" /\ drv.isr = "drain"
        /\ drv'.head = drv.head /\ drv'.build = drv.build /\ drv'.done = drv.done
    BY <1>2, StateParts DEF IsrDrain, DrvType
  <2>2. drv.phase = "up"
    BY <2>1 DEF RingInv, IsrRunsUp
  <2>3. NeverInit' /\ IsrRunsUp' /\ LineEnabled' /\ FreshUntilInit' /\ Reported'
    BY <2>1, <2>2 DEF RingInv, NeverInit, IsrRunsUp, LineEnabled, FreshUntilInit, Reported
  <2>4. (Running => Sound(Machine))'
    BY <2>1 DEF RingInv, Running, Sound, Underflow, Machine
  <2>5. (Running /\ QuietWire => RxStep(Machine, drv.rxHead))'
    BY <1>2, <2>2, DrainInStep DEF RingInv, Running
  <2>6. (Running /\ OwnLast => TxStep(Machine, drv.head, drv.build, drv.done))'
    <3>1. \A n, dn : TxRun(Machine, n, dn) <=> TxRun(Machine', n, dn)
      BY <2>1 DEF TxRun, Machine
    <3> QED BY <2>1, <3>1 DEF RingInv, Running, TxStep, Machine
  <2> QED BY <2>3, <2>4, <2>5, <2>6 DEF RingInv
<1> QED BY <1>1, <1>2, RingWrites DEF Isr

LEMMA RingNext == TypeOK /\ RingInv /\ [Next]_vars => RingInv'
<1> SUFFICES ASSUME TypeOK, RingInv, [Next]_vars PROVE RingInv'
  OBVIOUS
<1>1. CASE Setup
  BY <1>1, RingSetup
<1>2. CASE Send
  BY <1>2, RingWrites, RingStores DEF Send
<1>3. CASE Isr
  BY <1>3, RingIsr
<1>4. CASE Tick \/ Net
  BY <1>4, RingLoop
<1>5. CASE UNCHANGED vars
  BY <1>5 DEF vars, RingInv, NeverInit, FreshUntilInit, IsrRunsUp, LineEnabled, Reported,
              Running, Machine
<1> QED BY <1>1, <1>2, <1>3, <1>4, <1>5 DEF Next

(* The invariant holds in every run, for every ring size and buffer size,   *)
(* whatever the constants allow the driver and the wire to do.              *)
THEOREM RingsInvariant == Spec => []RingInv
<1>1. Spec => []TypeOK
  BY TypeCorrect
<1> QED BY <1>1, RingInit, RingNext, PTL DEF Spec
-----------------------------------------------------------------------------
(* What the invariant means.                                                *)
LEMMA RxStepInStep ==
  ASSUME TypeOK, Running => RxStep(Machine, drv.rxHead)
  PROVE  RxInStep
<1> SUFFICES ASSUME Running
             PROVE  \E n \in 0 .. RxLen :
                      /\ \A k \in 0 .. RxLen - 1 : rx[Adv(chip.rxPos, k, RxLen)].own <=> k < n
                      /\ drv.rxHead = Adv(chip.rxPos, n, RxLen)
  BY DEF RxInStep
<1>1. PICK n \in 0 .. RxLen :
        drv.rxHead = Adv(chip.rxPos, n, RxLen) /\ RxRun(Machine, n)
  BY StateParts DEF RxStep
<1>2. RxLen \in Nat \ {0} /\ RxIdx = 0 .. RxLen - 1 /\ chip.rxPos \in 0 .. RxLen - 1
  BY StateParts, RingAssumption DEF RxIdx, ChipType
<1>3. ASSUME NEW k \in 0 .. RxLen - 1
      PROVE  rx[Adv(chip.rxPos, k, RxLen)].own <=> k < n
  <2> DEFINE i == Adv(chip.rxPos, k, RxLen)
  <2>1. i \in RxIdx /\ RxOff(chip, i) = k
    <3>1. k \in 0 .. RxLen
      BY <1>2
    <3>2. i \in 0 .. RxLen - 1 /\ Off(chip.rxPos, i, RxLen) = k
      BY <1>2, <3>1, AdvInRing, OffAdv
    <3> QED BY <1>2, <3>2, OffIsOffset
  <2> HIDE DEF i
  <2>2. rx[i].own <=> RxOff(chip, i) < n
    BY <1>1, <2>1, StateParts DEF RxRun
  <2> QED BY <2>1, <2>2 DEF i
<1> QED BY <1>1, <1>3

LEMMA TxStepInStep ==
  ASSUME TypeOK, Running => TxStep(Machine, drv.head, drv.build, drv.done)
  PROVE  TxInStep
<1> SUFFICES ASSUME Running
             PROVE  \E n \in 0 .. TxLen :
                      /\ drv.head = Adv(chip.txPos, n, TxLen)
                      /\ \A k \in 0 .. TxLen - 1 :
                           tx[Adv(chip.txPos, k, TxLen)].own
                             <=> (k < n \/ k \in n + 1 .. n + drv.done)
                      /\ n + drv.build <= TxLen
  BY DEF TxInStep
<1>1. PICK n \in 0 .. TxLen :
        /\ drv.head = Adv(chip.txPos, n, TxLen) /\ TxRun(Machine, n, drv.done)
        /\ n + drv.build <= TxLen
  BY StateParts DEF TxStep
<1>2. TxLen \in Nat \ {0} /\ TxIdx = 0 .. TxLen - 1 /\ chip.txPos \in 0 .. TxLen - 1
  BY StateParts, RingAssumption DEF TxIdx, ChipType
<1>3. ASSUME NEW k \in 0 .. TxLen - 1
      PROVE  tx[Adv(chip.txPos, k, TxLen)].own <=> (k < n \/ k \in n + 1 .. n + drv.done)
  <2> DEFINE i == Adv(chip.txPos, k, TxLen)
  <2>1. i \in TxIdx /\ TxOff(chip, i) = k
    <3>1. k \in 0 .. TxLen
      BY <1>2
    <3>2. i \in 0 .. TxLen - 1 /\ Off(chip.txPos, i, TxLen) = k
      BY <1>2, <3>1, AdvInRing, OffAdv
    <3> QED BY <1>2, <3>2, OffIsOffset
  <2> HIDE DEF i
  <2>2. tx[i].own <=> (TxOff(chip, i) < n \/ TxOff(chip, i) \in n + 1 .. n + drv.done)
    BY <1>1, <2>1, StateParts DEF TxRun
  <2> QED BY <2>1, <2>2 DEF i
<1> QED BY <1>1, <1>3

(* Chip and driver stay in step on both rings, through any number of        *)
(* initialisations, when the driver hands over the first buffer of a frame  *)
(* last and nobody addresses the station while its receiver is off.         *)
THEOREM RingsStayInStep ==
  ASSUME OwnLast, QuietWire
  PROVE  Spec => []RingsInStep
<1>1. TypeOK /\ RingInv => RingsInStep
  BY RxStepInStep, TxStepInStep DEF RingInv, RingsInStep
<1> QED BY <1>1, TypeCorrect, RingsInvariant, PTL

(* While a filled receive buffer waits and the interrupt routine is not     *)
(* emptying the ring, the interrupt line is asserted: no acknowledgement    *)
(* and no restart swallows the report of a frame.                           *)
THEOREM WakeupsAreNotLost == Spec => []NoLostWakeup
<1>1. TypeOK /\ RingInv /\ StatusAgrees => NoLostWakeup
  BY DEF RingInv, Reported, LineEnabled, StatusAgrees, SummaryAgrees, NoLostWakeup, Causes
<1> QED BY <1>1, TypeCorrect, RingsInvariant, StatusAlwaysAgrees, PTL

(* After an underrun the transmitter stays off until the rings are rebuilt, *)
(* in every mode and whatever the driver queues and demands.                *)
THEOREM UnderrunAlwaysStops == Spec => []UnderrunStops
<1>1. TypeOK /\ RingInv => UnderrunStops
  BY StateParts DEF RingInv, Sound, Underflow, UnderrunStops
<1> QED BY <1>1, TypeCorrect, RingsInvariant, PTL

-----------------------------------------------------------------------------
(***************************************************************************)
(* What the two rings of Lance carry.                                      *)
(*                                                                         *)
(* Transmit: for a driver that hands over the first buffer of a frame last *)
(* and queues no empty buffer, the run of descriptors the chip owns is a   *)
(* chain of whole frames, so every transmit walk takes exactly one of      *)
(* them.                                                                   *)
(*                                                                         *)
(* Receive: what lance_receive cuts into buffers the driver joins up       *)
(* again, every frame once and in order, while nobody addresses the        *)
(* station with its receiver off.                                          *)
(***************************************************************************)
(* The transmit ring as the chip walks it: the k-th descriptor from its     *)
(* position on.                                                             *)
View(s) == [k \in TxIdx |-> TxAt(s, k)]

(* Where the frame of the k-th descriptor begins and ends in the ring.      *)
Begin(d, k) == k - d[k].frag.part + 1
End(d, k)   == k - d[k].frag.part + d[k].frag.of

(* The first n descriptors are marked as the parts of frames that lie       *)
(* within them,                                                             *)
Marked(d, n) ==
  \A k \in 0 .. n - 1 :
    /\ ~ d[k].empty
    /\ d[k].stp <=> d[k].frag.part = 1
    /\ d[k].enp <=> d[k].frag.part = d[k].frag.of
    /\ d[k].frag.part \in 1 .. d[k].frag.of
    /\ Begin(d, k) >= 0 /\ End(d, k) < n

(* and two of them are either parts of one frame, or of one frame and a     *)
(* later one behind it.                                                     *)
Joined(d, n) ==
  \A j, k \in 0 .. n - 1 :
    j < k => \/ d[k].frag = [d[j].frag EXCEPT !.part = @ + (k - j)]
             \/ End(d, j) < Begin(d, k) /\ d[j].frag.id < d[k].frag.id

(* The dn buffers behind the first of the frame that is being queued.       *)
Built(d, n, b, dn, q, dst) ==
  \A k \in 1 .. dn :
    /\ ~ d[n + k].empty /\ ~ d[n + k].stp
    /\ d[n + k].enp <=> k = b - 1
    /\ d[n + k].frag = [id |-> q, part |-> k + 1, of |-> b, dst |-> dst]

(* The last frame the driver has handed over, q being the one it began last.*)
Latest(b, q) == IF b = 0 THEN q ELSE q - 1

(* The run holds frames up to the l-th, and those on the wire are older.    *)
Fresher(d, n, w, l) ==
  \A k \in 0 .. n - 1 :
    /\ d[k].frag.id <= l
    /\ \A j \in DOMAIN w : w[j].frags[1].id < d[k].frag.id

(* What is on the wire: whole frames up to the l-th, in order.              *)
Sent(w, l) ==
  /\ \A i \in DOMAIN w : Whole(w[i]) /\ w[i].frags[1].id \in 0 .. l
  /\ \A i, j \in DOMAIN w : i < j => w[i].frags[1].id < w[j].frags[1].id

(* Outside loopback, a frame whose last descriptor came back is there.      *)
Back(s) ==
  "LOOP" \notin s.chip.mode =>
    \A i \in TxIdx :
      s.tx[i].enp /\ ~ s.tx[i].own /\ ~ s.tx[i].err
        => \E j \in DOMAIN s.wire : s.wire[j].frags[1].id = s.tx[i].frag.id

(* The transmit side as a whole, the driver's head being h.                 *)
Chain(s, n, h, b, dn, q, dst) ==
  /\ h = Adv(s.chip.txPos, n, TxLen)
  /\ TxRun(s, n, dn)
  /\ n + b <= TxLen
  /\ dn < b \/ dn = 0
  /\ Marked(View(s), n) /\ Joined(View(s), n) /\ Built(View(s), n, b, dn, q, dst)
  /\ Fresher(View(s), n, s.wire, Latest(b, q))

Sending(s, h, b, dn, q, dst) ==
  /\ \E n \in 0 .. TxLen : Chain(s, n, h, b, dn, q, dst)
  /\ Sent(s.wire, Latest(b, q))
  /\ Back(s)
-----------------------------------------------------------------------------
LEMMA ViewType ==
  ASSUME NEW s \in MachineType
  PROVE  /\ View(s) \in [TxIdx -> TxDesc]
         /\ \A k \in TxIdx : View(s)[k] = s.tx[Adv(s.chip.txPos, k, TxLen)]
         /\ \A k \in TxIdx : View(s)[k] = TxAt(s, k)
         /\ \A k \in TxIdx : /\ View(s)[k].frag \in Frag
                             /\ View(s)[k].frag.id \in Nat
                             /\ View(s)[k].frag.part \in Nat
                             /\ View(s)[k].frag.of \in Nat
<1>1. View(s) \in [TxIdx -> TxDesc]
  BY TxFrameType DEF View
<1>2. \A k \in TxIdx : View(s)[k] = TxAt(s, k)
  BY DEF View
<1>3. \A k \in TxIdx : /\ View(s)[k].frag \in Frag
                       /\ View(s)[k].frag.id \in Nat
                       /\ View(s)[k].frag.part \in Nat
                       /\ View(s)[k].frag.of \in Nat
  <2> TAKE k \in TxIdx
  <2>1. View(s)[k] \in TxDesc
    BY <1>1
  <2>2. View(s)[k].frag \in Frag
    BY <2>1 DEF TxDesc
  <2> QED BY <2>2 DEF Frag
<1> QED BY <1>1, <1>2, <1>3 DEF TxAt

(* The first frame of a chain that is not empty: its m descriptors come     *)
(* first, in order, and what follows is behind it and of later frames.      *)
LEMMA FirstFrame ==
  ASSUME NEW d \in [TxIdx -> TxDesc], NEW n \in 1 .. TxLen, Marked(d, n), Joined(d, n)
  PROVE  LET m == d[0].frag.of
         IN  /\ m \in 1 .. n
             /\ \A k \in 0 .. m - 1 : /\ d[k].frag = [d[0].frag EXCEPT !.part = k + 1]
                                      /\ d[k].enp <=> k = m - 1
             /\ \A k \in m .. n - 1 : Begin(d, k) >= m /\ d[0].frag.id < d[k].frag.id
<1>1. \A k \in 0 .. n - 1 : /\ d[k].frag \in Frag /\ d[k].frag.id \in Nat
                            /\ d[k].frag.part \in Nat /\ d[k].frag.of \in Nat
  <2> SUFFICES ASSUME NEW k \in 0 .. n - 1
               PROVE  /\ d[k].frag \in Frag /\ d[k].frag.id \in Nat
                      /\ d[k].frag.part \in Nat /\ d[k].frag.of \in Nat
    OBVIOUS
  <2>1. d[k].frag \in Frag
    BY RingAssumption DEF TxIdx, TxDesc
  <2> QED BY <2>1 DEF Frag
<1>2. \A k \in 0 .. n - 1 :
        /\ d[k].enp <=> d[k].frag.part = d[k].frag.of
        /\ d[k].frag.part \in 1 .. d[k].frag.of
        /\ k - d[k].frag.part + 1 >= 0 /\ k - d[k].frag.part + d[k].frag.of < n
  BY DEF Marked, Begin, End
<1>3. 0 \in 0 .. n - 1 /\ d[0].frag.part = 1 /\ d[0].frag.of \in 1 .. n
  <2>1. 0 \in 0 .. n - 1
    BY RingAssumption
  <2>2. /\ d[0].frag.part \in 1 .. d[0].frag.of /\ d[0].frag.of \in Nat
        /\ 0 - d[0].frag.part + 1 >= 0 /\ 0 - d[0].frag.part + d[0].frag.of < n
    BY <1>1, <1>2, <2>1
  <2> QED BY <2>1, <2>2
<1> DEFINE m == d[0].frag.of
           e(k) == [d[0].frag EXCEPT !.part = @ + (k - 0)]
<1>4. \A k \in 1 .. n - 1 :
        d[k].frag = e(k) \/ (m - 1 < k - d[k].frag.part + 1 /\ d[0].frag.id < d[k].frag.id)
  <2>1. 0 - d[0].frag.part + m = m - 1
    BY <1>3
  <2> SUFFICES ASSUME NEW k \in 1 .. n - 1
               PROVE  \/ d[k].frag = e(k)
                      \/ m - 1 < k - d[k].frag.part + 1 /\ d[0].frag.id < d[k].frag.id
    OBVIOUS
  <2>2. k \in 0 .. n - 1 /\ 0 < k
    OBVIOUS
  <2>3. d[k].frag = e(k) \/ (End(d, 0) < Begin(d, k) /\ d[0].frag.id < d[k].frag.id)
    BY <1>3, <2>2 DEF Joined
  <2> HIDE DEF m, e
  <2> QED BY <2>1, <2>3 DEF End, Begin, m
<1>5. \A k \in 0 .. n - 1 : /\ e(k).part = k + 1 /\ e(k).of = m
                            /\ e(k) = [d[0].frag EXCEPT !.part = k + 1]
  <2>1. d[0].frag \in Frag
    BY <1>1, <1>3
  <2> QED BY <1>3, <2>1 DEF Frag
<1>6. ASSUME NEW k \in 0 .. m - 1
      PROVE  d[k].frag = [d[0].frag EXCEPT !.part = k + 1] /\ (d[k].enp <=> k = m - 1)
  <2>1. k \in 0 .. n - 1
    BY <1>3
  <2>2. d[k].frag = e(k)
    <3>1. CASE k = 0
      <4>1. d[0].frag \in Frag
        BY <1>1, <1>3
      <4> QED BY <1>3, <3>1, <4>1 DEF Frag
    <3>2. CASE k # 0
      <4>1. k \in 1 .. n - 1 /\ d[k].frag.part \in 1 .. d[k].frag.of /\ d[k].frag.of \in Nat
        BY <1>1, <1>2, <2>1, <3>2
      <4>2. ~ (m - 1 < k - d[k].frag.part + 1)
        BY <1>3, <4>1
      <4> HIDE DEF e, m
      <4> QED BY <1>4, <4>1, <4>2
    <3> QED BY <3>1, <3>2
  <2>3. d[k].enp <=> k + 1 = m
    <3> HIDE DEF e
    <3> QED BY <1>2, <1>5, <2>1, <2>2
  <2>4. k + 1 = m <=> k = m - 1
    BY <1>3
  <2> QED BY <1>5, <2>1, <2>2, <2>3, <2>4
<1>7. ASSUME NEW k \in m .. n - 1
      PROVE  Begin(d, k) >= m /\ d[0].frag.id < d[k].frag.id
  <2>1. k \in 0 .. n - 1 /\ k \in 1 .. n - 1 /\ m \in Nat
    BY <1>3
  <2>2. d[k].frag.part \in 1 .. d[k].frag.of /\ d[k].frag.of \in Nat
    BY <1>1, <1>2, <2>1
  <2>3. d[k].frag # e(k)
    <3> SUFFICES ASSUME d[k].frag = e(k) PROVE FALSE
      OBVIOUS
    <3>1. d[k].frag.part = k + 1 /\ d[k].frag.of = m
      <4> HIDE DEF e
      <4> QED BY <1>5, <2>1
    <3> QED BY <2>1, <2>2, <3>1
  <2>4. m - 1 < k - d[k].frag.part + 1 /\ d[0].frag.id < d[k].frag.id
    <3> HIDE DEF e, m
    <3> QED BY <1>4, <2>1, <2>3
  <2> QED BY <2>1, <2>2, <2>4 DEF Begin
<1> QED BY <1>3, <1>6, <1>7

(* A chip that owns the descriptor at its position is at the beginning of a *)
(* frame, and the walk of lance_transmit takes exactly that frame.          *)
LEMMA WalkTakesFrame ==
  ASSUME NEW s \in MachineType, NEW n \in 0 .. TxLen, NEW dn, TxRun(s, n, dn),
         Marked(View(s), n), Joined(View(s), n), s.tx[s.chip.txPos].own
  PROVE  LET d == View(s)
         IN  /\ n \in 1 .. TxLen
             /\ s.tx[s.chip.txPos].stp
             /\ TxLast(s) = d[0].frag.of - 1
             /\ ~ TxAt(s, TxLast(s)).empty
             /\ Whole(TxFrame(s)) /\ TxFrame(s).frags[1] = d[0].frag
<1> DEFINE d == View(s)
           m == d[0].frag.of
           last == TxLast(s)
<1>1. /\ TxLen \in Nat \ {0} /\ TxIdx = 0 .. TxLen - 1
      /\ s.chip.txPos \in 0 .. TxLen - 1 /\ s.chip \in ChipType
  BY RingAssumption, MachineParts DEF TxIdx, ChipType
<1>2. n \in 1 .. TxLen
  <2>1. TxOff(s.chip, s.chip.txPos) = 0
    BY <1>1 DEF TxOff
  <2>2. 0 < n \/ 0 \in n + 1 .. n + dn
    BY <1>1, <2>1 DEF TxRun
  <2> QED BY <2>2
<1>3. d \in [TxIdx -> TxDesc] /\ \A k \in TxIdx : d[k] = TxAt(s, k)
  BY ViewType
<1>4. /\ m \in 1 .. n
      /\ \A k \in 0 .. m - 1 : /\ d[k].frag = [d[0].frag EXCEPT !.part = k + 1]
                               /\ d[k].enp <=> k = m - 1
  <2> HIDE DEF d
  <2> QED BY <1>2, <1>3, FirstFrame DEF d
<1>5. s.tx[s.chip.txPos].stp /\ d[0].frag.part = 1
  <2>1. TxAt(s, 0) = s.tx[s.chip.txPos]
    BY <1>1 DEF TxAt, Adv
  <2>2. d[0] = TxAt(s, 0) /\ d[0].frag \in Frag
    BY <1>1, <1>3, ViewType
  <2>3. d[0].frag.part = 1
    <3>1. 0 \in 0 .. m - 1
      <4> HIDE DEF m
      <4> QED BY <1>1, <1>2, <1>4
    <3>2. d[0].frag = [d[0].frag EXCEPT !.part = 0 + 1]
      BY <1>4, <3>1
    <3> HIDE DEF d
    <3> QED BY <2>2, <3>2 DEF Frag
  <2>4. d[0].stp <=> d[0].frag.part = 1
    BY <1>2 DEF Marked
  <2> HIDE DEF d
  <2> QED BY <2>1, <2>2, <2>3, <2>4
<1>6. \A k \in 0 .. n - 1 : k \in TxIdx /\ TxAt(s, k).own /\ ~ TxAt(s, k).empty
  <2> TAKE k \in 0 .. n - 1
  <2>1. k \in 0 .. TxLen - 1 /\ k \in 0 .. TxLen
    BY <1>1
  <2>2. Adv(s.chip.txPos, k, TxLen) \in TxIdx
        /\ Off(s.chip.txPos, Adv(s.chip.txPos, k, TxLen), TxLen) = k
    BY <1>1, <2>1, AdvInRing, OffAdv
  <2>3. TxAt(s, k).own
    <3> DEFINE i == Adv(s.chip.txPos, k, TxLen)
    <3>1. i \in TxIdx /\ TxOff(s.chip, i) = k
      BY <2>2, OffIsOffset
    <3>2. s.tx[i].own
      <4> HIDE DEF i
      <4> QED BY <3>1 DEF TxRun
    <3> QED BY <3>2 DEF TxAt
  <2>4. ~ d[k].empty
    BY DEF Marked
  <2> QED BY <1>1, <1>3, <2>1, <2>3, <2>4
<1>7. last = m - 1
  <2>1. /\ last \in TxIdx /\ TxStops(s, last)
        /\ \A k \in TxIdx : k < last => ~ TxStops(s, k)
    BY TxLastStops
  <2>2. m - 1 \in 0 .. n - 1 /\ m - 1 \in TxIdx /\ TxStops(s, m - 1)
    <3>1. m - 1 \in 0 .. n - 1 /\ m - 1 \in 0 .. m - 1 /\ m - 1 \in TxIdx
      BY <1>1, <1>4
    <3>2. d[m - 1].enp
      BY <1>4, <3>1
    <3>3. TxAt(s, m - 1).enp
      BY <1>3, <3>1, <3>2
    <3> QED BY <3>1, <3>3 DEF TxStops
  <2>3. \A k \in 0 .. m - 2 : ~ TxStops(s, k)
    <3> TAKE k \in 0 .. m - 2
    <3>1. k \in 0 .. n - 1 /\ k + 1 \in 0 .. n - 1 /\ k \in 0 .. m - 1 /\ k # m - 1
          /\ k # TxLen - 1 /\ k \in TxIdx
      BY <1>1, <1>4, SMTT(30)
    <3>2. ~ d[k].enp
      BY <1>4, <3>1
    <3>3. ~ TxAt(s, k).enp
      BY <1>3, <3>1, <3>2
    <3> QED BY <1>6, <3>1, <3>3 DEF TxStops
  <2> HIDE DEF last, m
  <2>4. ~ (m - 1 < last)
    BY <2>1, <2>2
  <2>5. ~ (last < m - 1)
    <3> SUFFICES ASSUME last < m - 1 PROVE FALSE
      OBVIOUS
    <3>1. last \in 0 .. m - 2
      BY <1>1, <1>4, <2>1
    <3> QED BY <2>1, <2>3, <3>1
  <2> QED BY <1>1, <1>4, <2>1, <2>4, <2>5
<1>8. /\ ~ TxAt(s, last).empty
  <2>1. last \in 0 .. n - 1
    BY <1>4, <1>7
  <2> QED BY <1>6, <2>1
<1>9. Whole(TxFrame(s)) /\ TxFrame(s).frags[1] = d[0].frag
  <2>1. TxFrame(s).frags = [k \in 1 .. m |-> TxAt(s, k - 1).frag]
    <3>1. last + 1 = m
      BY <1>4, <1>7
    <3> HIDE DEF m, last
    <3> QED BY <3>1 DEF TxFrame, last
  <2>2. \A k \in 1 .. m : TxFrame(s).frags[k] = [d[0].frag EXCEPT !.part = k]
    <3> TAKE k \in 1 .. m
    <3>1. k - 1 \in 0 .. m - 1 /\ k - 1 \in TxIdx /\ (k - 1) + 1 = k
      BY <1>1, <1>4
    <3>2. d[k - 1].frag = [d[0].frag EXCEPT !.part = k]
      BY <1>4, <3>1
    <3>3. TxFrame(s).frags[k] = d[k - 1].frag
      BY <1>3, <2>1, <3>1
    <3> QED BY <3>2, <3>3
  <2>3. TxFrame(s).frags[1] = d[0].frag
    <3>1. 1 \in 1 .. m /\ 0 \in TxIdx /\ 1 - 1 = 0
      BY <1>1, <1>4
    <3>2. TxFrame(s).frags[1] = TxAt(s, 0).frag
      <4> HIDE DEF m
      <4> QED BY <2>1, <3>1
    <3> QED BY <1>3, <3>1, <3>2
  <2>4. Len(TxFrame(s).frags) = m
    <3> HIDE DEF m
    <3>1. m \in Nat /\ TxFrame(s).frags \in [1 .. m -> {TxAt(s, k - 1).frag : k \in 1 .. m}]
      BY <1>4, <2>1
    <3> QED BY <3>1
  <2> HIDE DEF d
  <2> QED BY <2>2, <2>3, <2>4 DEF Whole
<1> HIDE DEF d
<1> QED BY <1>2, <1>5, <1>7, <1>8, <1>9 DEF d

(* Behind a walk the ring looks as before, further along.                   *)
LEMMA ViewShifts ==
  ASSUME NEW s \in MachineType, NEW t \in MachineType, NEW last \in TxIdx,
         TxWalked(s, t, last), NEW k \in Nat, last + 1 + k < TxLen
  PROVE  View(t)[k] = View(s)[last + 1 + k]
<1> DEFINE p == s.chip.txPos
           i == Adv(p, last + 1 + k, TxLen)
<1>1. /\ TxLen \in Nat \ {0} /\ TxIdx = 0 .. TxLen - 1
      /\ p \in 0 .. TxLen - 1 /\ last \in 0 .. TxLen - 1
      /\ last + 1 \in 0 .. TxLen /\ k \in 0 .. TxLen - (last + 1)
      /\ k \in TxIdx /\ last + 1 + k \in TxIdx /\ last + 1 + k \in 0 .. TxLen
  BY RingAssumption, MachineParts DEF TxIdx, ChipType
<1>2. Adv(t.chip.txPos, k, TxLen) = i
  <2>1. \A j \in 0 .. TxLen - (last + 1) :
          Adv(Adv(p, last + 1, TxLen), j, TxLen) = Adv(p, last + 1 + j, TxLen)
    <3> HIDE DEF p
    <3> QED BY <1>1, OffShift
  <2>2. Adv(Adv(p, last + 1, TxLen), k, TxLen) = i
    <3> HIDE DEF p
    <3> QED BY <1>1, <2>1
  <2> QED BY <2>2 DEF TxWalked
<1>3. i \in TxIdx /\ TxOff(s.chip, i) > last
  <2>1. i \in TxIdx /\ Off(p, i, TxLen) = last + 1 + k
    <3> HIDE DEF p
    <3> QED BY <1>1, AdvInRing, OffAdv
  <2> HIDE DEF i
  <2> QED BY <1>1, <2>1, OffIsOffset
<1>4. t.tx[i] = s.tx[i]
  <2> HIDE DEF i
  <2> QED BY <1>3 DEF TxWalked
<1>5. View(t)[k] = t.tx[Adv(t.chip.txPos, k, TxLen)] /\ View(s)[last + 1 + k] = s.tx[i]
  BY <1>1, ViewType
<1> HIDE DEF i
<1> QED BY <1>2, <1>4, <1>5

(* The chain without its first frame is a chain again.                      *)
LEMMA ChainShifts ==
  ASSUME NEW d \in [TxIdx -> TxDesc], NEW e \in [TxIdx -> TxDesc],
         NEW n \in 1 .. TxLen, Marked(d, n), Joined(d, n), NEW m \in 1 .. n,
         \A k \in 0 .. TxLen - m - 1 : e[k] = d[m + k],
         \A k \in m .. n - 1 : Begin(d, k) >= m
  PROVE  Marked(e, n - m) /\ Joined(e, n - m)
<1>1. TxLen \in Nat \ {0} /\ TxIdx = 0 .. TxLen - 1
  BY RingAssumption DEF TxIdx
<1>2. \A k \in 0 .. n - m - 1 :
        /\ m + k \in 0 .. n - 1 /\ m + k \in m .. n - 1 /\ m + k \in TxIdx /\ e[k] = d[m + k]
        /\ d[m + k].frag.part \in Nat /\ d[m + k].frag.of \in Nat
  <2> SUFFICES ASSUME NEW k \in 0 .. n - m - 1
               PROVE  /\ m + k \in 0 .. n - 1 /\ m + k \in m .. n - 1
                      /\ m + k \in TxIdx /\ e[k] = d[m + k]
                      /\ d[m + k].frag.part \in Nat /\ d[m + k].frag.of \in Nat
    OBVIOUS
  <2>1. /\ m + k \in 0 .. n - 1 /\ m + k \in m .. n - 1 /\ m + k \in TxIdx
        /\ k \in 0 .. TxLen - m - 1
    BY <1>1
  <2>2. d[m + k].frag \in Frag
    BY <2>1 DEF TxDesc
  <2> QED BY <2>1, <2>2 DEF Frag
<1>3. \A k \in 0 .. n - m - 1 : Begin(e, k) = Begin(d, m + k) - m /\ End(e, k) = End(d, m + k) - m
  <2> SUFFICES ASSUME NEW k \in 0 .. n - m - 1
               PROVE  /\ Begin(e, k) = Begin(d, m + k) - m
                      /\ End(e, k) = End(d, m + k) - m
    OBVIOUS
  <2>1. e[k] = d[m + k]
    BY <1>2
  <2>2. PICK part \in Nat, of \in Nat : d[m + k].frag.part = part /\ d[m + k].frag.of = of
    BY <1>2
  <2>3. /\ Begin(e, k) = k - part + 1 /\ Begin(d, m + k) = (m + k) - part + 1
        /\ End(e, k) = k - part + of /\ End(d, m + k) = (m + k) - part + of
    BY <2>1, <2>2 DEF Begin, End
  <2> QED BY <1>1, <2>3
<1>4. \A k \in 0 .. n - m - 1 : Begin(d, m + k) \in Int /\ End(d, m + k) \in Int
  <2> TAKE k \in 0 .. n - m - 1
  <2>1. d[m + k].frag.part \in Nat /\ d[m + k].frag.of \in Nat
    BY <1>2
  <2>2. m + k \in Nat
    BY <1>1
  <2> QED BY <2>1, <2>2 DEF Begin, End
<1>5. Marked(e, n - m)
  <2> SUFFICES ASSUME NEW k \in 0 .. n - m - 1
               PROVE  /\ ~ e[k].empty
                      /\ e[k].stp <=> e[k].frag.part = 1
                      /\ e[k].enp <=> e[k].frag.part = e[k].frag.of
                      /\ e[k].frag.part \in 1 .. e[k].frag.of
                      /\ Begin(e, k) >= 0 /\ End(e, k) < n - m
    BY DEF Marked
  <2>1. m + k \in 0 .. n - 1 /\ m + k \in m .. n - 1 /\ e[k] = d[m + k]
    BY <1>2
  <2>2. /\ ~ d[m + k].empty
        /\ d[m + k].stp <=> d[m + k].frag.part = 1
        /\ d[m + k].enp <=> d[m + k].frag.part = d[m + k].frag.of
        /\ d[m + k].frag.part \in 1 .. d[m + k].frag.of
        /\ End(d, m + k) < n
    BY <2>1 DEF Marked
  <2>3. Begin(d, m + k) >= m
    BY <2>1
  <2>4. Begin(e, k) >= 0 /\ End(e, k) < n - m
    <3>1. PICK b \in Int, c \in Int : Begin(d, m + k) = b /\ End(d, m + k) = c
      BY <1>4
    <3>2. Begin(e, k) = b - m /\ End(e, k) = c - m
      BY <1>3, <3>1
    <3> QED BY <1>1, <2>2, <2>3, <3>1, <3>2
  <2> QED BY <2>1, <2>2, <2>4, Zenon
<1>6. Joined(e, n - m)
  <2> SUFFICES ASSUME NEW j \in 0 .. n - m - 1, NEW k \in 0 .. n - m - 1, j < k
               PROVE  \/ e[k].frag = [e[j].frag EXCEPT !.part = @ + (k - j)]
                      \/ End(e, j) < Begin(e, k) /\ e[j].frag.id < e[k].frag.id
    BY DEF Joined
  <2>1. /\ m + j \in 0 .. n - 1 /\ m + k \in 0 .. n - 1 /\ m + j < m + k
        /\ e[j] = d[m + j] /\ e[k] = d[m + k] /\ (m + k) - (m + j) = k - j
    BY <1>1, <1>2
  <2>2. \/ d[m + k].frag = [d[m + j].frag EXCEPT !.part = @ + ((m + k) - (m + j))]
        \/ End(d, m + j) < Begin(d, m + k) /\ d[m + j].frag.id < d[m + k].frag.id
    BY <2>1 DEF Joined
  <2>3. End(d, m + j) < Begin(d, m + k) => End(e, j) < Begin(e, k)
    BY <1>1, <1>3, <1>4
  <2> QED BY <2>1, <2>2, <2>3
<1> QED BY <1>5, <1>6
-----------------------------------------------------------------------------
(* lance_transmit with the chain behind it: the frame goes to the wire, or  *)
(* in loopback nowhere, and the rest of the chain stays.                    *)
LEMMA TransmitSends ==
  ASSUME NEW s \in MachineType, s.tx[s.chip.txPos].own,
         NEW h, NEW b \in Nat, NEW dn \in Nat, NEW q \in Nat, NEW dst,
         Sending(s, h, b, dn, q, dst)
  PROVE  s.tx[s.chip.txPos].stp /\ Sending(Transmit(s).machine, h, b, dn, q, dst)
<1>1. PICK t \in MachineType : t = Transmit(s).machine
  BY TransmitType
<1>2. PICK n \in 0 .. TxLen : Chain(s, n, h, b, dn, q, dst)
  BY DEF Sending
<1> DEFINE d == View(s)
           e == View(t)
           m == d[0].frag.of
           w == s.wire
           l == Latest(b, q)
<1>3. /\ n \in 1 .. TxLen /\ s.tx[s.chip.txPos].stp
      /\ TxLast(s) = m - 1 /\ ~ TxAt(s, TxLast(s)).empty
      /\ Whole(TxFrame(s)) /\ TxFrame(s).frags[1] = d[0].frag
  BY <1>2, WalkTakesFrame DEF Chain
<1>4. /\ d \in [TxIdx -> TxDesc] /\ e \in [TxIdx -> TxDesc] /\ l \in Int
      /\ TxLen \in Nat \ {0} /\ TxIdx = 0 .. TxLen - 1
      /\ s.wire \in Seq(Frame) /\ TxFrame(s) \in Frame
  BY ViewType, MachineParts, TxFrameType, RingAssumption DEF TxIdx, Latest
<1>5. /\ m \in 1 .. n
      /\ \A k \in 0 .. m - 1 : /\ d[k].frag = [d[0].frag EXCEPT !.part = k + 1]
                               /\ d[k].enp <=> k = m - 1
      /\ \A k \in m .. n - 1 : Begin(d, k) >= m /\ d[0].frag.id < d[k].frag.id
  <2>1. Marked(d, n) /\ Joined(d, n)
    BY <1>2 DEF Chain
  <2> HIDE DEF d
  <2> QED BY <1>3, <1>4, <2>1, FirstFrame
<1> DEFINE Bounds == m \in Nat /\ 1 <= m /\ m <= n /\ n \in Nat /\ n <= TxLen /\ TxLen \in Nat
<1>m. Bounds
  <2>1. m \in 1 .. n
    BY <1>5
  <2> HIDE DEF m
  <2> QED BY <1>3, <1>4, <2>1
<1>6. /\ TxWalked(s, t, m - 1) /\ m - 1 \in TxIdx /\ Stays(s.chip, t.chip)
      /\ t.wire \in {w, Append(w, TxFrame(s))}
      /\ "LOOP" \notin s.chip.mode => t.wire = Append(w, TxFrame(s))
  <2>1. TxLast(s) \in TxIdx
    BY TxLastStops
  <2>2. /\ TxWalked(s, t, TxLast(s)) /\ Stays(s.chip, t.chip)
        /\ t.wire \in {w, Append(w, TxFrame(s))}
        /\ "LOOP" \notin s.chip.mode => t.wire = Append(w, TxFrame(s))
    BY <1>1, <1>3, TransmitWalks
  <2> HIDE DEF m, w
  <2> QED BY <1>3, <2>1, <2>2
<1>7. \A k \in 0 .. TxLen - m - 1 : e[k] = d[m + k]
  <2> TAKE k \in 0 .. TxLen - m - 1
  <2>1. k \in Nat /\ (m - 1) + 1 + k < TxLen /\ (m - 1) + 1 + k = m + k
    <3> HIDE DEF m
    <3> QED BY <1>m
  <2>2. e[k] = d[(m - 1) + 1 + k]
    BY <1>6, <2>1, ViewShifts
  <2> QED BY <2>1, <2>2
<1>8. \A k \in 0 .. n - m - 1 : k \in 0 .. TxLen - m - 1 /\ m + k \in m .. n - 1
                                /\ m + k \in 0 .. n - 1
  <2> HIDE DEF m
  <2> QED BY <1>m
<1>9. d[0].frag.id \in Nat /\ 0 \in 0 .. n - 1
  BY <1>3, <1>4, ViewType
<1>10. Chain(t, n - m, h, b, dn, q, dst)
  <2>1. /\ h = Adv(s.chip.txPos, n, TxLen) /\ TxRun(s, n, dn) /\ n + b <= TxLen
        /\ dn < b \/ dn = 0
        /\ Marked(d, n) /\ Joined(d, n) /\ Built(d, n, b, dn, q, dst)
        /\ Fresher(d, n, w, l)
    BY <1>2 DEF Chain
  <2>2. n - (m - 1 + 1) = n - m /\ m - 1 < n
    <3> HIDE DEF m
    <3> QED BY <1>3, <1>5
  <2>3. /\ h = Adv(t.chip.txPos, n - m, TxLen)
        /\ TxRun(t, n - m, dn) /\ n - m + b <= TxLen
    <3> HIDE DEF m, d
    <3> QED BY <1>6, <2>1, <2>2, TxWalkKeepsRun
  <2>4. Marked(e, n - m) /\ Joined(e, n - m)
    <3> HIDE DEF m, d, e
    <3> QED BY <1>3, <1>4, <1>5, <1>7, <2>1, ChainShifts
  <2>5. Built(e, n - m, b, dn, q, dst)
    <3> SUFFICES ASSUME NEW k \in 1 .. dn PROVE e[n - m + k] = d[n + k]
      BY <2>1 DEF Built
    <3>1. n - m + k \in 0 .. TxLen - m - 1 /\ m + (n - m + k) = n + k
      <4> HIDE DEF m, d, e
      <4>1. n + b <= TxLen /\ (dn < b \/ dn = 0)
        BY <2>1
      <4> QED BY <1>m, <4>1
    <3> HIDE DEF m, d, e
    <3> QED BY <1>7, <3>1
  <2>6. Fresher(e, n - m, t.wire, l)
    <3> SUFFICES ASSUME NEW k \in 0 .. n - m - 1
                 PROVE  /\ e[k].frag.id <= l
                        /\ \A j \in DOMAIN t.wire : t.wire[j].frags[1].id < e[k].frag.id
      BY DEF Fresher
    <3>1. e[k] = d[m + k] /\ d[0].frag.id < d[m + k].frag.id
      <4> HIDE DEF m, d, e
      <4> QED BY <1>5, <1>7, <1>8
    <3>2. d[m + k].frag.id <= l /\ \A j \in DOMAIN w : w[j].frags[1].id < d[m + k].frag.id
      <4> HIDE DEF m, d, w, l
      <4> QED BY <1>8, <2>1 DEF Fresher
    <3>3. \A j \in DOMAIN Append(w, TxFrame(s)) :
            Append(w, TxFrame(s))[j].frags[1].id < d[m + k].frag.id
      <4> HIDE DEF m
      <4> QED BY <1>3, <1>4, <3>1, <3>2
    <3> HIDE DEF d, e, m, w
    <3> QED BY <1>6, <3>1, <3>2, <3>3
  <2> HIDE DEF m
  <2> QED BY <2>1, <2>3, <2>4, <2>5, <2>6 DEF Chain
<1>11. Sent(t.wire, l)
  <2>1. Sent(w, l)
    BY DEF Sending
  <2>2. d[0].frag.id \in 0 .. l /\ \A j \in DOMAIN w : w[j].frags[1].id < d[0].frag.id
    <3>1. d[0].frag.id <= l /\ \A j \in DOMAIN w : w[j].frags[1].id < d[0].frag.id
      BY <1>2, <1>9 DEF Chain, Fresher
    <3> HIDE DEF d, l
    <3> QED BY <1>4, <1>9, <3>1
  <2>3. Sent(Append(w, TxFrame(s)), l)
    <3> DEFINE v == Append(w, TxFrame(s))
    <3>1. /\ DOMAIN v = 1 .. Len(w) + 1 /\ DOMAIN w = 1 .. Len(w) /\ Len(w) \in Nat
          /\ \A i \in 1 .. Len(w) : v[i] = w[i]
          /\ v[Len(w) + 1] = TxFrame(s)
      BY <1>4
    <3> HIDE DEF v, d, w, l
    <3>2. \A i \in DOMAIN v : i \in DOMAIN w \/ i = Len(w) + 1
      BY <3>1
    <3>3. \A i \in DOMAIN v : Whole(v[i]) /\ v[i].frags[1].id \in 0 .. l
      BY <1>3, <2>1, <2>2, <3>1, <3>2 DEF Sent
    <3>4. \A i, j \in DOMAIN v : i < j => v[i].frags[1].id < v[j].frags[1].id
      <4> SUFFICES ASSUME NEW i \in DOMAIN v, NEW j \in DOMAIN v, i < j
                   PROVE  v[i].frags[1].id < v[j].frags[1].id
        OBVIOUS
      <4>1. i \in DOMAIN w /\ v[i] = w[i]
        BY <3>1
      <4>2. CASE j \in DOMAIN w
        BY <2>1, <3>1, <4>1, <4>2 DEF Sent
      <4>3. CASE j = Len(w) + 1
        BY <1>3, <2>2, <3>1, <4>1, <4>3
      <4> QED BY <3>2, <4>2, <4>3
    <3> QED BY <3>3, <3>4 DEF Sent, v
  <2> QED BY <1>6, <2>1, <2>3
<1>12. Back(t)
  <2> SUFFICES ASSUME "LOOP" \notin s.chip.mode, NEW i \in TxIdx,
                      t.tx[i].enp, ~ t.tx[i].own, ~ t.tx[i].err
               PROVE  \E j \in DOMAIN t.wire : t.wire[j].frags[1].id = t.tx[i].frag.id
    BY <1>6 DEF Back, Stays
  <2>1. /\ t.wire = Append(w, TxFrame(s))
        /\ DOMAIN t.wire = 1 .. Len(w) + 1 /\ DOMAIN w = 1 .. Len(w) /\ Len(w) \in Nat
        /\ \A j \in 1 .. Len(w) : t.wire[j] = w[j]
        /\ t.wire[Len(w) + 1] = TxFrame(s)
    BY <1>4, <1>6
  <2> DEFINE o == TxOff(s.chip, i)
  <2>2. o \in 0 .. TxLen - 1 /\ Adv(s.chip.txPos, o, TxLen) = i
    BY <1>4, MachineParts, Offsets
  <2>3. CASE o > m - 1
    <3>1. t.tx[i] = s.tx[i]
      BY <1>6, <2>3 DEF TxWalked
    <3>2. \E j \in DOMAIN w : w[j].frags[1].id = s.tx[i].frag.id
      BY <3>1 DEF Sending, Back
    <3> HIDE DEF w
    <3> QED BY <2>1, <3>1, <3>2
  <2>4. CASE ~ (o > m - 1)
    <3>1. t.tx[i].frag = s.tx[i].frag /\ t.tx[i].enp = s.tx[i].enp
      BY <1>6, <2>4 DEF TxWalked
    <3>2. o \in 0 .. m - 1
      <4> HIDE DEF m, o
      <4> QED BY <1>3, <1>5, <2>2, <2>4
    <3>3. d[o] = s.tx[i] /\ o \in TxIdx
      BY <1>4, <2>2, ViewType
    <3>4. d[o].frag = [d[0].frag EXCEPT !.part = o + 1]
      BY <1>5, <3>2
    <3>5. d[o].frag.id = d[0].frag.id
      <4>1. d[0].frag \in Frag
        BY <1>4, ViewType
      <4> HIDE DEF d, o
      <4> QED BY <3>4, <4>1 DEF Frag
    <3>6. Len(w) + 1 \in DOMAIN t.wire /\ t.wire[Len(w) + 1].frags[1].id = t.tx[i].frag.id
      <4> HIDE DEF d, o, w
      <4> QED BY <1>3, <2>1, <3>1, <3>3, <3>5
    <3> HIDE DEF w
    <3> QED BY <3>6
  <2> QED BY <2>3, <2>4
<1>13. n - m \in 0 .. TxLen
  <2> HIDE DEF m
  <2> QED BY <1>m
<1>14. Sending(t, h, b, dn, q, dst)
  <2> HIDE DEF m
  <2> QED BY <1>10, <1>11, <1>12, <1>13 DEF Sending
<1> QED BY <1>1, <1>3, <1>14
-----------------------------------------------------------------------------
(* What a handler hands on: the transmit side, and that the chip is not     *)
(* stopped.                                                                 *)
Conveys(s, t) ==
  /\ \A h \in TxIdx, b \in Nat, dn \in Nat, q \in Nat, dst \in Dst :
       Sending(s, h, b, dn, q, dst) => Sending(t, h, b, dn, q, dst)
  /\ "STOP" \in t.chip.csr0 => "STOP" \in s.chip.csr0

LEMMA ConveysTrans ==
  ASSUME NEW s, NEW t, NEW u, Conveys(s, t), Conveys(t, u)
  PROVE  Conveys(s, u)
BY DEF Conveys

LEMMA SameConveys ==
  ASSUME NEW s, NEW t, s.tx = t.tx, s.wire = t.wire,
         s.chip.txPos = t.chip.txPos, s.chip.mode = t.chip.mode,
         "STOP" \in t.chip.csr0 => "STOP" \in s.chip.csr0
  PROVE  Conveys(s, t)
<1>1. \A i : TxOff(s.chip, i) = TxOff(t.chip, i)
  BY DEF TxOff
<1>2. \A n, dn : TxRun(s, n, dn) <=> TxRun(t, n, dn)
  BY <1>1 DEF TxRun
<1>3. View(s) = View(t)
  BY DEF View, TxAt
<1>4. \A n, h, b, dn, q, dst : Chain(s, n, h, b, dn, q, dst) <=> Chain(t, n, h, b, dn, q, dst)
  BY <1>2, <1>3 DEF Chain
<1>5. Back(s) <=> Back(t)
  BY DEF Back
<1> QED BY <1>4, <1>5 DEF Conveys, Sending

LEMMA ReceiveConveys ==
  ASSUME NEW s \in MachineType, NEW f \in Frame
  PROVE  Conveys(s, Receive(s, f)) /\ Conveys(s, Recv(s, f))
<1>1. PICK t : t = Receive(s, f)
  OBVIOUS
<1>2. t.tx = s.tx /\ t.chip.txPos = s.chip.txPos /\ t.wire = s.wire /\ Stays(s.chip, t.chip)
  BY <1>1, ReceiveWalks
<1>3. Conveys(s, t)
  BY <1>2, SameConveys DEF Stays, Settled
<1>4. Recv(s, f) = s \/ Recv(s, f) = t
  BY <1>1 DEF Recv
<1>5. Conveys(s, s)
  BY DEF Conveys
<1> QED BY <1>1, <1>3, <1>4, <1>5

(* The poll never meets a descriptor to skip, and what it sends is whole.   *)
LEMMA TransmitPollConveys ==
  ASSUME NEW s \in MachineType
  PROVE  Conveys(s, TransmitPoll(s))
<1> DEFINE t == [s EXCEPT !.chip = TakeDemand(@)]
           r == Transmit(t)
<1>1. /\ t \in MachineType
      /\ t.tx = s.tx /\ t.wire = s.wire
      /\ t.chip.txPos = s.chip.txPos /\ t.chip.mode = s.chip.mode
      /\ "STOP" \in t.chip.csr0 => "STOP" \in s.chip.csr0
  <2>1. TakeDemand(s.chip) \in ChipType
    BY MachineParts, ChipOpsType
  <2>2. t \in MachineType
    BY <2>1, MachineParts
  <2>3. /\ t.tx = s.tx /\ t.wire = s.wire /\ t.chip.txPos = s.chip.txPos
        /\ t.chip.csr0 = s.chip.csr0 \ {"TDMD"} /\ t.chip.mode = s.chip.mode
    BY MachineParts DEF TakeDemand, Lower, MachineType, ChipType
  <2> HIDE DEF t
  <2> QED BY <2>2, <2>3
<1> HIDE DEF t
<1>2. Conveys(s, s) /\ Conveys(s, t)
  BY <1>1, SameConveys DEF Conveys
<1>3. ASSUME s.tx[s.chip.txPos].own
      PROVE  /\ Conveys(s, r.machine) /\ Conveys(s, Receive(r.machine, r.loop))
             /\ \A h \in TxIdx, b \in Nat, dn \in Nat, q \in Nat, dst \in Dst :
                  Sending(s, h, b, dn, q, dst) => ~ Continuation(s.tx[s.chip.txPos])
  <2>1. r.machine \in MachineType /\ r.loop \in Frame
    BY <1>1, TransmitType
  <2>2. \A h \in TxIdx, b \in Nat, dn \in Nat, q \in Nat, dst \in Dst :
          Sending(t, h, b, dn, q, dst)
            => t.tx[t.chip.txPos].stp /\ Sending(r.machine, h, b, dn, q, dst)
    BY <1>1, <1>3, TransmitSends
  <2>3. "STOP" \in r.machine.chip.csr0 => "STOP" \in t.chip.csr0
    <3>1. Stays(t.chip, r.machine.chip)
      BY <1>1, <1>3, TransmitWalks
    <3> QED BY <3>1 DEF Stays, Settled
  <2> HIDE DEF r
  <2>4. Conveys(t, r.machine)
    BY <2>2, <2>3 DEF Conveys
  <2>5. Conveys(r.machine, Receive(r.machine, r.loop))
    BY <2>1, ReceiveConveys
  <2>6. Conveys(s, r.machine)
    BY <1>2, <2>4, ConveysTrans
  <2>7. Conveys(s, Receive(r.machine, r.loop))
    BY <2>5, <2>6, ConveysTrans
  <2>8. \A h \in TxIdx, b \in Nat, dn \in Nat, q \in Nat, dst \in Dst :
          Sending(s, h, b, dn, q, dst) => ~ Continuation(s.tx[s.chip.txPos])
    BY <1>1, <1>2, <2>2 DEF Conveys, Continuation
  <2> QED BY <2>6, <2>7, <2>8
<1>4. ASSUME s.tx[s.chip.txPos].own
      PROVE  "STOP" \in ReleaseTx(t, 0, FALSE, {}).chip.csr0 => "STOP" \in s.chip.csr0
  <2>1. ReleaseTx(t, 0, FALSE, {}).chip.csr0 = t.chip.csr0
    BY <1>1, MachineParts DEF ReleaseTx, MachineType, ChipType
  <2> QED BY <1>1, <2>1
<1>5. \/ TransmitPoll(s) = s
      \/ TransmitPoll(s) = t
      \/ /\ s.tx[s.chip.txPos].own /\ Continuation(s.tx[s.chip.txPos])
         /\ TransmitPoll(s) = ReleaseTx(t, 0, FALSE, {})
      \/ /\ s.tx[s.chip.txPos].own
         /\ TransmitPoll(s) = r.machine \/ TransmitPoll(s) = Receive(r.machine, r.loop)
  BY Zenon DEF TransmitPoll, t
<1> HIDE DEF r
<1>6. ASSUME s.tx[s.chip.txPos].own, Continuation(s.tx[s.chip.txPos]),
             TransmitPoll(s) = ReleaseTx(t, 0, FALSE, {})
      PROVE  Conveys(s, TransmitPoll(s))
  BY <1>3, <1>4, <1>6, Zenon DEF Conveys
<1> QED BY <1>2, <1>3, <1>5, <1>6

LEMMA TickChipConveys ==
  ASSUME NEW s \in MachineType
  PROVE  /\ Conveys(s, TickChip(s))
         /\ "TXON" \notin s.chip.csr0 =>
              /\ TickChip(s).wire = s.wire /\ "TXON" \notin TickChip(s).chip.csr0
<1>1. s.chip \in ChipType
  BY MachineParts
<1>2. CASE s.chip.poll > 1
  <2> DEFINE t == [s EXCEPT !.chip.poll = @ - 1]
  <2>1. /\ t.tx = s.tx /\ t.wire = s.wire /\ t.chip.txPos = s.chip.txPos
        /\ t.chip.csr0 = s.chip.csr0 /\ t.chip.mode = s.chip.mode
    BY <1>1 DEF MachineType, ChipType
  <2> HIDE DEF t
  <2>2. Conveys(s, t)
    BY <2>1, SameConveys
  <2>3. TickChip(s) = t
    BY <1>2 DEF TickChip, t
  <2> QED BY <2>1, <2>2, <2>3
<1>3. CASE ~ (s.chip.poll > 1)
  <2> DEFINE t == [s EXCEPT !.chip.poll = PollTicks]
  <2>1. t \in MachineType
    <3>1. [s.chip EXCEPT !.poll = PollTicks] \in ChipType
      BY <1>1 DEF ChipType, PollTicks
    <3> QED BY <3>1, MachineParts
  <2>2. /\ t.tx = s.tx /\ t.wire = s.wire /\ t.chip.txPos = s.chip.txPos
        /\ t.chip.csr0 = s.chip.csr0 /\ t.chip.mode = s.chip.mode
    BY <1>1 DEF MachineType, ChipType
  <2>3. TickChip(s) = TransmitPoll(t)
    BY <1>3 DEF TickChip
  <2> HIDE DEF t
  <2>4. Conveys(s, t) /\ Conveys(t, TransmitPoll(t))
    BY <2>1, <2>2, SameConveys, TransmitPollConveys
  <2>5. "TXON" \notin s.chip.csr0 => TransmitPoll(t) = t
    BY <2>2 DEF TransmitPoll
  <2>6. Conveys(s, TransmitPoll(t))
    BY <2>4, ConveysTrans
  <2> QED BY <2>2, <2>3, <2>5, <2>6
<1> QED BY <1>2, <1>3

(* The driver's register writes.                                            *)
LEMMA StartConveys ==
  ASSUME NEW s \in MachineType, NEW data \in SUBSET Csr0Bits
  PROVE  \A t \in {DoStrt(s, data), DoTdmd(s, data)} : Conveys(s, t)
<1> TAKE t \in {DoStrt(s, data), DoTdmd(s, data)}
<1>1. CASE t = s
  BY <1>1 DEF Conveys
<1>2. ASSUME NEW u \in MachineType, Alike(s, u), Started(s.chip, u.chip), t = TransmitPoll(u)
      PROVE  Conveys(s, t)
  <2>1. Conveys(s, u)
    BY <1>2, SameConveys DEF Alike, Started
  <2>2. Conveys(u, t)
    BY <1>2, TransmitPollConveys
  <2> QED BY <2>1, <2>2, ConveysTrans
<1> QED BY <1>1, <1>2, StartSteps, Zenon

LEMMA TailConveys ==
  ASSUME NEW s \in MachineType, NEW data \in SUBSET Csr0Bits,
         NEW s3 \in MachineType, NEW s4 \in MachineType, NEW t,
         s3 = DoStrt(s, data), s4 = DoTdmd(s3, data), Alike(s4, t),
         "STOP" \in t.chip.csr0 <=> "STOP" \in s4.chip.csr0
  PROVE  Conveys(s, t)
<1>1. Conveys(s, s3) /\ Conveys(s3, s4)
  BY StartConveys
<1>2. Conveys(s4, t)
  BY SameConveys DEF Alike
<1>3. Conveys(s, s4)
  BY <1>1, ConveysTrans
<1> QED BY <1>2, <1>3, ConveysTrans

LEMMA WriteCsr0Conveys ==
  ASSUME NEW s \in MachineType, NEW data \in SUBSET Csr0Bits, NEW block \in BlockType,
         "STOP" \notin data, "INIT" \notin data
  PROVE  Conveys(s, WriteCsr0(s, data, block))
<1>1. PICK t : t = WriteCsr0(s, data, block)
  OBVIOUS
<1>2. PICK s1, s2, s3, s4 \in MachineType :
        /\ Alike(s, s1) /\ s1.chip.csr0 = s.chip.csr0 \ Acked(data)
        /\ s2 = DoInit(s1, data, block)
        /\ s3 = DoStrt(s2, data)
        /\ s4 = DoTdmd(s3, data)
        /\ Alike(s4, t)
        /\ \A bit \in {"INIT", "RINT", "STOP", "STRT", "TXON", "RXON", "IDON", "TINT"} :
             bit \in t.chip.csr0 <=> bit \in s4.chip.csr0
  BY <1>1, WriteCsr0Steps
<1>3. Conveys(s1, t)
  <2>1. s2 = s1
    BY <1>2 DEF DoInit
  <2> QED BY <1>2, <2>1, TailConveys
<1>4. Conveys(s, s1)
  BY <1>2, SameConveys DEF Alike
<1> QED BY <1>1, <1>3, <1>4, ConveysTrans

LEMMA InitConveys ==
  ASSUME NEW s \in MachineType, NEW data \in SUBSET Csr0Bits, NEW block \in BlockType,
         "STOP" \notin data, "INIT" \in data, data \cap Acks = {},
         "INIT" \notin s.chip.csr0
  PROVE  \E u \in MachineType :
           /\ u.tx = s.tx /\ u.wire = s.wire /\ u.chip.txPos = 0
           /\ "STOP" \notin u.chip.csr0
           /\ Conveys(u, WriteCsr0(s, data, block))
<1>1. PICK t : t = WriteCsr0(s, data, block)
  OBVIOUS
<1>2. PICK s1, s2, s3, s4 \in MachineType :
        /\ Alike(s, s1) /\ s1.chip.csr0 = s.chip.csr0 \ Acked(data)
        /\ s2 = DoInit(s1, data, block)
        /\ s3 = DoStrt(s2, data)
        /\ s4 = DoTdmd(s3, data)
        /\ Alike(s4, t)
        /\ \A bit \in {"INIT", "RINT", "STOP", "STRT", "TXON", "RXON", "IDON", "TINT"} :
             bit \in t.chip.csr0 <=> bit \in s4.chip.csr0
  BY <1>1, WriteCsr0Steps
<1>3. Conveys(s2, t)
  BY <1>2, TailConveys
<1>4. s1.chip.csr0 = s.chip.csr0
  BY <1>2 DEF Acked
<1>5. s2 = [s1 EXCEPT !.chip = Initialize(@, block)] /\ s1.chip \in ChipType
  BY <1>2, <1>4, MachineParts DEF DoInit
<1>6. /\ s2.tx = s1.tx /\ s2.wire = s1.wire /\ s2.chip.txPos = 0
      /\ s2.chip.csr0 = (s1.chip.csr0 \ {"INIT", "STOP", "STRT", "TXON", "RXON"})
                          \cup {"IDON", "INTR"}
  BY <1>5, ZenonT(40) DEF Initialize, UpdateInterrupts, MachineType, ChipType
<1>7. s2.tx = s.tx /\ s2.wire = s.wire
  BY <1>2, <1>6 DEF Alike
<1> QED BY <1>1, <1>2, <1>3, <1>6, <1>7

(* On fresh rings nothing is under way.                                     *)
LEMMA FreshSends ==
  ASSUME NEW s, s.tx = FreshTx, s.chip.txPos = 0, NEW q \in Nat, NEW dst, Sent(s.wire, q)
  PROVE  Sending(s, 0, 0, 0, q, dst)
<1>1. \A i \in TxIdx : ~ s.tx[i].own /\ ~ s.tx[i].enp
  BY DEF FreshTx
<1>2. Back(s)
  BY <1>1 DEF Back
<1>3. TxRun(s, 0, 0)
  <2>1. \A i \in TxIdx : TxOff(s.chip, i) = i /\ i >= 0
    BY DEF TxOff, TxIdx
  <2> QED BY <1>1, <2>1 DEF TxRun, TxIdx
<1>4. 0 \in 0 .. TxLen /\ 0 = Adv(s.chip.txPos, 0, TxLen) /\ 0 + 0 <= TxLen
  BY RingAssumption DEF Adv
<1>5. Chain(s, 0, 0, 0, 0, q, dst)
  BY <1>3, <1>4 DEF Chain, Marked, Joined, Built, Fresher
<1> QED BY <1>2, <1>4, <1>5 DEF Sending, Latest
-----------------------------------------------------------------------------
(* Closing the gap before the buffers that are stored makes the chain one   *)
(* frame longer.                                                            *)
LEMMA ChainGrows ==
  ASSUME NEW d \in [TxIdx -> TxDesc], NEW e \in [TxIdx -> TxDesc],
         NEW n \in 0 .. TxLen, NEW b \in Nat \ {0}, n + b <= TxLen,
         NEW q \in Nat, NEW dst, NEW w,
         Marked(d, n), Joined(d, n), Fresher(d, n, w, q - 1), Sent(w, q - 1),
         \A k \in 0 .. n - 1 : e[k] = d[k],
         \A k \in 0 .. b - 1 :
           /\ ~ e[n + k].empty
           /\ e[n + k].stp <=> k = 0
           /\ e[n + k].enp <=> k = b - 1
           /\ e[n + k].frag = [id |-> q, part |-> k + 1, of |-> b, dst |-> dst]
  PROVE  Marked(e, n + b) /\ Joined(e, n + b) /\ Fresher(e, n + b, w, q)
<1>1. TxLen \in Nat \ {0} /\ TxIdx = 0 .. TxLen - 1
  BY RingAssumption DEF TxIdx
<1>2. \A k \in 0 .. n - 1 : /\ e[k] = d[k] /\ d[k].frag.id \in Nat /\ d[k].frag.part \in Nat
                            /\ d[k].frag.of \in Nat
  <2> SUFFICES ASSUME NEW k \in 0 .. n - 1
               PROVE  d[k].frag.id \in Nat /\ d[k].frag.part \in Nat /\ d[k].frag.of \in Nat
    OBVIOUS
  <2>1. d[k].frag \in Frag
    BY <1>1 DEF TxDesc
  <2> QED BY <2>1 DEF Frag
(* A place in the longer chain is one of the old, or the j-th of the frame. *)
<1>3. ASSUME NEW k \in n .. n + b - 1
      PROVE  /\ ~ e[k].empty
             /\ e[k].stp <=> k = n
             /\ e[k].enp <=> k = n + b - 1
             /\ e[k].frag = [id |-> q, part |-> k - n + 1, of |-> b, dst |-> dst]
  <2>1. k - n \in 0 .. b - 1 /\ n + (k - n) = k /\ (k - n = 0 <=> k = n)
        /\ (k - n = b - 1 <=> k = n + b - 1)
    BY <1>1
  <2>2. /\ ~ e[n + (k - n)].empty
        /\ e[n + (k - n)].stp <=> k - n = 0
        /\ e[n + (k - n)].enp <=> k - n = b - 1
        /\ e[n + (k - n)].frag = [id |-> q, part |-> k - n + 1, of |-> b, dst |-> dst]
    BY <2>1
  <2> QED BY <2>1, <2>2
<1>f. \A k \in n .. n + b - 1 :
        e[k].frag.id = q /\ e[k].frag.part = k - n + 1 /\ e[k].frag.of = b
  <2> TAKE k \in n .. n + b - 1
  <2>1. e[k].frag = [id |-> q, part |-> k - n + 1, of |-> b, dst |-> dst]
    BY <1>3
  <2> QED BY <2>1
<1>4. \A k \in 0 .. n + b - 1 : k \in 0 .. n - 1 \/ k \in n .. n + b - 1
  BY <1>1
<1>5. \A k \in n .. n + b - 1 : Begin(e, k) = n /\ End(e, k) = n + b - 1
  <2> TAKE k \in n .. n + b - 1
  <2>1. e[k].frag.part = k - n + 1 /\ e[k].frag.of = b /\ k \in Int
    BY <1>1, <1>f
  <2> QED BY <1>1, <2>1 DEF Begin, End
<1>6. Marked(e, n + b)
  <2> SUFFICES ASSUME NEW k \in 0 .. n + b - 1
               PROVE  /\ ~ e[k].empty
                      /\ e[k].stp <=> e[k].frag.part = 1
                      /\ e[k].enp <=> e[k].frag.part = e[k].frag.of
                      /\ e[k].frag.part \in 1 .. e[k].frag.of
                      /\ Begin(e, k) >= 0 /\ End(e, k) < n + b
    BY DEF Marked
  <2>1. CASE k \in 0 .. n - 1
    <3>1. /\ ~ d[k].empty
          /\ d[k].stp <=> d[k].frag.part = 1
          /\ d[k].enp <=> d[k].frag.part = d[k].frag.of
          /\ d[k].frag.part \in 1 .. d[k].frag.of
          /\ Begin(d, k) >= 0 /\ End(d, k) < n
      BY <2>1 DEF Marked
    <3>2. e[k] = d[k] /\ Begin(e, k) = Begin(d, k) /\ End(e, k) = End(d, k)
      BY <1>2, <2>1 DEF Begin, End
    <3>3. End(d, k) \in Int
      BY <1>2, <2>1 DEF End
    <3>4. End(d, k) < n + b
      BY <1>1, <3>1, <3>3
    <3> QED BY <3>1, <3>2, <3>4, Zenon
  <2>2. CASE k \in n .. n + b - 1
    <3>1. /\ ~ e[k].empty /\ (e[k].stp <=> k = n) /\ (e[k].enp <=> k = n + b - 1)
          /\ e[k].frag.part = k - n + 1 /\ e[k].frag.of = b
      BY <1>3, <1>f, <2>2, Zenon
    <3>2. (k - n + 1 = 1 <=> k = n) /\ (k - n + 1 = b <=> k = n + b - 1)
          /\ k - n + 1 \in 1 .. b /\ n >= 0 /\ n + b - 1 < n + b
      <4>1. n \in Nat /\ k \in Nat /\ n <= k /\ k <= n + b - 1
        BY <1>1, <2>2
      <4> QED BY <4>1
    <3>3. Begin(e, k) = n /\ End(e, k) = n + b - 1
      BY <1>5, <2>2
    <3> QED BY <3>1, <3>2, <3>3, Zenon
  <2> QED BY <1>4, <2>1, <2>2
<1>7. Joined(e, n + b)
  <2> SUFFICES ASSUME NEW j \in 0 .. n + b - 1, NEW k \in 0 .. n + b - 1, j < k
               PROVE  \/ e[k].frag = [e[j].frag EXCEPT !.part = @ + (k - j)]
                      \/ End(e, j) < Begin(e, k) /\ e[j].frag.id < e[k].frag.id
    BY DEF Joined
  <2>1. CASE k \in 0 .. n - 1
    <3>1. j \in 0 .. n - 1
      BY <1>1, <2>1
    <3>2. e[k] = d[k] /\ e[j] = d[j] /\ Begin(e, k) = Begin(d, k) /\ End(e, j) = End(d, j)
      BY <1>2, <2>1, <3>1 DEF Begin, End
    <3> QED BY <2>1, <3>1, <3>2 DEF Joined
  <2>2. CASE j \in 0 .. n - 1 /\ k \in n .. n + b - 1
    <3>1. e[j] = d[j] /\ End(d, j) < n /\ d[j].frag.id <= q - 1 /\ d[j].frag.id \in Nat
      BY <1>2, <2>2 DEF Marked, Fresher
    <3>2. Begin(e, k) = n /\ e[k].frag.id = q
      BY <1>5, <1>f, <2>2
    <3>3. End(e, j) = End(d, j)
      BY <3>1 DEF End
    <3> QED BY <3>1, <3>2, <3>3
  <2>3. CASE j \in n .. n + b - 1 /\ k \in n .. n + b - 1
    <3>1. /\ e[j].frag = [id |-> q, part |-> j - n + 1, of |-> b, dst |-> dst]
          /\ e[k].frag = [id |-> q, part |-> k - n + 1, of |-> b, dst |-> dst]
      BY <1>3, <2>3
    <3>2. k - n + 1 = j - n + 1 + (k - j)
      BY <1>1, <2>3
    <3> QED BY <3>1, <3>2
  <2>4. k \in 0 .. n - 1 \/ (j \in 0 .. n - 1 /\ k \in n .. n + b - 1)
        \/ (j \in n .. n + b - 1 /\ k \in n .. n + b - 1)
    BY <1>1
  <2> QED BY <2>1, <2>2, <2>3, <2>4
<1>8. Fresher(e, n + b, w, q)
  <2> SUFFICES ASSUME NEW k \in 0 .. n + b - 1
               PROVE  /\ e[k].frag.id <= q
                      /\ \A j \in DOMAIN w : w[j].frags[1].id < e[k].frag.id
    BY DEF Fresher
  <2>1. CASE k \in 0 .. n - 1
    BY <1>2, <2>1 DEF Fresher
  <2>2. CASE k \in n .. n + b - 1
    <3>1. e[k].frag.id = q
      BY <1>f, <2>2
    <3>2. \A j \in DOMAIN w : w[j].frags[1].id \in 0 .. q - 1
      BY DEF Sent
    <3> QED BY <3>1, <3>2
  <2> QED BY <1>4, <2>1, <2>2
<1> QED BY <1>6, <1>7, <1>8

LEMMA SentLater ==
  ASSUME NEW w, NEW l \in Int, NEW m \in Int, l <= m, Sent(w, l)
  PROVE  Sent(w, m)
<1>1. \A x \in 0 .. l : x \in 0 .. m
  OBVIOUS
<1> QED BY <1>1 DEF Sent

(* A store of the driver: behind the chain, or closing it.                  *)
LEMMA StoreSends ==
  ASSUME TypeOK, OwnLast, StoreTx(FALSE),
         Sending(Machine, drv.head, drv.build, drv.done, drv.queued, drv.dst)
  PROVE  Sending(Machine, drv.head, drv.build, drv.done, drv.queued, drv.dst)'
<1> DEFINE b == drv.build
           q == drv.queued
           closes == drv.done + 1 = b
           k == IF closes THEN 0 ELSE drv.done + 1
           d == View(Machine)
           e == View(Machine')
           part(j) == [id |-> q, part |-> j + 1, of |-> b, dst |-> drv.dst]
<1>1. PICK n \in 0 .. TxLen : Chain(Machine, n, drv.head, b, drv.done, q, drv.dst)
  BY DEF Sending
<1>2. /\ drv.head = Adv(chip.txPos, n, TxLen) /\ TxRun(Machine, n, drv.done)
      /\ n + b <= TxLen
      /\ Marked(d, n) /\ Joined(d, n) /\ Built(d, n, b, drv.done, q, drv.dst)
      /\ Fresher(d, n, wire, Latest(b, q))
  BY <1>1, StateParts DEF Chain
<1>3. /\ b \in Nat \ {0} /\ drv.done \in Nat /\ drv.done < b /\ q \in Nat
      /\ TxLen \in Nat \ {0} /\ TxIdx = 0 .. TxLen - 1 /\ n \in Nat
  BY StateParts, RingAssumption DEF StoreTx, TypeOK, DrvType, TxIdx
<1>4. LET m == IF closes THEN n + b ELSE n
      IN  /\ NextPart = k /\ n + k \in TxIdx
          /\ Adv(drv.head, k, TxLen) = Adv(chip.txPos, n + k, TxLen)
          /\ \A j \in TxIdx : j # n + k => TxAt(Machine', j) = TxAt(Machine, j)
          /\ m \in 0 .. TxLen /\ drv'.head = Adv(chip'.txPos, m, TxLen)
          /\ TxRun(Machine', m, drv'.done)
          /\ m + drv'.build <= TxLen
          /\ drv'.done < drv'.build \/ drv'.done = 0
  BY <1>2, StoreGrowsRun
<1>5. /\ chip' = chip /\ wire' = wire /\ drv'.queued = q
      /\ closes => drv'.build = 0 /\ drv'.done = 0
      /\ ~ closes => drv'.build = b /\ drv'.done = drv.done + 1 /\ drv'.dst = drv.dst
  BY StateParts DEF StoreTx, DrvType
<1>6. /\ Machine'.chip = chip /\ Machine'.tx = tx' /\ Machine'.wire = wire
      /\ Machine.chip = chip /\ Machine.tx = tx /\ Machine.wire = wire
  BY <1>5 DEF Machine
<1> DEFINE i == Adv(chip.txPos, n + k, TxLen)
           new == [own |-> TRUE, stp |-> k = 0, enp |-> k = b - 1, empty |-> FALSE,
                   err |-> FALSE, tmd3 |-> {}, frag |-> part(k)]
<1>w. /\ ~ new.empty /\ (new.stp <=> k = 0) /\ (new.enp <=> k = b - 1)
      /\ new.frag = part(k)
  <2> HIDE DEF k, part
  <2> QED OBVIOUS
<1>7. tx' = [tx EXCEPT ![i] = new]
  <2>1. i = Adv(drv.head, NextPart, TxLen) /\ NextPart = k
    BY <1>4
  <2> HIDE DEF i, k
  <2> QED BY <2>1 DEF StoreTx
<1>8. i \in TxIdx /\ chip.txPos \in TxIdx
  <2>1. n + k \in 0 .. TxLen /\ chip.txPos \in 0 .. TxLen - 1
    BY <1>3, <1>4, StateParts DEF ChipType
  <2> QED BY <1>3, <2>1, AdvInRing
<1>9. /\ d \in [TxIdx -> TxDesc] /\ \A j \in TxIdx : d[j] = TxAt(Machine, j)
  BY StateParts, ViewType
<1>10. e[n + k] = new /\ \A j \in TxIdx : j # n + k => e[j] = d[j]
  <2>1. \A j \in TxIdx : e[j] = TxAt(Machine', j)
    BY DEF View
  <2>2. TxAt(Machine', n + k) = tx'[i]
    <3> HIDE DEF k
    <3> QED BY <1>6 DEF TxAt
  <2>3. tx'[i] = new
    <3> HIDE DEF i, new
    <3> QED BY <1>7, <1>8, StateParts
  <2> HIDE DEF e, d, k, i, new
  <2> QED BY <1>4, <1>9, <2>1, <2>2, <2>3
<1>11. e \in [TxIdx -> TxDesc]
  <2>1. new \in TxDesc
    <3>1. drv.dst \in Dst /\ k + 1 \in Nat
      BY <1>3, StateParts DEF DrvType
    <3>2. part(k) \in Frag
      <4> HIDE DEF k
      <4> QED BY <1>3, <3>1 DEF Frag
    <3> HIDE DEF part, k
    <3> QED BY <3>2 DEF TxDesc
  <2>2. \A j \in TxIdx : e[j] \in TxDesc
    <3> HIDE DEF e, d, k, new
    <3> QED BY <1>9, <1>10, <2>1
  <2> QED BY <2>2 DEF View
<1>12. Back(Machine')
  <2>1. Back(Machine)
    BY DEF Sending
  <2>2. new.own
    OBVIOUS
  <2>3. \A j \in TxIdx : tx'[j] = tx[j] \/ tx'[j].own
    <3> HIDE DEF i, new
    <3> QED BY <1>7, <2>2, StateParts
  <2> HIDE DEF i, new, k
  <2> QED BY <1>6, <2>1, <2>3 DEF Back
<1>13. CASE closes
  <2>1. k = 0 /\ drv.done = b - 1
    BY <1>3, <1>13
  <2>2. Latest(b, q) = q - 1 /\ Sent(wire, q - 1) /\ Latest(0, q) = q
    BY <1>3, <1>6 DEF Latest, Sending
  <2>3. \A j \in 0 .. n - 1 : e[j] = d[j]
    <3> SUFFICES ASSUME NEW j \in 0 .. n - 1 PROVE e[j] = d[j]
      OBVIOUS
    <3>1. j \in TxIdx /\ j # n + k
      BY <1>2, <1>3, <2>1
    <3> HIDE DEF e, d, k
    <3> QED BY <1>10, <3>1
  <2>4. \A j \in 0 .. b - 1 :
          /\ ~ e[n + j].empty
          /\ e[n + j].stp <=> j = 0
          /\ e[n + j].enp <=> j = b - 1
          /\ e[n + j].frag = part(j)
    <3> SUFFICES ASSUME NEW j \in 0 .. b - 1
                 PROVE  /\ ~ e[n + j].empty
                        /\ e[n + j].stp <=> j = 0
                        /\ e[n + j].enp <=> j = b - 1
                        /\ e[n + j].frag = part(j)
      OBVIOUS
    <3>1. CASE j = 0
      <4>1. e[n + j] = new /\ j = k
        BY <1>10, <2>1, <3>1
      <4> HIDE DEF e, k, part, new
      <4> QED BY <1>w, <4>1, Zenon
    <3>2. CASE j # 0
      <4>1. j \in 1 .. drv.done /\ n + j \in TxIdx /\ n + j # n + k
        BY <1>2, <1>3, <2>1, <3>2
      <4>2. e[n + j] = d[n + j]
        <5> HIDE DEF e, d, k
        <5> QED BY <1>10, <4>1
      <4>3. /\ ~ d[n + j].empty /\ ~ d[n + j].stp /\ (d[n + j].enp <=> j = b - 1)
            /\ d[n + j].frag = part(j)
        BY <1>2, <4>1 DEF Built
      <4> HIDE DEF e, d, part
      <4> QED BY <3>2, <4>2, <4>3, Zenon
    <3> QED BY <3>1, <3>2
  <2>5. Marked(e, n + b) /\ Joined(e, n + b) /\ Fresher(e, n + b, wire, q)
    <3> HIDE DEF e, d, b, q
    <3> QED BY <1>2, <1>3, <1>9, <1>11, <2>2, <2>3, <2>4, ChainGrows, ZenonT(40)
  <2>6. Chain(Machine', n + b, drv'.head, drv'.build, drv'.done, q, drv'.dst)
    <3>1. Built(e, n + b, 0, 0, q, drv'.dst)
      BY DEF Built
    <3>2. /\ drv'.head = Adv(chip.txPos, n + b, TxLen) /\ TxRun(Machine', n + b, 0)
          /\ n + b + 0 <= TxLen /\ drv'.build = 0 /\ drv'.done = 0
      BY <1>4, <1>5, <1>13
    <3> HIDE DEF b, q
    <3> QED BY <1>6, <2>2, <2>5, <3>1, <3>2 DEF Chain
  <2>7. Sent(wire, q) /\ n + b \in 0 .. TxLen
    BY <1>2, <1>3, <2>2, SentLater
  <2>8. Sending(Machine', drv'.head, drv'.build, drv'.done, drv'.queued, drv'.dst)
    <3>1. drv'.queued = q /\ drv'.build = 0
      BY <1>5, <1>13
    <3> HIDE DEF b, q
    <3> QED BY <1>6, <1>12, <2>2, <2>6, <2>7, <3>1 DEF Sending
  <2> QED BY <2>8
<1>14. CASE ~ closes
  <2>1. k = drv.done + 1 /\ k \in 1 .. b - 1
    BY <1>3, <1>14
  <2>2. \A j \in 0 .. n - 1 : e[j] = d[j]
    <3> SUFFICES ASSUME NEW j \in 0 .. n - 1 PROVE e[j] = d[j]
      OBVIOUS
    <3>1. j \in TxIdx /\ j # n + k
      BY <1>2, <1>3, <2>1
    <3> HIDE DEF e, d, k
    <3> QED BY <1>10, <3>1
  <2>3. Marked(e, n) /\ Joined(e, n) /\ Fresher(e, n, wire, Latest(b, q))
    <3>1. \A j \in 0 .. n - 1 : Begin(e, j) = Begin(d, j) /\ End(e, j) = End(d, j)
      <4> HIDE DEF e, d
      <4> QED BY <2>2 DEF Begin, End
    <3>2. Marked(e, n)
      <4> HIDE DEF e, d
      <4> QED BY <1>2, <2>2, <3>1, Zenon DEF Marked
    <3>3. Joined(e, n)
      <4> HIDE DEF e, d
      <4> QED BY <1>2, <2>2, <3>1, Zenon DEF Joined
    <3>4. Fresher(e, n, wire, Latest(b, q))
      <4> HIDE DEF e, d
      <4> QED BY <1>2, <2>2, Zenon DEF Fresher
    <3> QED BY <3>2, <3>3, <3>4
  <2>4. Built(e, n, b, drv.done + 1, q, drv.dst)
    <3> SUFFICES ASSUME NEW j \in 1 .. drv.done + 1
                 PROVE  /\ ~ e[n + j].empty /\ ~ e[n + j].stp
                        /\ e[n + j].enp <=> j = b - 1
                        /\ e[n + j].frag = part(j)
      BY DEF Built
    <3>1. CASE j = k
      <4>1. e[n + j] = new
        BY <1>10, <3>1
      <4>2. k # 0
        BY <2>1
      <4> HIDE DEF e, k, part, new
      <4> QED BY <1>w, <3>1, <4>1, <4>2, Zenon
    <3>2. CASE j # k
      <4>1. j \in 1 .. drv.done /\ n + j \in TxIdx /\ n + j # n + k
        BY <1>2, <1>3, <2>1, <3>2
      <4>2. e[n + j] = d[n + j]
        <5> HIDE DEF e, d, k
        <5> QED BY <1>10, <4>1
      <4>3. /\ ~ d[n + j].empty /\ ~ d[n + j].stp /\ (d[n + j].enp <=> j = b - 1)
            /\ d[n + j].frag = part(j)
        BY <1>2, <4>1 DEF Built
      <4> HIDE DEF e, d, part
      <4> QED BY <4>2, <4>3, Zenon
    <3> QED BY <3>1, <3>2
  <2>5. /\ drv'.head = Adv(chip.txPos, n, TxLen) /\ TxRun(Machine', n, drv'.done)
        /\ n + drv'.build <= TxLen /\ (drv'.done < drv'.build \/ drv'.done = 0)
        /\ drv'.build = b /\ drv'.done = drv.done + 1 /\ drv'.dst = drv.dst
        /\ drv'.queued = q
    BY <1>4, <1>5, <1>14
  <2> HIDE DEF b, q, e
  <2>6. Chain(Machine', n, drv'.head, drv'.build, drv'.done, drv'.queued, drv'.dst)
    BY <1>6, <2>3, <2>4, <2>5 DEF Chain, e
  <2>7. Sent(wire, Latest(b, q))
    BY <1>6 DEF Sending, b, q
  <2>8. Sending(Machine', drv'.head, drv'.build, drv'.done, drv'.queued, drv'.dst)
    BY <1>6, <1>12, <2>5, <2>6, <2>7 DEF Sending
  <2> QED BY <2>8
<1> QED BY <1>13, <1>14

(* A new frame begins behind the chain.                                     *)
LEMMA BeginSends ==
  ASSUME TypeOK, NEW n \in 1 .. MaxFrags, NEW dst \in OwnDst, BeginFrame(n, dst),
         Sending(Machine, drv.head, drv.build, drv.done, drv.queued, drv.dst)
  PROVE  Sending(Machine, drv.head, drv.build, drv.done, drv.queued, drv.dst)'
<1>1. PICK m \in 0 .. TxLen :
        Chain(Machine, m, drv.head, drv.build, drv.done, drv.queued, drv.dst)
  BY DEF Sending
<1>2. /\ drv.build = 0 /\ drv.done = 0 /\ FreeTx(n) /\ Machine' = Machine
      /\ drv'.build = n /\ drv'.done = 0 /\ drv'.dst = dst
      /\ drv'.head = drv.head /\ drv'.queued = drv.queued + 1
      /\ drv.queued \in Nat /\ n \in Nat \ {0}
  BY StateParts DEF BeginFrame, TypeOK, DrvType, Machine
<1>3. m + n <= TxLen
  BY <1>1, <1>2, RoomForFrame, StateParts DEF Chain
<1>4. Latest(n, drv.queued + 1) = drv.queued /\ Latest(0, drv.queued) = drv.queued
  BY <1>2 DEF Latest
<1>5. Chain(Machine, m, drv.head, n, 0, drv.queued + 1, dst)
  BY <1>1, <1>2, <1>3, <1>4 DEF Chain, Built
<1>6. Sending(Machine, drv.head, n, 0, drv.queued + 1, dst)
  BY <1>2, <1>4, <1>5 DEF Sending
<1> QED BY <1>2, <1>6
-----------------------------------------------------------------------------
(* The inductive invariant.  The wire grows only while the rings are in     *)
(* use; in between it matters that the transmitter is off, and that a chip  *)
(* with rings in use is not stopped, so that stopping it resets it.         *)
WireInv ==
  /\ drv.phase = "down" => "TXON" \notin chip.csr0
  /\ Running => "STOP" \notin chip.csr0
  /\ Sent(wire, Latest(drv.build, drv.queued))
  /\ Running => Sending(Machine, drv.head, drv.build, drv.done, drv.queued, drv.dst)

LEMMA WireInit == Init => WireInv
BY DEF Init, WireInv, Running, Sent

(* A handler with the rings in use, the driver's place in them unchanged.   *)
LEMMA ConveyKeepsWire ==
  ASSUME TypeOK, WireInv, Running, Running', NEW t \in MachineType, Becomes(t),
         Conveys(Machine, t),
         drv'.head = drv.head, drv'.build = drv.build, drv'.done = drv.done,
         drv'.queued = drv.queued, drv'.dst = drv.dst
  PROVE  WireInv'
<1>1. Machine' = t /\ chip' = t.chip /\ wire' = t.wire
  BY BecomesIs DEF Becomes
<1>2. Sending(Machine, drv.head, drv.build, drv.done, drv.queued, drv.dst)
  BY DEF WireInv
<1>3. drv.queued \in Nat /\ drv.dst \in Dst
  BY StateParts DEF DrvType
<1>4. Sending(t, drv.head, drv.build, drv.done, drv.queued, drv.dst)
  BY <1>2, <1>3, StateParts DEF Conveys
<1>5. "STOP" \notin chip'.csr0
  BY <1>1, StateParts DEF Conveys, WireInv
<1>6. Sent(wire', Latest(drv'.build, drv'.queued))
  BY <1>1, <1>4 DEF Sending
<1>7. drv'.phase # "down"
  BY DEF Running
<1> QED BY <1>1, <1>4, <1>5, <1>6, <1>7 DEF WireInv

(* A step that touches neither the chip nor the transmit side.              *)
LEMMA AsideKeepsWire ==
  ASSUME TypeOK, WireInv, chip' = chip, tx' = tx, wire' = wire,
         drv'.phase = drv.phase,
         drv'.head = drv.head, drv'.build = drv.build, drv'.done = drv.done,
         drv'.queued = drv.queued, drv'.dst = drv.dst
  PROVE  WireInv'
<1>1. /\ Machine'.tx = Machine.tx /\ Machine'.wire = Machine.wire
      /\ Machine'.chip = Machine.chip
  BY DEF Machine
<1>2. Conveys(Machine, Machine')
  BY <1>1, SameConveys
<1>3. drv.queued \in Nat /\ drv.dst \in Dst
  BY StateParts DEF DrvType
<1>4. (Running => Sending(Machine, drv.head, drv.build, drv.done, drv.queued, drv.dst))'
  BY <1>2, <1>3, StateParts DEF Conveys, WireInv, Running
<1> QED BY <1>4 DEF WireInv, Running

(* The main loop's handlers.                                                *)
LEMMA WireLoop ==
  ASSUME TypeOK, RingInv, WireInv
  PROVE  (Tick => WireInv') /\ (Net => WireInv')
<1>1. ASSUME NEW t \in MachineType, Becomes(t), drv' = drv, Conveys(Machine, t),
             "TXON" \notin chip.csr0 => t.wire = wire /\ "TXON" \notin t.chip.csr0
      PROVE  WireInv'
  <2>1. CASE Running
    BY <1>1, <2>1, ConveyKeepsWire DEF Running
  <2>2. CASE ~ Running
    <3>1. "TXON" \notin chip.csr0
      BY <2>2, StateParts DEF WireInv, RingInv, FreshUntilInit, Running, DrvType
    <3>2. wire' = wire /\ "TXON" \notin chip'.csr0 /\ ~ Running'
      BY <1>1, <2>2, <3>1 DEF Becomes, Running
    <3> QED BY <1>1, <3>2 DEF WireInv
  <2> QED BY <2>1, <2>2
<1>2. ASSUME Tick PROVE WireInv'
  <2>1. PICK t \in MachineType : t = TickChip(Machine)
    BY StateParts, TickChipType
  <2>2. Becomes(t) /\ drv' = drv
    BY <1>2, <2>1 DEF Tick
  <2>3. /\ Conveys(Machine, t)
        /\ "TXON" \notin chip.csr0 => t.wire = wire /\ "TXON" \notin t.chip.csr0
    BY <2>1, StateParts, TickChipConveys
  <2> QED BY <1>1, <2>2, <2>3
<1>3. ASSUME Net PROVE WireInv'
  <2>1. PICK len \in WireLens, dst \in WireDst : WireFrame(len, dst)
    BY <1>3 DEF Net
  <2>2. PICK f \in Frame : f = GlueFrame(len, dst)
    BY GlueFrameType DEF TypeOK
  <2>3. PICK t \in MachineType : t = Recv(Machine, f)
    BY <2>2, StateParts, ReceiveType
  <2>4. Becomes(t) /\ drv' = drv
    BY <2>1, <2>2, <2>3 DEF WireFrame
  <2>5. Conveys(Machine, t)
    BY <2>3, StateParts, ReceiveConveys
  <2>6. t.wire = wire /\ ("TXON" \notin chip.csr0 => "TXON" \notin t.chip.csr0)
    <3>1. PICK u : u = Receive(Machine, f)
      OBVIOUS
    <3>2. u.wire = wire /\ Stays(chip, u.chip)
      BY <3>1, StateParts, ReceiveWalks
    <3>3. t = Machine \/ t = u
      BY <2>3, <3>1 DEF Recv
    <3> QED BY <3>2, <3>3, StateParts DEF Stays
  <2> QED BY <1>1, <2>4, <2>5, <2>6
<1> QED BY <1>2, <1>3

(* The driver's writes with the rings in use.                               *)
LEMMA WriteKeepsWire ==
  ASSUME TypeOK, WireInv, Running, NEW data \in SUBSET Csr0Bits, Csr0Write(data),
         "STOP" \notin data, "INIT" \notin data, Running',
         drv'.head = drv.head, drv'.build = drv.build, drv'.done = drv.done,
         drv'.queued = drv.queued, drv'.dst = drv.dst
  PROVE  WireInv'
<1>1. PICK t \in MachineType : t = WriteCsr0(Machine, data, drv.block)
  BY StateParts, WriteCsr0Type
<1>2. Becomes(t) /\ Conveys(Machine, t)
  BY <1>1, StateParts, WriteCsr0Conveys DEF Csr0Write
<1> QED BY <1>2, ConveyKeepsWire

LEMMA WireWrites ==
  ASSUME TypeOK, RingInv, WireInv
  PROVE  /\ \A data \in StartWords : WriteStart(data) => WireInv'
         /\ Demand => WireInv'
         /\ IsrAck => WireInv'
<1>1. ASSUME NEW data \in StartWords, WriteStart(data) PROVE WireInv'
  <2>1. data \in SUBSET Csr0Bits /\ "STOP" \notin data /\ "INIT" \notin data
    BY DEF StartWords, Csr0Bits
  <2>2. /\ Running /\ Running' /\ Csr0Write(data)
        /\ drv'.head = drv.head /\ drv'.build = drv.build /\ drv'.done = drv.done
        /\ drv'.queued = drv.queued /\ drv'.dst = drv.dst
    BY <1>1, StateParts DEF WriteStart, Running, DrvType
  <2> QED BY <2>1, <2>2, WriteKeepsWire
<1>2. ASSUME Demand PROVE WireInv'
  <2>1. PICK data : data = {"TDMD", "INEA"}
    OBVIOUS
  <2>2. data \in SUBSET Csr0Bits /\ "STOP" \notin data /\ "INIT" \notin data
    BY <2>1 DEF Csr0Bits
  <2>3. Running /\ Running' /\ Csr0Write(data) /\ drv' = drv
    BY <1>2, <2>1 DEF Demand, Running
  <2> QED BY <2>2, <2>3, WriteKeepsWire
<1>3. ASSUME IsrAck PROVE WireInv'
  <2>1. PICK data : data = drv.seen \cup {"INEA"}
    OBVIOUS
  <2>2. data \in SUBSET Csr0Bits /\ "STOP" \notin data /\ "INIT" \notin data
    BY <2>1, StateParts DEF Csr0Bits, DrvType, Acks, Causes, Faults
  <2>3. drv.phase = "up" /\ Csr0Write(data)
    BY <1>3, <2>1 DEF IsrAck, RingInv, IsrRunsUp
  <2>4. /\ drv'.phase = drv.phase
        /\ drv'.head = drv.head /\ drv'.build = drv.build /\ drv'.done = drv.done
        /\ drv'.queued = drv.queued /\ drv'.dst = drv.dst
    BY <1>3, StateParts DEF IsrAck, DrvType
  <2>5. Running /\ Running'
    BY <2>3, <2>4 DEF Running
  <2> QED BY <2>2, <2>3, <2>4, <2>5, WriteKeepsWire
<1> QED BY <1>1, <1>2, <1>3

(* Taking the chip down, building the rings, and initialising the chip.     *)
LEMMA WireSetup ==
  ASSUME TypeOK, RingInv, WireInv
  PROVE  Setup => WireInv'
<1> USE DEF Latest
<1>1. drv.queued \in Nat /\ drv.build \in Nat
  BY StateParts DEF DrvType
<1>2. Sent(wire, drv.queued)
  <2>1. Latest(drv.build, drv.queued) \in Int /\ Latest(drv.build, drv.queued) <= drv.queued
    BY <1>1
  <2> QED BY <1>1, <2>1, SentLater DEF WireInv
<1>3. ASSUME Stop PROVE WireInv'
  <2>1. PICK t \in MachineType : t = WriteCsr0(Machine, {"STOP"}, drv.block)
    <3>1. {"STOP"} \in SUBSET Csr0Bits
      BY DEF Csr0Bits
    <3> QED BY <3>1, StateParts, WriteCsr0Type
  <2>2. /\ drv.phase # "down" /\ drv'.phase = "down" /\ drv'.build = 0
        /\ drv'.queued = drv.queued /\ chip' = t.chip /\ wire' = t.wire
    BY <1>3, <2>1, StateParts DEF Stop, DrvType, Csr0Write, Becomes
  <2>3. t = (IF "STOP" \in chip.csr0 THEN Machine ELSE [Machine EXCEPT !.chip = Reset(@)])
    BY <2>1, StateParts DEF WriteCsr0
  <2>4. wire' = wire /\ "TXON" \notin chip'.csr0
    <3>1. CASE "STOP" \in chip.csr0
      <4>1. drv.phase = "ready"
        BY <2>2, <3>1, StateParts DEF WireInv, Running, DrvType
      <4>2. "TXON" \notin chip.csr0
        BY <4>1 DEF RingInv, FreshUntilInit
      <4>3. t = Machine
        BY <2>3, <3>1
      <4> QED BY <2>2, <4>2, <4>3, StateParts
    <3>2. CASE "STOP" \notin chip.csr0
      <4>1. t = [Machine EXCEPT !.chip = Reset(@)]
        BY <2>3, <3>2
      <4>2. t.chip.csr0 = {"STOP"} /\ t.wire = wire
        BY <4>1, StateParts DEF MachineType, ChipType, Reset, UpdateInterrupts
      <4> QED BY <2>2, <4>2
    <3> QED BY <3>1, <3>2
  <2> QED BY <1>2, <2>2, <2>4 DEF WireInv, Running
<1>4. ASSUME NEW block \in Block, MakeRings(block) PROVE WireInv'
  <2>1. /\ drv'.phase = "ready" /\ drv'.build = 0 /\ drv'.queued = drv.queued
        /\ wire' = wire
    BY <1>4, StateParts DEF MakeRings, DrvType
  <2> QED BY <1>2, <2>1 DEF WireInv, Running
<1>5. ASSUME NEW data \in InitWords, WriteInit(data) PROVE WireInv'
  <2>1. /\ data \in SUBSET Csr0Bits /\ "STOP" \notin data /\ "INIT" \in data
        /\ data \cap Acks = {}
    BY DEF InitWords, Csr0Bits, Acks, Causes, Faults
  <2>2. PICK t \in MachineType : t = WriteCsr0(Machine, data, drv.block)
    BY <2>1, StateParts, WriteCsr0Type
  <2>3. Becomes(t) /\ Machine' = t /\ chip' = t.chip /\ wire' = t.wire
    BY <1>5, <2>2, BecomesIs DEF WriteInit, Csr0Write, Becomes
  <2>4. "INIT" \notin Machine.chip.csr0
    BY StateParts DEF RingInv, NeverInit
  <2>5. PICK u \in MachineType :
           /\ u.tx = tx /\ u.wire = wire /\ u.chip.txPos = 0
           /\ "STOP" \notin u.chip.csr0
           /\ Conveys(u, t)
    BY <2>1, <2>2, <2>4, StateParts, InitConveys
  <2>6. /\ tx = FreshTx /\ drv.head = 0 /\ drv.build = 0 /\ drv.done = 0
    BY <1>5 DEF WriteInit, RingInv, FreshUntilInit
  <2>7. /\ drv'.phase # "down" /\ drv'.queued = drv.queued /\ drv'.dst = drv.dst
        /\ drv'.head = 0 /\ drv'.build = 0 /\ drv'.done = 0
        /\ drv.dst \in Dst
    BY <1>5, <2>6, StateParts DEF WriteInit, DrvType
  <2>8. Sending(u, 0, 0, 0, drv.queued, drv.dst)
    BY <1>1, <1>2, <2>5, <2>6, FreshSends
  <2>9. Sending(t, 0, 0, 0, drv.queued, drv.dst) /\ "STOP" \notin t.chip.csr0
    BY <1>1, <2>5, <2>7, <2>8, FreshType DEF Conveys
  <2>10. Sent(wire', Latest(0, drv.queued))
    BY <2>3, <2>9 DEF Sending
  <2> QED BY <2>3, <2>7, <2>9, <2>10 DEF WireInv
<1> QED BY <1>3, <1>4, <1>5, WireWrites DEF Setup

LEMMA WireStores ==
  ASSUME TypeOK, RingInv, WireInv, OwnLast
  PROVE  /\ \A n \in 1 .. MaxFrags, dst \in OwnDst : BeginFrame(n, dst) => WireInv'
         /\ StoreTx(FALSE) => WireInv'
<1>1. ASSUME NEW n \in 1 .. MaxFrags, NEW dst \in OwnDst, BeginFrame(n, dst)
      PROVE  WireInv'
  <2>1. /\ Running /\ Running' /\ chip' = chip /\ wire' = wire
    BY <1>1, StateParts DEF BeginFrame, Running, DrvType
  <2>2. Sending(Machine, drv.head, drv.build, drv.done, drv.queued, drv.dst)'
    BY <1>1, <2>1, BeginSends DEF WireInv
  <2>3. Sent(wire', Latest(drv'.build, drv'.queued)) /\ drv'.phase # "down"
    BY <2>1, <2>2 DEF Sending, Machine, Running
  <2> QED BY <2>1, <2>2, <2>3 DEF WireInv
<1>2. ASSUME StoreTx(FALSE) PROVE WireInv'
  <2>1. drv.build > 0 /\ chip' = chip /\ wire' = wire /\ drv'.phase = drv.phase
    BY <1>2, StateParts DEF StoreTx, DrvType
  <2>2. CASE Running
    <3>1. Sending(Machine, drv.head, drv.build, drv.done, drv.queued, drv.dst)'
      BY <1>2, <2>2, StoreSends DEF WireInv
    <3>2. Sent(wire', Latest(drv'.build, drv'.queued))
      BY <3>1 DEF Sending, Machine
    <3> QED BY <2>1, <2>2, <3>1, <3>2 DEF WireInv, Running
  <2>3. CASE ~ Running
    <3>1. Sent(wire', Latest(drv'.build, drv'.queued))
      <4>1. drv'.queued = drv.queued /\ drv'.build \in {0, drv.build} /\ drv.queued \in Nat
        BY <1>2, StateParts DEF StoreTx, DrvType
      <4>2. Latest(drv.build, drv.queued) = drv.queued - 1
        BY <2>1 DEF Latest
      <4>3. Sent(wire, drv.queued - 1) /\ Sent(wire, drv.queued)
        BY <4>1, <4>2, SentLater DEF WireInv
      <4> QED BY <2>1, <4>1, <4>2, <4>3 DEF Latest
    <3> QED BY <2>1, <2>3, <3>1 DEF WireInv, Running
  <2> QED BY <2>2, <2>3
<1> QED BY <1>1, <1>2

LEMMA WireIsr ==
  ASSUME TypeOK, RingInv, WireInv
  PROVE  Isr => WireInv'
<1>1. ASSUME IsrRead \/ IsrExit \/ IsrDrain PROVE WireInv'
  <2>1. /\ chip' = chip /\ tx' = tx /\ wire' = wire /\ drv'.phase = drv.phase
        /\ drv'.head = drv.head /\ drv'.build = drv.build /\ drv'.done = drv.done
        /\ drv'.queued = drv.queued /\ drv'.dst = drv.dst
    BY <1>1, StateParts DEF IsrRead, IsrExit, IsrDrain, DrvType
  <2> QED BY <2>1, AsideKeepsWire
<1> QED BY <1>1, WireWrites DEF Isr

LEMMA WireNext ==
  ASSUME OwnLast, ~ EmptyFrags
  PROVE  TypeOK /\ RingInv /\ WireInv /\ [Next]_vars => WireInv'
<1> SUFFICES ASSUME TypeOK, RingInv, WireInv, [Next]_vars PROVE WireInv'
  OBVIOUS
<1>1. CASE Setup
  BY <1>1, WireSetup
<1>2. CASE Send
  BY <1>2, WireWrites, WireStores DEF Send
<1>3. CASE Isr
  BY <1>3, WireIsr
<1>4. CASE Tick \/ Net
  BY <1>4, WireLoop
<1>5. CASE UNCHANGED vars
  BY <1>5, AsideKeepsWire DEF vars
<1> QED BY <1>1, <1>2, <1>3, <1>4, <1>5 DEF Next

THEOREM WireInvariant ==
  ASSUME OwnLast, ~ EmptyFrags
  PROVE  Spec => []WireInv
<1>1. TypeOK /\ RingInv /\ WireInv /\ [Next]_vars => WireInv'
  BY WireNext
<1> QED BY <1>1, TypeCorrect, RingsInvariant, WireInit, PTL DEF Spec

(* What reaches the wire are whole frames, each at most once, in the order  *)
(* the driver queued them, across any number of re-initialisations and in   *)
(* every mode, however the driver cuts its frames into buffers.             *)
THEOREM WireIsWholeInOrder ==
  ASSUME OwnLast, ~ EmptyFrags
  PROVE  Spec => []WireWholeInOrder
<1>1. WireInv => WireWholeInOrder
  BY DEF WireInv, Sent, WireWholeInOrder
<1> QED BY <1>1, WireInvariant, PTL

(* Outside loopback a descriptor that ends a frame and comes back without   *)
(* ERR is the end of a frame that is on the wire, whole.                    *)
THEOREM WhatComesBackWasSent ==
  ASSUME OwnLast, ~ EmptyFrags
  PROVE  Spec => []ReturnedMeansSent
<1>1. TypeOK /\ WireInv => ReturnedMeansSent
  <2> SUFFICES ASSUME TypeOK, WireInv, NEW i \in TxIdx,
                      tx[i].enp, ~ tx[i].own, ~ tx[i].err,
                      "LOOP" \notin chip.mode, Running
               PROVE  \E j \in DOMAIN wire :
                        wire[j].frags[1].id = tx[i].frag.id /\ Whole(wire[j])
    BY DEF ReturnedMeansSent
  <2>1. Back(Machine) /\ Sent(wire, Latest(drv.build, drv.queued))
    BY DEF WireInv, Sending
  <2>2. PICK j \in DOMAIN wire : wire[j].frags[1].id = tx[i].frag.id
    BY <2>1, StateParts DEF Back
  <2> QED BY <2>1, <2>2 DEF Sent
<1> QED BY <1>1, TypeCorrect, WireInvariant, PTL
-----------------------------------------------------------------------------
(* The receive ring as a queue of frames.                                   *)

(* The receive ring as the driver reads it, from its place rh on.           *)
Buffers(s, rh) == [k \in RxIdx |-> s.rx[Adv(rh, k, RxLen)]]

(* A buffer ends a frame, and one that ends it well.                        *)
Ends(b) == b.enp \/ b.err
Good(b) == b.enp /\ ~ b.err

(* The first m buffers are filled, each with the next slice of its frame;   *)
(* a frame that ends well is all there, and the last of the buffers ends    *)
(* one.                                                                     *)
Sliced(d, m) ==
  \A k \in 0 .. m - 1 :
    /\ ~ d[k].own
    /\ d[k].stp <=> d[k].slice = 0
    /\ d[k].frame # NoFrame
    /\ Good(d[k]) => d[k].frame.bytes <= (d[k].slice + 1) * RxBytes
    /\ ~ Ends(d[k]) => /\ k + 1 < m
                       /\ d[k + 1].slice = d[k].slice + 1
                       /\ d[k + 1].frame = d[k].frame
    /\ Ends(d[k]) /\ k + 1 < m => d[k + 1].slice = 0

(* The others are empty and the chip's.                                     *)
Blank(d, m) == \A k \in m .. RxLen - 1 : d[k] = EmptyRx(TRUE)

(* A frame the driver has begun to read goes on where it stopped.           *)
Begun(d, m, asm) ==
  m > 0 /\ d[0].slice # 0 => asm = [frame |-> d[0].frame, next |-> d[0].slice]

(* c[k] is how many of the first k buffers end a frame well.                *)
Counts(d, c) ==
  /\ c[0] = 0
  /\ \A k \in RxIdx : c[k + 1] = IF Good(d[k]) THEN c[k] + 1 ELSE c[k]
  /\ \A j, k \in 0 .. RxLen : j <= k => c[j] <= c[k]

(* What the chip accepted is what the driver has got and what waits.        *)
Accepted(d, c, got, w) ==
  /\ Len(w) = Len(got) + c[RxLen]
  /\ \A i \in 1 .. Len(got) : w[i] = got[i]
  /\ \A k \in RxIdx : Good(d[k]) => w[Len(got) + c[k + 1]] = d[k].frame

Waits(d, got, w) == \E c \in [0 .. RxLen -> Nat] : Counts(d, c) /\ Accepted(d, c, got, w)

(* The receive side as a whole, the driver being at rh.                     *)
Queue(s, rh, asm, got) ==
  \E m \in 0 .. RxLen :
    /\ s.chip.rxPos = Adv(rh, m, RxLen)
    /\ Sliced(Buffers(s, rh), m)
    /\ Blank(Buffers(s, rh), m)
    /\ Begun(Buffers(s, rh), m, asm)
    /\ Waits(Buffers(s, rh), got, s.taken)
-----------------------------------------------------------------------------
LEMMA BuffersType ==
  ASSUME NEW s \in MachineType, NEW rh \in RxIdx
  PROVE  /\ Buffers(s, rh) \in [RxIdx -> RxDesc]
         /\ \A k \in RxIdx : Adv(rh, k, RxLen) \in RxIdx
         /\ \A k \in RxIdx : Buffers(s, rh)[k] = s.rx[Adv(rh, k, RxLen)]
<1>1. \A k \in RxIdx : Adv(rh, k, RxLen) \in RxIdx
  <2>1. RxLen \in Nat \ {0} /\ \A k \in RxIdx : k \in 0 .. RxLen
    BY RingAssumption DEF RxIdx
  <2> QED BY <2>1, AdvInRing DEF RxIdx
<1> QED BY <1>1, MachineParts DEF Buffers

(* What lance_receive does to the ring: nothing, or it fills the buffers    *)
(* that its walk takes.                                                     *)
Filling(s, t, f, last, bad) ==
  LET whole == f.bytes <= (last + 1) * RxBytes
  IN  /\ \A k \in RxIdx : k <= last => s.rx[Adv(s.chip.rxPos, k, RxLen)].own
      /\ \A i \in RxIdx :
           t.rx[i] = IF RxOff(s.chip, i) <= last
                       THEN FillRx(s.rx[i], f, RxOff(s.chip, i), last, whole, bad)
                       ELSE s.rx[i]
      /\ t.chip.rxPos = Adv(s.chip.rxPos, last + 1, RxLen)
      /\ bad => whole
      /\ t.taken = IF whole /\ ~ bad THEN Append(s.taken, f) ELSE s.taken

LEMMA ReceiveFills ==
  ASSUME NEW s \in MachineType, NEW f \in Frame
  PROVE  LET t == Receive(s, f)
         IN  \/ t.rx = s.rx /\ t.chip.rxPos = s.chip.rxPos /\ t.taken = s.taken
             \/ \E last \in RxIdx, bad \in BOOLEAN : Filling(s, t, f, last, bad)
<1> DEFINE Goal(t) ==
             \/ t.rx = s.rx /\ t.chip.rxPos = s.chip.rxPos /\ t.taken = s.taken
             \/ \E last \in RxIdx, bad \in BOOLEAN : Filling(s, t, f, last, bad)
           missed == UpdateInterrupts(Raise(s.chip, {"ERR", "MISS", "RINT", "INTR"}))
           u == StoreRx(s, f)
           last == RxLast(s, f)
           whole == f.bytes <= (last + 1) * RxBytes
           bad == whole /\ ~ f.fcs /\ FcsChecked(s.chip)
<1>1. s.chip \in ChipType /\ u \in MachineType /\ u.chip \in ChipType
  BY StoreRxType, MachineParts
<1>2. Goal(s)
  OBVIOUS
<1>3. Goal([s EXCEPT !.chip = missed])
  <2> DEFINE t == [s EXCEPT !.chip = missed]
  <2>1. t.rx = s.rx /\ t.taken = s.taken /\ t.chip = missed
    BY DEF MachineType
  <2>2. missed.rxPos = s.chip.rxPos
    BY <1>1 DEF UpdateInterrupts, Raise, ChipType
  <2> HIDE DEF t, missed
  <2>3. Goal(t)
    BY <2>1, <2>2
  <2> QED BY <2>3 DEF t
<1>4. ASSUME s.rx[s.chip.rxPos].own
      PROVE  Goal([u EXCEPT !.chip = UpdateInterrupts(u.chip)])
  <2> DEFINE t == [u EXCEPT !.chip = UpdateInterrupts(u.chip)]
  <2>1. /\ u.chip.rxPos = Adv(s.chip.rxPos, last + 1, RxLen)
        /\ u.taken = IF whole /\ ~ bad THEN Append(s.taken, f) ELSE s.taken
    BY <1>1 DEF StoreRx, MachineType, ChipType
  <2>2. ASSUME NEW i \in RxIdx
        PROVE  u.rx[i] = IF RxOff(s.chip, i) <= last
                           THEN FillRx(s.rx[i], f, RxOff(s.chip, i), last, whole, bad)
                           ELSE s.rx[i]
    BY DEF StoreRx, MachineType
  <2> HIDE DEF u
  <2>3. t.rx = u.rx /\ t.taken = u.taken /\ t.chip.rxPos = u.chip.rxPos
    BY <1>1 DEF MachineType, UpdateInterrupts, ChipType
  <2>4. last \in RxIdx
        /\ \A k \in RxIdx : k <= last => s.rx[Adv(s.chip.rxPos, k, RxLen)].own
    BY <1>4, RxLastStops, RxWalkOwned
  <2>5. bad \in BOOLEAN /\ (bad => whole)
    OBVIOUS
  <2> HIDE DEF t, last, bad
  <2>6. Filling(s, t, f, last, bad)
    BY <2>1, <2>2, <2>3, <2>4, <2>5 DEF Filling
  <2>7. Goal(t)
    BY <2>4, <2>5, <2>6
  <2> QED BY <2>7 DEF t
<1>5. \/ Receive(s, f) = s
      \/ Receive(s, f) = [s EXCEPT !.chip = missed]
      \/ s.rx[s.chip.rxPos].own
         /\ Receive(s, f) = [u EXCEPT !.chip = UpdateInterrupts(u.chip)]
  BY DEF Receive
<1>6. Goal(Receive(s, f))
  <2> HIDE DEF Goal, missed, u
  <2> QED BY <1>2, <1>3, <1>4, <1>5
<1> QED BY <1>6

(* The filling as the driver sees it: the buffers behind the m filled ones  *)
(* are filled, as many as the walk is long, and there is room for them.     *)
LEMMA FillingBehind ==
  ASSUME NEW s \in MachineType, NEW t \in MachineType, NEW f \in Frame,
         NEW last \in RxIdx, NEW bad \in BOOLEAN, Filling(s, t, f, last, bad),
         NEW rh \in RxIdx, NEW m \in 0 .. RxLen, s.chip.rxPos = Adv(rh, m, RxLen),
         \A k \in 0 .. m - 1 : ~ Buffers(s, rh)[k].own
  PROVE  LET whole == f.bytes <= (last + 1) * RxBytes
         IN  /\ m + last < RxLen
             /\ t.chip.rxPos = Adv(rh, m + last + 1, RxLen)
             /\ \A k \in RxIdx :
                  Buffers(t, rh)[k] =
                    IF k \in m .. m + last
                      THEN FillRx(Buffers(s, rh)[k], f, k - m, last, whole, bad)
                      ELSE Buffers(s, rh)[k]
<1> DEFINE whole == f.bytes <= (last + 1) * RxBytes
<1>0. PICK p : p = s.chip.rxPos
  OBVIOUS
<1>1. /\ RxLen \in Nat \ {0} /\ RxIdx = 0 .. RxLen - 1 /\ rh \in 0 .. RxLen - 1
      /\ last \in 0 .. RxLen - 1 /\ m \in 0 .. RxLen /\ p \in 0 .. RxLen - 1
      /\ p = Adv(rh, m, RxLen)
  BY <1>0, RingAssumption, MachineParts DEF RxIdx, ChipType
<1>2. /\ \A i \in 0 .. RxLen - 1 :
           Off(p, i, RxLen) = IF Off(rh, i, RxLen) < m THEN Off(rh, i, RxLen) - m + RxLen
                                                       ELSE Off(rh, i, RxLen) - m
      /\ \A k \in 0 .. RxLen - m : Adv(p, k, RxLen) = Adv(rh, m + k, RxLen)
  BY <1>1, OffShift
<1>3. \A k \in 0 .. RxLen - 1 : /\ Adv(rh, k, RxLen) \in 0 .. RxLen - 1
                                /\ Off(rh, Adv(rh, k, RxLen), RxLen) = k
  <2>1. \A k \in 0 .. RxLen - 1 : k \in 0 .. RxLen
    BY <1>1
  <2> QED BY <1>1, <2>1, OffAdv, AdvInRing
<1>4. m + last < RxLen
  <2> SUFFICES ASSUME m + last >= RxLen PROVE FALSE
    BY <1>1
  <2>1. CASE m = 0
    BY <1>1, <2>1
  <2>2. CASE m # 0
    <3> DEFINE k == RxLen - m
    <3>1. k \in 0 .. RxLen - m /\ k \in 0 .. RxLen - 1 /\ k <= last /\ m + k = RxLen
          /\ 0 \in 0 .. m - 1 /\ 0 \in RxIdx
      BY <1>1, <2>2
    <3>2. s.rx[Adv(p, k, RxLen)].own
      BY <1>0, <1>1, <3>1 DEF Filling
    <3>3. Adv(p, k, RxLen) = Adv(rh, RxLen, RxLen)
      <4> HIDE DEF k
      <4> QED BY <1>2, <3>1
    <3>4. Adv(rh, RxLen, RxLen) = rh /\ Adv(rh, 0, RxLen) = rh
      BY <1>1 DEF Adv
    <3>5. Buffers(s, rh)[0] = s.rx[rh]
      <4>1. Buffers(s, rh)[0] = s.rx[Adv(rh, 0, RxLen)]
        BY <3>1, BuffersType
      <4> QED BY <3>4, <4>1
    <3> HIDE DEF k
    <3> QED BY <3>1, <3>2, <3>3, <3>4, <3>5
  <2> QED BY <2>1, <2>2
<1>5. t.chip.rxPos = Adv(rh, m + last + 1, RxLen)
  <2>1. last + 1 \in 0 .. RxLen - m /\ m + (last + 1) = m + last + 1
    BY <1>1, <1>4
  <2>2. t.chip.rxPos = Adv(p, last + 1, RxLen)
    BY <1>0 DEF Filling
  <2> QED BY <1>2, <2>1, <2>2
<1>6. ASSUME NEW k \in RxIdx
      PROVE  Buffers(t, rh)[k] =
                    IF k \in m .. m + last
                      THEN FillRx(Buffers(s, rh)[k], f, k - m, last, whole, bad)
                      ELSE Buffers(s, rh)[k]
  <2> DEFINE i == Adv(rh, k, RxLen)
  <2>1. /\ i \in RxIdx /\ i \in 0 .. RxLen - 1 /\ k \in 0 .. RxLen - 1
        /\ Off(rh, i, RxLen) = k
    BY <1>1, <1>3
  <2>2. Buffers(s, rh)[k] = s.rx[i] /\ Buffers(t, rh)[k] = t.rx[i]
    BY BuffersType
  <2> HIDE DEF i
  <2>3. RxOff(s.chip, i) = IF k < m THEN k - m + RxLen ELSE k - m
    BY <1>0, <1>2, <2>1, OffIsOffset
  <2>4. t.rx[i] = IF RxOff(s.chip, i) <= last
                    THEN FillRx(s.rx[i], f, RxOff(s.chip, i), last, whole, bad)
                    ELSE s.rx[i]
    BY <2>1 DEF Filling
  <2>5. CASE k < m
    <3>1. ~ (k - m + RxLen <= last) /\ k \notin m .. m + last
      BY <1>1, <1>4, <2>1, <2>5
    <3>2. t.rx[i] = s.rx[i]
      BY <2>3, <2>4, <2>5, <3>1
    <3> QED BY <2>2, <3>1, <3>2
  <2>6. CASE k >= m
    <3>1. k - m <= last <=> k \in m .. m + last
      BY <1>1, <2>1, <2>6
    <3>2. RxOff(s.chip, i) = k - m
      BY <1>1, <2>1, <2>3, <2>6
    <3> HIDE DEF whole
    <3> QED BY <2>2, <2>4, <3>1, <3>2
  <2> QED BY <1>1, <2>1, <2>5, <2>6
<1> QED BY <1>4, <1>5, <1>6
-----------------------------------------------------------------------------
(* The chip's side: behind the filled buffers come those of one more frame. *)
FilledBehind(d, e, m, f, last, whole, bad) ==
  /\ m + last < RxLen
  /\ whole => f.bytes <= (last + 1) * RxBytes
  /\ \A k \in RxIdx : e[k] = IF k \in m .. m + last
                              THEN FillRx(d[k], f, k - m, last, whole, bad)
                              ELSE d[k]

LEMMA FillSlices ==
  ASSUME NEW d \in [RxIdx -> RxDesc], NEW e \in [RxIdx -> RxDesc],
         NEW m \in Nat, NEW last \in Nat,
         NEW f \in Frame, f # NoFrame, NEW whole \in BOOLEAN, NEW bad \in BOOLEAN,
         FilledBehind(d, e, m, f, last, whole, bad), Sliced(d, m), Blank(d, m)
  PROVE  /\ Sliced(e, m + last + 1) /\ Blank(e, m + last + 1)
         /\ \A asm : Begun(d, m, asm) => Begun(e, m + last + 1, asm)
         /\ \A k \in RxIdx : Good(e[k]) <=> Good(d[k]) \/ (k = m + last /\ whole /\ ~ bad)
         /\ \A k \in RxIdx : Good(d[k]) => e[k] = d[k] /\ k < m
         /\ e[m + last].frame = f
<1>1. /\ RxLen \in Nat \ {0} /\ RxIdx = 0 .. RxLen - 1
      /\ m \in 0 .. RxLen - 1 /\ m + last \in 0 .. RxLen - 1
      /\ whole => f.bytes <= (last + 1) * RxBytes
  BY RingAssumption DEF RxIdx, FilledBehind
<1>2. ASSUME NEW k \in m .. m + last
      PROVE  /\ k \in RxIdx /\ d[k] = EmptyRx(TRUE)
             /\ ~ e[k].own /\ e[k].slice = k - m /\ e[k].frame = f
             /\ e[k].stp <=> k = m
             /\ e[k].enp <=> k = m + last /\ whole
             /\ e[k].err <=> k = m + last /\ (~ whole \/ bad)
  <2>1. k \in RxIdx /\ k \in m .. RxLen - 1 /\ k \in Nat
    BY <1>1
  <2>2. d[k] = EmptyRx(TRUE)
    BY <2>1 DEF Blank
  <2>3. e[k] = FillRx(EmptyRx(TRUE), f, k - m, last, whole, bad)
    BY <2>1, <2>2 DEF FilledBehind
  <2>4. /\ e[k].own = FALSE /\ e[k].slice = k - m /\ e[k].frame = f
        /\ e[k].stp <=> k - m = 0
        /\ e[k].enp <=> k - m = last /\ whole
        /\ e[k].err <=> k - m = last /\ (~ whole \/ bad)
    <3>1. PICK j, b : j = k - m /\ b = e[k]
      OBVIOUS
    <3>2. b = FillRx(EmptyRx(TRUE), f, j, last, whole, bad)
      BY <2>3, <3>1
    <3>3. /\ b.own = FALSE /\ b.slice = j /\ b.frame = f
          /\ b.stp <=> j = 0
          /\ b.enp <=> j = last /\ whole
          /\ b.err <=> j = last /\ (~ whole \/ bad)
      BY <3>2 DEF FillRx, EmptyRx
    <3> QED BY <3>1, <3>3
  <2>5. (k - m = 0 <=> k = m) /\ (k - m = last <=> k = m + last)
    BY <2>1
  <2> QED BY <2>1, <2>2, <2>4, <2>5
<1>3. \A k \in RxIdx : k \notin m .. m + last => e[k] = d[k]
  BY DEF FilledBehind
<1>4. ASSUME NEW k \in 0 .. m + last
      PROVE  /\ ~ e[k].own
             /\ e[k].stp <=> e[k].slice = 0
             /\ e[k].frame # NoFrame
             /\ Good(e[k]) => e[k].frame.bytes <= (e[k].slice + 1) * RxBytes
             /\ ~ Ends(e[k]) => /\ k + 1 < m + last + 1
                                /\ e[k + 1].slice = e[k].slice + 1
                                /\ e[k + 1].frame = e[k].frame
             /\ Ends(e[k]) /\ k + 1 < m + last + 1 => e[k + 1].slice = 0
  <2>1. CASE k < m
    <3>1. k \in 0 .. m - 1 /\ k \in RxIdx /\ e[k] = d[k]
      BY <1>1, <1>3, <2>1
    <3>2. CASE k + 1 < m
      <4>1. k + 1 \in RxIdx /\ k + 1 \notin m .. m + last
        BY <1>1, <3>1, <3>2
      <4>2. e[k + 1] = d[k + 1]
        BY <1>3, <4>1
      <4> QED BY <1>1, <3>1, <3>2, <4>2 DEF Sliced
    <3>3. CASE k + 1 = m
      <4>1. m \in m .. m + last
        BY <1>1
      <4>2. e[k + 1].slice = 0
        <5>1. e[m].slice = m - m
          BY <1>2, <4>1
        <5> QED BY <3>3, <5>1
      <4>3. Ends(d[k])
        BY <3>1, <3>3 DEF Sliced
      <4> QED BY <3>1, <4>2, <4>3 DEF Sliced
    <3> QED BY <1>1, <3>1, <3>2, <3>3
  <2>2. CASE k >= m
    <3>1. k \in m .. m + last
      BY <2>2
    <3>2. /\ ~ e[k].own /\ e[k].slice = k - m /\ e[k].frame = f
          /\ e[k].stp <=> k = m
          /\ e[k].enp <=> k = m + last /\ whole
          /\ e[k].err <=> k = m + last /\ (~ whole \/ bad)
      BY <1>2, <3>1
    <3>3. k = m <=> k - m = 0
      BY <3>1
    <3>4. Ends(e[k]) <=> k = m + last
      BY <3>2 DEF Ends
    <3>5. Good(e[k]) => f.bytes <= (k - m + 1) * RxBytes
      <4>1. k = m + last => k - m + 1 = last + 1
        OBVIOUS
      <4> QED BY <1>1, <3>2, <4>1 DEF Good
    <3>6. k # m + last => /\ k + 1 < m + last + 1
                          /\ e[k + 1].slice = e[k].slice + 1 /\ e[k + 1].frame = f
      <4> SUFFICES ASSUME k # m + last
                   PROVE  /\ k + 1 < m + last + 1
                          /\ e[k + 1].slice = e[k].slice + 1 /\ e[k + 1].frame = f
        OBVIOUS
      <4>1. k + 1 \in m .. m + last
        BY <3>1
      <4>2. e[k + 1].slice = (k + 1) - m /\ e[k + 1].frame = f
        BY <1>2, <4>1
      <4> QED BY <3>1, <3>2, <4>1, <4>2
    <3>7. k = m + last => ~ (k + 1 < m + last + 1)
      OBVIOUS
    <3> QED BY <3>2, <3>3, <3>4, <3>5, <3>6, <3>7
  <2> QED BY <1>1, <2>1, <2>2
<1>5. Sliced(e, m + last + 1)
  <2>1. (m + last + 1) - 1 = m + last
    OBVIOUS
  <2> QED BY <1>4, <2>1 DEF Sliced
<1>6. Blank(e, m + last + 1)
  <2> SUFFICES ASSUME NEW k \in m + last + 1 .. RxLen - 1 PROVE e[k] = EmptyRx(TRUE)
    BY DEF Blank
  <2>1. k \in RxIdx /\ k \notin m .. m + last /\ k \in m .. RxLen - 1
    BY <1>1
  <2> QED BY <1>3, <2>1 DEF Blank
<1>7. ASSUME NEW asm, Begun(d, m, asm) PROVE Begun(e, m + last + 1, asm)
  <2>1. CASE m = 0
    <3>1. 0 \in m .. m + last /\ 0 - m = 0
      BY <2>1
    <3>2. e[0].slice = 0
      BY <1>2, <3>1
    <3> QED BY <3>2 DEF Begun
  <2>2. CASE m # 0
    <3>1. 0 \in RxIdx /\ 0 \notin m .. m + last /\ m > 0
      BY <1>1, <2>2
    <3>2. e[0] = d[0]
      BY <1>3, <3>1
    <3> QED BY <1>7, <3>1, <3>2 DEF Begun
  <2> QED BY <2>1, <2>2
<1>8. ASSUME NEW k \in RxIdx
      PROVE  /\ Good(e[k]) <=> Good(d[k]) \/ (k = m + last /\ whole /\ ~ bad)
             /\ Good(d[k]) => e[k] = d[k] /\ k < m
  <2>1. CASE k < m
    <3>1. k \notin m .. m + last /\ k # m + last
      BY <2>1
    <3> QED BY <1>3, <2>1, <3>1
  <2>2. CASE k >= m
    <3>1. k \in m .. RxLen - 1
      BY <1>1, <2>2
    <3>2. ~ Good(d[k])
      BY <3>1 DEF Blank, EmptyRx, Good
    <3>3. CASE k \in m .. m + last
      BY <1>2, <3>2, <3>3 DEF Good
    <3>4. CASE k \notin m .. m + last
      <4>1. k # m + last
        BY <3>4
      <4> QED BY <1>3, <3>2, <3>4, <4>1
    <3> QED BY <3>2, <3>3, <3>4
  <2> QED BY <1>1, <2>1, <2>2
<1>9. e[m + last].frame = f
  <2>1. m + last \in m .. m + last
    OBVIOUS
  <2> QED BY <1>2, <2>1
<1> QED BY <1>5, <1>6, <1>7, <1>8, <1>9

(* It waits behind the others, if it came whole and without error.          *)
LEMMA FillWaits ==
  ASSUME NEW d \in [RxIdx -> RxDesc], NEW e \in [RxIdx -> RxDesc],
         NEW n \in RxIdx, NEW ok \in BOOLEAN,
         NEW got \in Seq(Frame), NEW w \in Seq(Frame), NEW f \in Frame,
         \A k \in RxIdx : Good(e[k]) <=> Good(d[k]) \/ (k = n /\ ok),
         \A k \in RxIdx : Good(d[k]) => e[k] = d[k] /\ k < n,
         e[n].frame = f,
         Waits(d, got, w)
  PROVE  Waits(e, got, IF ok THEN Append(w, f) ELSE w)
<1>1. RxLen \in Nat \ {0} /\ RxIdx = 0 .. RxLen - 1 /\ n \in 0 .. RxLen - 1
  BY RingAssumption DEF RxIdx
<1>2. PICK c \in [0 .. RxLen -> Nat] : Counts(d, c) /\ Accepted(d, c, got, w)
  BY DEF Waits
<1>3. /\ c[0] = 0
      /\ \A k \in RxIdx : c[k + 1] = IF Good(d[k]) THEN c[k] + 1 ELSE c[k]
      /\ \A j, k \in 0 .. RxLen : j <= k => c[j] <= c[k]
      /\ Len(w) = Len(got) + c[RxLen]
      /\ \A i \in 1 .. Len(got) : w[i] = got[i]
      /\ \A k \in RxIdx : Good(d[k]) => w[Len(got) + c[k + 1]] = d[k].frame
  BY <1>2 DEF Counts, Accepted
<1>4. CASE ~ ok
  <2>1. \A k \in RxIdx : Good(e[k]) <=> Good(d[k])
    BY <1>4
  <2>2. Counts(e, c)
    BY <1>3, <2>1 DEF Counts
  <2>3. Accepted(e, c, got, w)
    BY <1>3, <2>1 DEF Accepted
  <2> QED BY <1>4, <2>2, <2>3 DEF Waits
<1>5. CASE ok
  <2> DEFINE b == [k \in 0 .. RxLen |-> IF k <= n THEN c[k] ELSE c[k] + 1]
             v == Append(w, f)
  <2>1. b \in [0 .. RxLen -> Nat] /\ \A k \in 0 .. RxLen : b[k] = IF k <= n THEN c[k] ELSE c[k] + 1
    OBVIOUS
  <2>2. v \in Seq(Frame) /\ Len(v) = Len(w) + 1 /\ v[Len(w) + 1] = f
        /\ \A i \in 1 .. Len(w) : v[i] = w[i]
    BY AppendProperties
  <2>3. \A k \in 0 .. RxLen : c[k] \in Nat /\ c[k] <= c[RxLen]
    BY <1>1, <1>3
  <2>4. ~ Good(d[n])
    BY <1>1
  <2> HIDE DEF b, v
  <2>5. b[0] = 0
    BY <1>1, <1>3, <2>1
  <2>6. ASSUME NEW k \in RxIdx PROVE b[k + 1] = IF Good(e[k]) THEN b[k] + 1 ELSE b[k]
    <3>1. k \in 0 .. RxLen /\ k + 1 \in 0 .. RxLen
      BY <1>1
    <3>2. c[k + 1] = IF Good(d[k]) THEN c[k] + 1 ELSE c[k]
      BY <1>3
    <3>3. CASE k = n
      <4>1. Good(e[k]) /\ ~ Good(d[k])
        BY <1>5, <2>4, <3>3
      <4> QED BY <1>1, <2>1, <2>3, <3>1, <3>2, <3>3, <4>1
    <3>4. CASE k # n
      <4>1. Good(e[k]) <=> Good(d[k])
        BY <3>4
      <4>2. k + 1 <= n <=> k <= n
        BY <1>1, <3>1, <3>4
      <4> QED BY <1>1, <2>1, <2>3, <3>1, <3>2, <4>1, <4>2
    <3> QED BY <3>3, <3>4
  <2>7. \A j, k \in 0 .. RxLen : j <= k => b[j] <= b[k]
    <3> TAKE j, k \in 0 .. RxLen
    <3>1. (j <= k => c[j] <= c[k]) /\ c[j] \in Nat /\ c[k] \in Nat
      BY <1>3, <2>3
    <3>2. /\ b[j] = IF j <= n THEN c[j] ELSE c[j] + 1
          /\ b[k] = IF k <= n THEN c[k] ELSE c[k] + 1
      BY <2>1
    <3>3. n \in Nat /\ j \in Nat /\ k \in Nat
      BY <1>1
    <3> QED BY <3>1, <3>2, <3>3
  <2>8. Counts(e, b)
    BY <2>5, <2>6, <2>7 DEF Counts
  <2>9. b[RxLen] = c[RxLen] + 1
    BY <1>1, <2>1
  <2>10. Len(v) = Len(got) + b[RxLen]
    <3>1. c[RxLen] \in Nat /\ Len(got) \in Nat
      BY <2>3, <1>1
    <3> QED BY <1>3, <2>2, <2>9, <3>1
  <2>11. \A i \in 1 .. Len(got) : v[i] = got[i]
    <3> TAKE i \in 1 .. Len(got)
    <3>1. i \in 1 .. Len(w)
      <4>1. c[RxLen] \in Nat /\ Len(got) \in Nat
        BY <2>3, <1>1
      <4> QED BY <1>3, <4>1
    <3> QED BY <1>3, <2>2, <3>1
  <2>12. ASSUME NEW k \in RxIdx, Good(e[k]) PROVE v[Len(got) + b[k + 1]] = e[k].frame
    <3>1. k \in 0 .. RxLen /\ k + 1 \in 0 .. RxLen /\ c[k] \in Nat /\ c[RxLen] \in Nat
          /\ c[k + 1] <= c[RxLen] /\ Len(got) \in Nat /\ c[k + 1] \in Nat
      BY <1>1, <2>3
    <3>2. CASE Good(d[k])
      <4>1. k < n /\ e[k] = d[k] /\ c[k + 1] = c[k] + 1
        BY <1>3, <3>2
      <4>2. b[k + 1] = c[k + 1]
        BY <1>1, <2>1, <3>1, <4>1
      <4>3. Len(got) + c[k + 1] \in 1 .. Len(w)
        BY <1>3, <3>1, <4>1
      <4>4. w[Len(got) + c[k + 1]] = d[k].frame
        BY <1>3, <3>2
      <4> QED BY <2>2, <4>1, <4>2, <4>3, <4>4
    <3>3. CASE ~ Good(d[k])
      <4>1. k = n
        BY <2>12, <3>3
      <4>2. \A j \in n .. RxLen - 1 : ~ Good(d[j])
        BY <1>1
      <4>3. c[n + 1] = c[RxLen]
        <5> SUFFICES ASSUME c[n + 1] # c[RxLen] PROVE FALSE
          OBVIOUS
        <5> DEFINE S == {j \in 0 .. RxLen : n < j /\ c[j] # c[n + 1]}
        <5>1. S \in SUBSET Nat /\ RxLen \in S
          BY <1>1
        <5>2. PICK j \in S : \A i \in S : j <= i
          BY <5>1, LeastElement
        <5>3. j # n + 1 /\ j \in 0 .. RxLen /\ n < j
          OBVIOUS
        <5>4. j - 1 \in n .. RxLen - 1 /\ j - 1 \in RxIdx /\ n < j - 1 /\ j - 1 \in 0 .. RxLen
              /\ (j - 1) + 1 = j
          BY <1>1, <5>3
        <5>5. j - 1 \notin S
          <6> HIDE DEF S
          <6> QED BY <5>2, <5>4
        <5>6. c[j - 1] = c[n + 1]
          BY <5>4, <5>5
        <5>7. c[(j - 1) + 1] = c[j - 1]
          BY <1>3, <4>2, <5>4
        <5>8. c[j] = c[n + 1]
          BY <5>4, <5>6, <5>7
        <5> QED BY <5>8
      <4>4. b[k + 1] = c[RxLen] + 1
        <5>1. ~ (k + 1 <= n)
          BY <1>1, <4>1
        <5> QED BY <2>1, <3>1, <4>1, <4>3, <5>1
      <4>5. Len(got) + b[k + 1] = Len(w) + 1
        BY <1>3, <3>1, <4>4
      <4> QED BY <2>2, <4>1, <4>5
    <3> QED BY <3>2, <3>3
  <2>13. Accepted(e, b, got, v)
    BY <2>10, <2>11, <2>12 DEF Accepted
  <2>14. Waits(e, got, v)
    BY <2>1, <2>8, <2>13 DEF Waits
  <2> QED BY <1>5, <2>14 DEF v
<1> QED BY <1>4, <1>5

LEMMA FillQueues ==
  ASSUME NEW s \in MachineType, NEW t \in MachineType, NEW f \in Frame, f # NoFrame,
         NEW last \in RxIdx, NEW bad \in BOOLEAN, Filling(s, t, f, last, bad),
         NEW rh \in RxIdx, NEW asm, NEW got \in Seq(Frame), Queue(s, rh, asm, got)
  PROVE  Queue(t, rh, asm, got)
<1> DEFINE whole == f.bytes <= (last + 1) * RxBytes
<1>1. PICK m \in 0 .. RxLen :
        /\ s.chip.rxPos = Adv(rh, m, RxLen)
        /\ Sliced(Buffers(s, rh), m)
        /\ Blank(Buffers(s, rh), m)
        /\ Begun(Buffers(s, rh), m, asm)
        /\ Waits(Buffers(s, rh), got, s.taken)
  BY DEF Queue
<1>2. PICK d \in [RxIdx -> RxDesc], e \in [RxIdx -> RxDesc] :
        d = Buffers(s, rh) /\ e = Buffers(t, rh)
  BY BuffersType
<1>3. /\ m + last < RxLen
      /\ t.chip.rxPos = Adv(rh, m + last + 1, RxLen)
      /\ \A k \in RxIdx : e[k] = IF k \in m .. m + last
                                   THEN FillRx(d[k], f, k - m, last, whole, bad)
                                   ELSE d[k]
  <2>1. \A k \in 0 .. m - 1 : ~ Buffers(s, rh)[k].own
    BY <1>1 DEF Sliced
  <2> HIDE DEF whole
  <2> QED BY <1>1, <1>2, <2>1, FillingBehind DEF whole
<1>4. m \in Nat /\ last \in Nat /\ m + last \in RxIdx /\ m + last + 1 \in 0 .. RxLen
  BY <1>3, RingAssumption DEF RxIdx
<1>5. whole \in BOOLEAN /\ (whole => f.bytes <= (last + 1) * RxBytes)
  OBVIOUS
<1>6. t.taken = IF whole /\ ~ bad THEN Append(s.taken, f) ELSE s.taken
  BY DEF Filling
<1>7. s.taken \in Seq(Frame)
  BY MachineParts
<1> HIDE DEF whole
<1>8. /\ Sliced(e, m + last + 1) /\ Blank(e, m + last + 1)
      /\ Begun(e, m + last + 1, asm)
      /\ \A k \in RxIdx : Good(e[k]) <=> Good(d[k]) \/ (k = m + last /\ whole /\ ~ bad)
      /\ \A k \in RxIdx : Good(d[k]) => e[k] = d[k] /\ k < m
      /\ e[m + last].frame = f
  <2>1. Sliced(d, m) /\ Blank(d, m) /\ Begun(d, m, asm)
    BY <1>1, <1>2
  <2>2. FilledBehind(d, e, m, f, last, whole, bad)
    BY <1>3, <1>5 DEF FilledBehind
  <2> QED BY <1>2, <1>4, <1>5, <2>1, <2>2, FillSlices
<1>9. Waits(e, got, t.taken)
  <2> DEFINE n == m + last
             ok == whole /\ ~ bad
  <2>1. \A k \in RxIdx : Good(e[k]) <=> Good(d[k]) \/ (k = n /\ ok)
    BY <1>8
  <2>2. \A k \in RxIdx : Good(d[k]) => e[k] = d[k] /\ k < n
    BY <1>4, <1>8 DEF RxIdx
  <2>3. n \in RxIdx /\ ok \in BOOLEAN /\ e[n].frame = f
    BY <1>4, <1>5, <1>8
  <2>4. Waits(d, got, s.taken)
    BY <1>1, <1>2
  <2>5. t.taken = IF ok THEN Append(s.taken, f) ELSE s.taken
    BY <1>6
  <2> HIDE DEF n, ok
  <2>6. Waits(e, got, IF ok THEN Append(s.taken, f) ELSE s.taken)
    BY <1>7, <2>1, <2>2, <2>3, <2>4, FillWaits
  <2> QED BY <2>5, <2>6
<1> QED BY <1>2, <1>3, <1>4, <1>8, <1>9 DEF Queue
-----------------------------------------------------------------------------
(* The driver's side: it takes the first buffer and gives it back empty.    *)
Rest(b, asm) == IF Ends(b) THEN NoAsm ELSE [frame |-> b.frame, next |-> b.slice + 1]
Put(b, got)  == IF Good(b) THEN Append(got, b.frame) ELSE got

LEMMA TakeSlice ==
  ASSUME NEW d \in [RxIdx -> RxDesc], NEW e \in [RxIdx -> RxDesc],
         NEW m \in 1 .. RxLen,
         \A k \in 0 .. RxLen - 2 : e[k] = d[k + 1],
         e[RxLen - 1] = EmptyRx(TRUE),
         Sliced(d, m), Blank(d, m), NEW asm
  PROVE  Sliced(e, m - 1) /\ Blank(e, m - 1) /\ Begun(e, m - 1, Rest(d[0], asm))
<1>1. RxLen \in Nat \ {0} /\ RxIdx = 0 .. RxLen - 1 /\ m \in 1 .. RxLen /\ 0 \in 0 .. m - 1
  BY RingAssumption DEF RxIdx
<1>2. Sliced(e, m - 1)
  <2> SUFFICES ASSUME NEW k \in 0 .. (m - 1) - 1
               PROVE  /\ ~ e[k].own
                      /\ e[k].stp <=> e[k].slice = 0
                      /\ e[k].frame # NoFrame
                      /\ Good(e[k]) => e[k].frame.bytes <= (e[k].slice + 1) * RxBytes
                      /\ ~ Ends(e[k]) => /\ k + 1 < m - 1
                                         /\ e[k + 1].slice = e[k].slice + 1
                                         /\ e[k + 1].frame = e[k].frame
                      /\ Ends(e[k]) /\ k + 1 < m - 1 => e[k + 1].slice = 0
    BY DEF Sliced
  <2>1. k + 1 \in 0 .. m - 1 /\ k \in 0 .. RxLen - 2 /\ (k + 1 < m - 1 <=> (k + 1) + 1 < m)
    BY <1>1
  <2>2. e[k] = d[k + 1]
    BY <2>1
  <2>3. k + 1 < m - 1 => e[k + 1] = d[(k + 1) + 1]
    <3>1. k + 1 < m - 1 => k + 1 \in 0 .. RxLen - 2
      BY <1>1, <2>1
    <3> QED BY <3>1
  <2>4. /\ ~ d[k + 1].own
        /\ d[k + 1].stp <=> d[k + 1].slice = 0
        /\ d[k + 1].frame # NoFrame
        /\ Good(d[k + 1]) => d[k + 1].frame.bytes <= (d[k + 1].slice + 1) * RxBytes
        /\ ~ Ends(d[k + 1]) => /\ (k + 1) + 1 < m
                               /\ d[(k + 1) + 1].slice = d[k + 1].slice + 1
                               /\ d[(k + 1) + 1].frame = d[k + 1].frame
        /\ Ends(d[k + 1]) /\ (k + 1) + 1 < m => d[(k + 1) + 1].slice = 0
    BY <2>1 DEF Sliced
  <2> QED BY <2>1, <2>2, <2>3, <2>4
<1>3. Blank(e, m - 1)
  <2> SUFFICES ASSUME NEW k \in m - 1 .. RxLen - 1 PROVE e[k] = EmptyRx(TRUE)
    BY DEF Blank
  <2>1. CASE k = RxLen - 1
    BY <2>1
  <2>2. CASE k # RxLen - 1
    <3>1. k \in 0 .. RxLen - 2 /\ k + 1 \in m .. RxLen - 1
      BY <1>1, <2>2
    <3>2. d[k + 1] = EmptyRx(TRUE)
      BY <3>1 DEF Blank
    <3> QED BY <3>1, <3>2
  <2> QED BY <2>1, <2>2
<1>4. Begun(e, m - 1, Rest(d[0], asm))
  <2> SUFFICES ASSUME m - 1 > 0, e[0].slice # 0
               PROVE  Rest(d[0], asm) = [frame |-> e[0].frame, next |-> e[0].slice]
    BY DEF Begun
  <2>1. 0 + 1 < m /\ 0 \in 0 .. RxLen - 2
    BY <1>1
  <2>2. e[0] = d[0 + 1]
    BY <2>1
  <2>3. /\ ~ Ends(d[0]) => /\ d[0 + 1].slice = d[0].slice + 1
                           /\ d[0 + 1].frame = d[0].frame
        /\ Ends(d[0]) /\ 0 + 1 < m => d[0 + 1].slice = 0
    BY <1>1 DEF Sliced
  <2> QED BY <2>1, <2>2, <2>3 DEF Rest
<1> QED BY <1>2, <1>3, <1>4

LEMMA TakeWaits ==
  ASSUME NEW d \in [RxIdx -> RxDesc], NEW e \in [RxIdx -> RxDesc],
         \A k \in 0 .. RxLen - 2 : e[k] = d[k + 1],
         e[RxLen - 1] = EmptyRx(TRUE),
         NEW got \in Seq(Frame), NEW w \in Seq(Frame), Waits(d, got, w)
  PROVE  Waits(e, Put(d[0], got), w)
<1>1. RxLen \in Nat \ {0} /\ RxIdx = 0 .. RxLen - 1 /\ 0 \in RxIdx
  BY RingAssumption DEF RxIdx
<1>2. PICK c \in [0 .. RxLen -> Nat] : Counts(d, c) /\ Accepted(d, c, got, w)
  BY DEF Waits
<1>3. /\ c[0] = 0
      /\ \A k \in RxIdx : c[k + 1] = IF Good(d[k]) THEN c[k] + 1 ELSE c[k]
      /\ \A j, k \in 0 .. RxLen : j <= k => c[j] <= c[k]
      /\ Len(w) = Len(got) + c[RxLen]
      /\ \A i \in 1 .. Len(got) : w[i] = got[i]
      /\ \A k \in RxIdx : Good(d[k]) => w[Len(got) + c[k + 1]] = d[k].frame
  BY <1>2 DEF Counts, Accepted
<1> DEFINE got1 == Put(d[0], got)
           b == [k \in 0 .. RxLen |-> IF k < RxLen THEN c[k + 1] - c[1] ELSE c[RxLen] - c[1]]
<1>4. /\ c[1] \in {0, 1} /\ (c[1] = 1 <=> Good(d[0]))
      /\ \A k \in 1 .. RxLen : c[1] <= c[k] /\ c[k] \in Nat
  <2>1. c[0 + 1] = IF Good(d[0]) THEN c[0] + 1 ELSE c[0]
    BY <1>1, <1>3
  <2>2. \A k \in 1 .. RxLen : 1 <= k /\ k \in 0 .. RxLen /\ 1 \in 0 .. RxLen
    BY <1>1
  <2>3. \A k \in 1 .. RxLen : c[1] <= c[k] /\ c[k] \in Nat
    BY <1>3, <2>2
  <2> QED BY <1>3, <2>1, <2>3
<1>5. /\ b \in [0 .. RxLen -> Nat]
      /\ \A k \in RxIdx : b[k] = c[k + 1] - c[1]
      /\ b[RxLen] = c[RxLen] - c[1]
  <2>1. \A k \in 0 .. RxLen : k < RxLen => k + 1 \in 1 .. RxLen
    BY <1>1
  <2>2. RxLen \in 1 .. RxLen /\ RxLen \in 0 .. RxLen /\ \A k \in RxIdx : k < RxLen /\ k \in 0 .. RxLen
    BY <1>1
  <2>3. \A k \in 0 .. RxLen :
          (IF k < RxLen THEN c[k + 1] - c[1] ELSE c[RxLen] - c[1]) \in Nat
    BY <1>4, <2>1, <2>2
  <2> QED BY <2>2, <2>3
<1>6. /\ got1 \in Seq(Frame) /\ Len(got1) = Len(got) + c[1]
      /\ \A i \in 1 .. Len(got) : got1[i] = got[i]
      /\ Good(d[0]) => got1[Len(got) + 1] = d[0].frame
  <2>1. d[0].frame \in Frame
    BY <1>1 DEF RxDesc
  <2>2. /\ Append(got, d[0].frame) \in Seq(Frame)
        /\ Len(Append(got, d[0].frame)) = Len(got) + 1
        /\ Append(got, d[0].frame)[Len(got) + 1] = d[0].frame
        /\ \A i \in 1 .. Len(got) : Append(got, d[0].frame)[i] = got[i]
    BY <2>1, AppendProperties
  <2>3. CASE Good(d[0])
    BY <1>4, <2>2, <2>3 DEF Put
  <2>4. CASE ~ Good(d[0])
    <3>1. c[1] = 0 /\ Len(got) \in Nat
      BY <1>4, <2>4
    <3> QED BY <2>4, <3>1 DEF Put
  <2> QED BY <2>3, <2>4
<1> HIDE DEF b, got1
<1>7. b[0] = 0
  <2>1. b[0] = c[0 + 1] - c[1]
    BY <1>1, <1>5
  <2> QED BY <1>4, <2>1
<1>8. ASSUME NEW k \in RxIdx PROVE b[k + 1] = IF Good(e[k]) THEN b[k] + 1 ELSE b[k]
  <2>1. k \in 0 .. RxLen - 1 /\ b[k] = c[k + 1] - c[1] /\ c[1] \in Nat /\ c[k + 1] \in Nat
    <3>1. k \in 0 .. RxLen - 1 /\ k + 1 \in 1 .. RxLen
      BY <1>1
    <3> QED BY <1>4, <1>5, <3>1
  <2>2. CASE k = RxLen - 1
    <3>1. ~ Good(e[k])
      BY <2>2 DEF Good, EmptyRx
    <3>2. k + 1 = RxLen
      BY <1>1, <2>2
    <3> QED BY <1>5, <2>1, <3>1, <3>2
  <2>3. CASE k # RxLen - 1
    <3>1. k \in 0 .. RxLen - 2 /\ k + 1 \in RxIdx
      BY <1>1, <2>1, <2>3
    <3>2. b[k + 1] = c[(k + 1) + 1] - c[1]
      BY <1>5, <3>1
    <3>3. c[(k + 1) + 1] = IF Good(e[k]) THEN c[k + 1] + 1 ELSE c[k + 1]
      <4>1. e[k] = d[k + 1]
        BY <3>1
      <4> QED BY <1>3, <3>1, <4>1
    <3>4. CASE Good(e[k])
      BY <2>1, <3>2, <3>3, <3>4
    <3>5. CASE ~ Good(e[k])
      BY <2>1, <3>2, <3>3, <3>5
    <3> QED BY <3>4, <3>5
  <2> QED BY <2>2, <2>3
<1>9. \A j, k \in 0 .. RxLen : j <= k => b[j] <= b[k]
  <2> TAKE j, k \in 0 .. RxLen
  <2> DEFINE up(i) == IF i < RxLen THEN i + 1 ELSE RxLen
  <2>1. /\ up(j) \in 1 .. RxLen /\ up(k) \in 1 .. RxLen
        /\ up(j) \in 0 .. RxLen /\ up(k) \in 0 .. RxLen
        /\ j <= k => up(j) <= up(k)
    BY <1>1
  <2>2. b[j] = c[up(j)] - c[1] /\ b[k] = c[up(k)] - c[1]
    <3>1. \A i \in 0 .. RxLen : b[i] = c[up(i)] - c[1]
      <4> TAKE i \in 0 .. RxLen
      <4>1. CASE i < RxLen
        <5>1. i \in RxIdx
          BY <1>1, <4>1
        <5> QED BY <1>5, <4>1, <5>1
      <4>2. CASE ~ (i < RxLen)
        <5>1. i = RxLen
          BY <1>1, <4>2
        <5> QED BY <1>5, <4>2, <5>1
      <4> QED BY <4>1, <4>2
    <3> HIDE DEF up
    <3> QED BY <3>1
  <2> HIDE DEF up
  <2>3. j <= k => c[up(j)] <= c[up(k)]
    BY <1>3, <2>1
  <2>4. c[up(j)] \in Nat /\ c[up(k)] \in Nat /\ c[1] \in Nat
    BY <1>4, <2>1
  <2> QED BY <2>2, <2>3, <2>4
<1>10. Len(w) = Len(got1) + b[RxLen]
  <2>1. c[1] \in Nat /\ c[RxLen] \in Nat /\ Len(got) \in Nat
    BY <1>1, <1>4
  <2> QED BY <1>3, <1>5, <1>6, <2>1
<1>11. \A i \in 1 .. Len(got1) : w[i] = got1[i]
  <2> TAKE i \in 1 .. Len(got1)
  <2>1. CASE i \in 1 .. Len(got)
    BY <1>3, <1>6, <2>1
  <2>2. CASE i \notin 1 .. Len(got)
    <3>1. Good(d[0]) /\ i = Len(got) + 1
      <4>1. Len(got) \in Nat /\ c[1] \in {0, 1} /\ i \in 1 .. Len(got) + c[1]
        BY <1>4, <1>6
      <4>2. c[1] = 1
        BY <2>2, <4>1
      <4> QED BY <1>4, <2>2, <4>1, <4>2
    <3>2. w[Len(got) + c[0 + 1]] = d[0].frame /\ c[0 + 1] = 1
      BY <1>1, <1>3, <1>4, <3>1
    <3>3. 0 + 1 = 1 /\ c[0 + 1] = c[1]
      OBVIOUS
    <3>4. w[Len(got) + 1] = d[0].frame
      BY <3>2
    <3> QED BY <1>6, <3>1, <3>4
  <2> QED BY <2>1, <2>2
<1>12. ASSUME NEW k \in RxIdx, Good(e[k]) PROVE w[Len(got1) + b[k + 1]] = e[k].frame
  <2>1. k # RxLen - 1
    BY <1>12 DEF Good, EmptyRx
  <2>2. k \in 0 .. RxLen - 2 /\ k + 1 \in RxIdx /\ (k + 1) + 1 \in 1 .. RxLen
    BY <1>1, <2>1
  <2>3. e[k] = d[k + 1] /\ b[k + 1] = c[(k + 1) + 1] - c[1]
    BY <1>5, <2>2
  <2>4. w[Len(got) + c[(k + 1) + 1]] = d[k + 1].frame
    BY <1>3, <1>12, <2>2, <2>3
  <2>5. c[(k + 1) + 1] \in Nat /\ c[1] \in Nat /\ Len(got) \in Nat
    BY <1>1, <1>4, <2>2
  <2>6. Len(got1) + b[k + 1] = Len(got) + c[(k + 1) + 1]
    BY <1>6, <2>3, <2>5
  <2> QED BY <2>3, <2>4, <2>6
<1>13. Counts(e, b) /\ Accepted(e, b, got1, w)
  BY <1>7, <1>8, <1>9, <1>10, <1>11, <1>12 DEF Counts, Accepted
<1>14. Waits(e, got1, w)
  BY <1>5, <1>13 DEF Waits
<1> QED BY <1>14 DEF got1
(* IsrDrain: the buffer at the driver's place rh is read and given back.    *)
LEMMA DrainQueues ==
  ASSUME NEW s \in MachineType, NEW t \in MachineType, NEW rh \in RxIdx,
         NEW asm, NEW got \in Seq(Frame), Queue(s, rh, asm, got),
         ~ s.rx[rh].own, t.rx = [s.rx EXCEPT ![rh] = EmptyRx(TRUE)],
         t.chip.rxPos = s.chip.rxPos, t.taken = s.taken
  PROVE  LET b == s.rx[rh]
         IN  /\ Queue(t, Adv(rh, 1, RxLen), Rest(b, asm), Put(b, got))
             /\ b.stp <=> b.slice = 0
             /\ b.frame # NoFrame
             /\ Good(b) => b.frame.bytes <= (b.slice + 1) * RxBytes
             /\ b.slice # 0 => asm = [frame |-> b.frame, next |-> b.slice]
<1>1. PICK m \in 0 .. RxLen :
        /\ s.chip.rxPos = Adv(rh, m, RxLen)
        /\ Sliced(Buffers(s, rh), m)
        /\ Blank(Buffers(s, rh), m)
        /\ Begun(Buffers(s, rh), m, asm)
        /\ Waits(Buffers(s, rh), got, s.taken)
  BY DEF Queue
<1>2. RxLen \in Nat \ {0} /\ RxIdx = 0 .. RxLen - 1 /\ rh \in 0 .. RxLen - 1 /\ 0 \in RxIdx
      /\ 1 \in 0 .. RxLen
  BY RingAssumption DEF RxIdx
<1>3. PICK r : r = Adv(rh, 1, RxLen)
  OBVIOUS
<1>4. /\ r \in RxIdx
      /\ \A k \in 0 .. RxLen - 1 : Adv(r, k, RxLen) = Adv(rh, 1 + k, RxLen)
  <2>1. /\ Adv(rh, 1, RxLen) \in 0 .. RxLen - 1
        /\ \A k \in 0 .. RxLen - 1 : Adv(Adv(rh, 1, RxLen), k, RxLen) = Adv(rh, 1 + k, RxLen)
    BY <1>2, OffShift
  <2> QED BY <1>2, <1>3, <2>1
<1>5. PICK d \in [RxIdx -> RxDesc], e \in [RxIdx -> RxDesc] :
        d = Buffers(s, rh) /\ e = Buffers(t, r)
  BY <1>4, BuffersType
<1>6. d[0] = s.rx[rh]
  <2>1. Adv(rh, 0, RxLen) = rh
    BY <1>2 DEF Adv
  <2>2. d[0] = s.rx[Adv(rh, 0, RxLen)]
    BY <1>2, <1>5 DEF Buffers
  <2> QED BY <2>1, <2>2
<1>7. m \in 1 .. RxLen /\ 0 \in 0 .. m - 1
  <2>1. CASE m = 0
    <3>1. 0 \in m .. RxLen - 1
      BY <1>2, <2>1
    <3>2. d[0] = EmptyRx(TRUE)
      BY <1>1, <1>5, <3>1 DEF Blank
    <3> QED BY <1>6, <3>2 DEF EmptyRx
  <2> QED BY <2>1
<1>8. \A k \in 0 .. RxLen - 2 : e[k] = d[k + 1]
  <2> SUFFICES ASSUME NEW k \in 0 .. RxLen - 2 PROVE e[k] = d[k + 1]
    OBVIOUS
  <2>1. PICK i : i = Adv(rh, k + 1, RxLen)
    OBVIOUS
  <2>2. k \in RxIdx /\ k + 1 \in RxIdx /\ k + 1 \in 0 .. RxLen /\ 1 + k = k + 1
        /\ k \in 0 .. RxLen - 1 /\ k + 1 # 0
    BY <1>2
  <2>3. i \in RxIdx /\ i # rh
    <3>1. i = IF rh + (k + 1) < RxLen THEN rh + (k + 1) ELSE rh + (k + 1) - RxLen
      BY <1>2, <2>1, <2>2 DEF Adv
    <3> QED BY <1>2, <2>2, <3>1
  <2>4. e[k] = t.rx[Adv(r, k, RxLen)] /\ d[k + 1] = s.rx[i]
    BY <1>5, <2>1, <2>2 DEF Buffers
  <2>5. Adv(r, k, RxLen) = i
    BY <1>4, <2>1, <2>2
  <2>6. t.rx[i] = s.rx[i]
    BY <2>3, MachineParts
  <2> QED BY <2>4, <2>5, <2>6
<1>9. e[RxLen - 1] = EmptyRx(TRUE)
  <2>1. RxLen - 1 \in RxIdx /\ RxLen - 1 \in 0 .. RxLen - 1 /\ 1 + (RxLen - 1) = RxLen
    BY <1>2
  <2>2. Adv(rh, RxLen, RxLen) = rh
    BY <1>2 DEF Adv
  <2>3. Adv(r, RxLen - 1, RxLen) = rh
    <3>1. Adv(r, RxLen - 1, RxLen) = Adv(rh, 1 + (RxLen - 1), RxLen)
      BY <1>4, <2>1
    <3> QED BY <2>1, <2>2, <3>1
  <2>4. e[RxLen - 1] = t.rx[Adv(r, RxLen - 1, RxLen)]
    BY <1>5, <2>1 DEF Buffers
  <2>5. t.rx[rh] = EmptyRx(TRUE)
    BY MachineParts
  <2> QED BY <2>3, <2>4, <2>5
<1>10. Sliced(e, m - 1) /\ Blank(e, m - 1) /\ Begun(e, m - 1, Rest(d[0], asm))
  BY <1>1, <1>5, <1>7, <1>8, <1>9, TakeSlice
<1>11. Waits(e, Put(d[0], got), t.taken)
  <2>1. s.taken \in Seq(Frame)
    BY MachineParts
  <2> QED BY <1>1, <1>5, <1>8, <1>9, <2>1, TakeWaits
<1>12. t.chip.rxPos = Adv(r, m - 1, RxLen) /\ m - 1 \in 0 .. RxLen
  <2>1. m - 1 \in 0 .. RxLen - 1 /\ 1 + (m - 1) = m /\ m - 1 \in 0 .. RxLen
    BY <1>2, <1>7
  <2>2. Adv(r, m - 1, RxLen) = Adv(rh, 1 + (m - 1), RxLen)
    BY <1>4, <2>1
  <2> QED BY <1>1, <2>1, <2>2
<1>13. Queue(t, r, Rest(d[0], asm), Put(d[0], got))
  BY <1>5, <1>10, <1>11, <1>12 DEF Queue
<1>14. /\ d[0].stp <=> d[0].slice = 0
       /\ d[0].frame # NoFrame
       /\ Good(d[0]) => d[0].frame.bytes <= (d[0].slice + 1) * RxBytes
       /\ d[0].slice # 0 => asm = [frame |-> d[0].frame, next |-> d[0].slice]
  <2>1. m > 0
    BY <1>7
  <2> QED BY <1>1, <1>5, <1>7, <2>1 DEF Sliced, Begun
<1> QED BY <1>3, <1>6, <1>13, <1>14
-----------------------------------------------------------------------------
(* What a handler does to the receive side, the driver standing still.      *)
Delivers(s, t) ==
  \A rh \in RxIdx, got \in Seq(Frame) :
    \A asm : Queue(s, rh, asm, got) => Queue(t, rh, asm, got)

LEMMA DeliversTrans ==
  ASSUME NEW s, NEW t, NEW u, Delivers(s, t), Delivers(t, u)
  PROVE  Delivers(s, u)
BY DEF Delivers

LEMMA SameDelivers ==
  ASSUME NEW s, NEW t, s.rx = t.rx, s.chip.rxPos = t.chip.rxPos, s.taken = t.taken
  PROVE  Delivers(s, t)
<1>1. \A rh : Buffers(s, rh) = Buffers(t, rh)
  BY DEF Buffers
<1> QED BY <1>1 DEF Delivers, Queue

LEMMA ReceiveDelivers ==
  ASSUME NEW s \in MachineType, NEW f \in Frame, f # NoFrame
  PROVE  Delivers(s, Receive(s, f)) /\ Delivers(s, Recv(s, f))
<1>1. PICK t \in MachineType : t = Receive(s, f)
  BY ReceiveType
<1>2. \/ t.rx = s.rx /\ t.chip.rxPos = s.chip.rxPos /\ t.taken = s.taken
      \/ \E last \in RxIdx, bad \in BOOLEAN : Filling(s, t, f, last, bad)
  BY <1>1, ReceiveFills
<1>3. ASSUME t.rx = s.rx, t.chip.rxPos = s.chip.rxPos, t.taken = s.taken
      PROVE  Delivers(s, t)
  BY <1>3, SameDelivers
<1>4. ASSUME NEW last \in RxIdx, NEW bad \in BOOLEAN, Filling(s, t, f, last, bad)
      PROVE  Delivers(s, t)
  <2> SUFFICES ASSUME NEW rh \in RxIdx, NEW got \in Seq(Frame), NEW asm,
                      Queue(s, rh, asm, got)
               PROVE  Queue(t, rh, asm, got)
    BY DEF Delivers
  <2> QED BY <1>4, FillQueues
<1>5. Delivers(s, t)
  BY <1>2, <1>3, <1>4
<1>6. Delivers(s, s)
  BY DEF Delivers
<1>7. Recv(s, f) = s \/ Recv(s, f) = t
  BY <1>1 DEF Recv
<1> QED BY <1>1, <1>5, <1>6, <1>7

(* What loops back is received; the poll leaves the receive side alone      *)
(* otherwise, and the transmitter off leaves it alone altogether.           *)
LEMMA TransmitPollDelivers ==
  ASSUME NEW s \in MachineType
  PROVE  Delivers(s, TransmitPoll(s))
<1> DEFINE t == [s EXCEPT !.chip = TakeDemand(@)]
           r == Transmit(t)
<1>1. /\ t \in MachineType
      /\ t.tx = s.tx /\ t.rx = s.rx /\ t.taken = s.taken
      /\ t.chip.txPos = s.chip.txPos /\ t.chip.rxPos = s.chip.rxPos
  <2>1. TakeDemand(s.chip) \in ChipType
    BY MachineParts, ChipOpsType
  <2>2. t \in MachineType
    BY <2>1, MachineParts
  <2>3. /\ t.tx = s.tx /\ t.rx = s.rx /\ t.taken = s.taken
        /\ t.chip.txPos = s.chip.txPos /\ t.chip.rxPos = s.chip.rxPos
    BY MachineParts DEF TakeDemand, Lower, MachineType, ChipType
  <2> HIDE DEF t
  <2> QED BY <2>2, <2>3
<1> HIDE DEF t
<1>2. Delivers(s, s) /\ Delivers(s, t)
  BY <1>1, SameDelivers DEF Delivers
<1>3. ASSUME s.tx[s.chip.txPos].own
      PROVE  /\ Delivers(s, r.machine)
             /\ r.loop # NoFrame => Delivers(s, Receive(r.machine, r.loop))
  <2>1. r.machine \in MachineType /\ r.loop \in Frame
    BY <1>1, TransmitType
  <2>2. TxWalked(t, r.machine, TxLast(t))
    BY <1>1, <1>3, TransmitWalks
  <2> HIDE DEF r
  <2>3. Delivers(t, r.machine)
    BY <2>2, SameDelivers DEF TxWalked
  <2>4. Delivers(s, r.machine)
    BY <1>2, <2>3, DeliversTrans
  <2>5. r.loop # NoFrame => Delivers(r.machine, Receive(r.machine, r.loop))
    BY <2>1, ReceiveDelivers
  <2> QED BY <2>4, <2>5, DeliversTrans
<1>4. Delivers(s, ReleaseTx(t, 0, FALSE, {}))
  <2>1. PICK u : u = ReleaseTx(t, 0, FALSE, {})
    OBVIOUS
  <2>2. u.rx = t.rx /\ u.taken = t.taken /\ u.chip.rxPos = t.chip.rxPos
    BY <1>1, <2>1, MachineParts DEF ReleaseTx, MachineType, ChipType
  <2> QED BY <1>1, <2>1, <2>2, SameDelivers
<1>5. \/ TransmitPoll(s) = s
      \/ TransmitPoll(s) = t
      \/ TransmitPoll(s) = ReleaseTx(t, 0, FALSE, {})
      \/ /\ s.tx[s.chip.txPos].own
         /\ \/ TransmitPoll(s) = r.machine
            \/ r.loop # NoFrame /\ TransmitPoll(s) = Receive(r.machine, r.loop)
  BY Zenon DEF TransmitPoll, t
<1> HIDE DEF r
<1> QED BY <1>2, <1>3, <1>4, <1>5

LEMMA TickChipDelivers ==
  ASSUME NEW s \in MachineType
  PROVE  /\ Delivers(s, TickChip(s))
         /\ "TXON" \notin s.chip.csr0 => TickChip(s).taken = s.taken
<1>1. s.chip \in ChipType
  BY MachineParts
<1>2. CASE s.chip.poll > 1
  <2> DEFINE t == [s EXCEPT !.chip.poll = @ - 1]
  <2>1. t.rx = s.rx /\ t.taken = s.taken /\ t.chip.rxPos = s.chip.rxPos
    BY <1>1 DEF MachineType, ChipType
  <2> HIDE DEF t
  <2>2. Delivers(s, t)
    BY <2>1, SameDelivers
  <2>3. TickChip(s) = t
    BY <1>2 DEF TickChip, t
  <2> QED BY <2>1, <2>2, <2>3
<1>3. CASE ~ (s.chip.poll > 1)
  <2> DEFINE t == [s EXCEPT !.chip.poll = PollTicks]
  <2>1. t \in MachineType
    <3>1. [s.chip EXCEPT !.poll = PollTicks] \in ChipType
      BY <1>1 DEF ChipType, PollTicks
    <3> QED BY <3>1, MachineParts
  <2>2. /\ t.rx = s.rx /\ t.taken = s.taken /\ t.chip.rxPos = s.chip.rxPos
        /\ t.chip.csr0 = s.chip.csr0
    BY <1>1 DEF MachineType, ChipType
  <2>3. TickChip(s) = TransmitPoll(t)
    BY <1>3 DEF TickChip
  <2> HIDE DEF t
  <2>4. Delivers(s, t) /\ Delivers(t, TransmitPoll(t))
    BY <2>1, <2>2, SameDelivers, TransmitPollDelivers
  <2>5. "TXON" \notin s.chip.csr0 => TransmitPoll(t) = t
    BY <2>2 DEF TransmitPoll
  <2>6. Delivers(s, TransmitPoll(t))
    BY <2>4, DeliversTrans
  <2> QED BY <2>2, <2>3, <2>5, <2>6
<1> QED BY <1>2, <1>3

(* The driver's register writes.                                            *)
LEMMA StartDelivers ==
  ASSUME NEW s \in MachineType, NEW data \in SUBSET Csr0Bits
  PROVE  \A t \in {DoStrt(s, data), DoTdmd(s, data)} : Delivers(s, t)
<1> TAKE t \in {DoStrt(s, data), DoTdmd(s, data)}
<1>1. CASE t = s
  BY <1>1 DEF Delivers
<1>2. ASSUME NEW u \in MachineType, Alike(s, u), t = TransmitPoll(u)
      PROVE  Delivers(s, t)
  <2>1. Delivers(s, u)
    BY <1>2, SameDelivers DEF Alike
  <2>2. Delivers(u, t)
    BY <1>2, TransmitPollDelivers
  <2> QED BY <2>1, <2>2, DeliversTrans
<1> QED BY <1>1, <1>2, StartSteps, Zenon

LEMMA TailDelivers ==
  ASSUME NEW s \in MachineType, NEW data \in SUBSET Csr0Bits,
         NEW s3 \in MachineType, NEW s4 \in MachineType, NEW t,
         s3 = DoStrt(s, data), s4 = DoTdmd(s3, data), Alike(s4, t)
  PROVE  Delivers(s, t)
<1>1. Delivers(s, s3) /\ Delivers(s3, s4)
  BY StartDelivers
<1>2. Delivers(s4, t)
  BY SameDelivers DEF Alike
<1>3. Delivers(s, s4)
  BY <1>1, DeliversTrans
<1> QED BY <1>2, <1>3, DeliversTrans

LEMMA WriteCsr0Delivers ==
  ASSUME NEW s \in MachineType, NEW data \in SUBSET Csr0Bits, NEW block \in BlockType,
         "STOP" \notin data, "INIT" \notin data
  PROVE  Delivers(s, WriteCsr0(s, data, block))
<1>1. PICK t : t = WriteCsr0(s, data, block)
  OBVIOUS
<1>2. PICK s1, s2, s3, s4 \in MachineType :
        /\ Alike(s, s1)
        /\ s2 = DoInit(s1, data, block)
        /\ s3 = DoStrt(s2, data)
        /\ s4 = DoTdmd(s3, data)
        /\ Alike(s4, t)
  BY <1>1, WriteCsr0Steps
<1>3. Delivers(s1, t)
  <2>1. s2 = s1
    BY <1>2 DEF DoInit
  <2> QED BY <1>2, <2>1, TailDelivers
<1>4. Delivers(s, s1)
  BY <1>2, SameDelivers DEF Alike
<1> QED BY <1>1, <1>3, <1>4, DeliversTrans

LEMMA InitDelivers ==
  ASSUME NEW s \in MachineType, NEW data \in SUBSET Csr0Bits, NEW block \in BlockType,
         "STOP" \notin data, "INIT" \in data, data \cap Acks = {},
         "INIT" \notin s.chip.csr0
  PROVE  \E u \in MachineType :
           /\ u.rx = s.rx /\ u.taken = s.taken /\ u.chip.rxPos = 0
           /\ Delivers(u, WriteCsr0(s, data, block))
<1>1. PICK t : t = WriteCsr0(s, data, block)
  OBVIOUS
<1>2. PICK s1, s2, s3, s4 \in MachineType :
        /\ Alike(s, s1) /\ s1.chip.csr0 = s.chip.csr0 \ Acked(data)
        /\ s2 = DoInit(s1, data, block)
        /\ s3 = DoStrt(s2, data)
        /\ s4 = DoTdmd(s3, data)
        /\ Alike(s4, t)
  BY <1>1, WriteCsr0Steps
<1>3. Delivers(s2, t)
  BY <1>2, TailDelivers
<1>4. s1.chip.csr0 = s.chip.csr0
  BY <1>2 DEF Acked
<1>5. s2 = [s1 EXCEPT !.chip = Initialize(@, block)] /\ s1.chip \in ChipType
  BY <1>2, <1>4, MachineParts DEF DoInit
<1>6. s2.rx = s1.rx /\ s2.taken = s1.taken /\ s2.chip.rxPos = 0
  BY <1>5, ZenonT(40) DEF Initialize, UpdateInterrupts, MachineType, ChipType
<1>7. s2.rx = s.rx /\ s2.taken = s.taken
  BY <1>2, <1>6 DEF Alike
<1> QED BY <1>1, <1>2, <1>3, <1>6, <1>7

(* On fresh rings nothing is under way.                                     *)
LEMMA FreshQueues ==
  ASSUME NEW s, s.rx = FreshRx, s.chip.rxPos = 0, s.taken = <<>>, NEW asm
  PROVE  Queue(s, 0, asm, <<>>)
<1>1. RxLen \in Nat \ {0} /\ RxIdx = 0 .. RxLen - 1 /\ 0 \in 0 .. RxLen
      /\ \A k \in 0 .. RxLen : k + 1 \in Nat
  BY RingAssumption DEF RxIdx
<1>2. PICK d : d = Buffers(s, 0)
  OBVIOUS
<1>3. \A k \in RxIdx : d[k] = EmptyRx(TRUE)
  <2> TAKE k \in RxIdx
  <2>1. Adv(0, k, RxLen) \in RxIdx
    BY <1>1 DEF Adv
  <2> QED BY <1>2, <2>1 DEF Buffers, FreshRx
<1>4. \A k \in RxIdx : ~ Good(d[k])
  BY <1>3 DEF Good, EmptyRx
<1> DEFINE c == [k \in 0 .. RxLen |-> 0]
<1>5. c \in [0 .. RxLen -> Nat] /\ \A k \in 0 .. RxLen : c[k] = 0
  OBVIOUS
<1>6. \A k \in RxIdx : k \in 0 .. RxLen /\ k + 1 \in 0 .. RxLen
  BY <1>1
<1>7. RxLen \in 0 .. RxLen /\ 0 <= 0
  BY <1>1
<1> HIDE DEF c
<1>8. Counts(d, c)
  BY <1>1, <1>4, <1>5, <1>6, <1>7 DEF Counts
<1>9. Accepted(d, c, <<>>, <<>>)
  <2>1. Len(<<>>) = Len(<<>>) + c[RxLen]
    BY <1>5, <1>7
  <2>2. \A i \in 1 .. Len(<<>>) : FALSE
    OBVIOUS
  <2> QED BY <1>4, <2>1, <2>2 DEF Accepted
<1>10. Waits(d, <<>>, <<>>)
  BY <1>5, <1>8, <1>9 DEF Waits
<1>11. Sliced(d, 0)
  BY DEF Sliced
<1>12. Blank(d, 0)
  BY <1>1, <1>3 DEF Blank
<1>13. Begun(d, 0, asm)
  BY DEF Begun
<1>14. s.chip.rxPos = Adv(0, 0, RxLen)
  BY <1>1 DEF Adv
<1> QED BY <1>1, <1>2, <1>10, <1>11, <1>12, <1>13, <1>14 DEF Queue
-----------------------------------------------------------------------------
(* The inductive invariant.  Nothing is accepted until the rings are in use.*)
QueueInv ==
  /\ drv.phase = "ready" => taken = <<>> /\ drv.got = <<>>
  /\ Running => Queue(Machine, drv.rxHead, drv.asm, drv.got)

LEMMA QueueInit == Init => QueueInv
BY DEF Init, QueueInv, Running

LEMMA QueueParts ==
  ASSUME TypeOK
  PROVE  drv.got \in Seq(Frame) /\ Machine.taken = taken /\ taken \in Seq(Frame)
BY DEF TypeOK, DrvType, Machine, MachineType

(* A handler with the rings in use, the driver's place in them unchanged.   *)
LEMMA DeliverKeepsQueue ==
  ASSUME TypeOK, QueueInv, Running, Running', NEW t \in MachineType, Becomes(t),
         Delivers(Machine, t),
         drv'.rxHead = drv.rxHead, drv'.asm = drv.asm, drv'.got = drv.got
  PROVE  QueueInv'
<1>1. Machine' = t
  BY BecomesIs
<1>2. Queue(Machine, drv.rxHead, drv.asm, drv.got)
  BY DEF QueueInv
<1>3. Queue(t, drv.rxHead, drv.asm, drv.got)
  BY <1>2, StateParts, QueueParts DEF Delivers
<1>4. drv'.phase # "ready"
  BY DEF Running
<1> QED BY <1>1, <1>3, <1>4 DEF QueueInv

(* A step that touches neither the chip nor the receive side.               *)
LEMMA AsideKeepsQueue ==
  ASSUME TypeOK, QueueInv, chip' = chip, rx' = rx, taken' = taken,
         drv'.phase = drv.phase,
         drv'.rxHead = drv.rxHead, drv'.asm = drv.asm, drv'.got = drv.got
  PROVE  QueueInv'
<1>1. /\ Machine'.rx = Machine.rx /\ Machine'.taken = Machine.taken
      /\ Machine'.chip = Machine.chip
  BY DEF Machine
<1>2. Delivers(Machine, Machine')
  BY <1>1, SameDelivers
<1>3. (Running => Queue(Machine, drv.rxHead, drv.asm, drv.got))'
  BY <1>2, StateParts, QueueParts DEF Delivers, QueueInv, Running
<1> QED BY <1>3 DEF QueueInv

(* The main loop's handlers.  On fresh rings they leave taken alone: the    *)
(* transmitter and the receiver are off, and nobody calls.                  *)
LEMMA QueueLoop ==
  ASSUME TypeOK, RingInv, QueueInv, QuietWire
  PROVE  (Tick => QueueInv') /\ (Net => QueueInv')
<1>1. ASSUME NEW t \in MachineType, Becomes(t), drv' = drv, Delivers(Machine, t),
             drv.phase = "ready" => t.taken = taken
      PROVE  QueueInv'
  <2>1. CASE Running
    BY <1>1, <2>1, DeliverKeepsQueue DEF Running
  <2>2. CASE ~ Running
    <3>1. ~ Running'
      BY <1>1, <2>2 DEF Running
    <3>2. (drv.phase = "ready" => taken = <<>> /\ drv.got = <<>>)'
      BY <1>1 DEF QueueInv, Becomes
    <3> QED BY <3>1, <3>2 DEF QueueInv
  <2> QED BY <2>1, <2>2
<1>2. ASSUME Tick PROVE QueueInv'
  <2>1. PICK t \in MachineType : t = TickChip(Machine)
    BY StateParts, TickChipType
  <2>2. Becomes(t) /\ drv' = drv
    BY <1>2, <2>1 DEF Tick
  <2>3. Delivers(Machine, t) /\ ("TXON" \notin chip.csr0 => t.taken = taken)
    BY <2>1, StateParts, QueueParts, TickChipDelivers
  <2>4. drv.phase = "ready" => "TXON" \notin chip.csr0
    BY DEF RingInv, FreshUntilInit
  <2> QED BY <1>1, <2>2, <2>3, <2>4
<1>3. ASSUME Net PROVE QueueInv'
  <2>1. PICK len \in WireLens, dst \in WireDst : WireFrame(len, dst)
    BY <1>3 DEF Net
  <2>2. PICK f \in Frame : f = GlueFrame(len, dst)
    BY GlueFrameType DEF TypeOK
  <2>3. PICK t \in MachineType : t = Recv(Machine, f)
    BY <2>2, StateParts, ReceiveType
  <2>4. Becomes(t) /\ drv' = drv
    BY <2>1, <2>2, <2>3 DEF WireFrame
  <2>5. f # NoFrame /\ DstOf(f) = dst
    <3>1. f.frags = <<[id |-> heard + 1, part |-> 1, of |-> 1, dst |-> dst]>>
      BY <2>2 DEF GlueFrame
    <3>2. NoFrame.frags = <<>>
      BY DEF NoFrame
    <3> QED BY <3>1, <3>2 DEF DstOf
  <2>6. Delivers(Machine, t)
    BY <2>3, <2>5, StateParts, ReceiveDelivers
  <2>7. drv.phase = "ready" => t.taken = taken
    <3>1. drv.phase = "ready" => "RXON" \notin chip.csr0
      BY DEF RingInv, FreshUntilInit
    <3>2. dst # "self" \/ "RXON" \in chip.csr0
      BY <2>1 DEF WireFrame
    <3>3. drv.phase = "ready" => t = Machine
      BY <2>3, <2>5, <3>1, <3>2, StateParts, RecvRuns
    <3> QED BY <3>3, QueueParts
  <2> QED BY <1>1, <2>4, <2>6, <2>7
<1> QED BY <1>2, <1>3

(* The driver's writes with the rings in use.                               *)
LEMMA WriteKeepsQueue ==
  ASSUME TypeOK, QueueInv, Running, NEW data \in SUBSET Csr0Bits, Csr0Write(data),
         "STOP" \notin data, "INIT" \notin data, Running',
         drv'.rxHead = drv.rxHead, drv'.asm = drv.asm, drv'.got = drv.got
  PROVE  QueueInv'
<1>1. PICK t \in MachineType : t = WriteCsr0(Machine, data, drv.block)
  BY StateParts, WriteCsr0Type
<1>2. Becomes(t) /\ Delivers(Machine, t)
  BY <1>1, StateParts, WriteCsr0Delivers DEF Csr0Write
<1> QED BY <1>2, DeliverKeepsQueue

LEMMA QueueWrites ==
  ASSUME TypeOK, RingInv, QueueInv
  PROVE  /\ \A data \in StartWords : WriteStart(data) => QueueInv'
         /\ Demand => QueueInv'
         /\ IsrAck => QueueInv'
<1>1. ASSUME NEW data \in StartWords, WriteStart(data) PROVE QueueInv'
  <2>1. data \in SUBSET Csr0Bits /\ "STOP" \notin data /\ "INIT" \notin data
    BY DEF StartWords, Csr0Bits
  <2>2. /\ Running /\ Running' /\ Csr0Write(data)
        /\ drv'.rxHead = drv.rxHead /\ drv'.asm = drv.asm /\ drv'.got = drv.got
    BY <1>1, StateParts DEF WriteStart, Running, DrvType
  <2> QED BY <2>1, <2>2, WriteKeepsQueue
<1>2. ASSUME Demand PROVE QueueInv'
  <2>1. PICK data : data = {"TDMD", "INEA"}
    OBVIOUS
  <2>2. data \in SUBSET Csr0Bits /\ "STOP" \notin data /\ "INIT" \notin data
    BY <2>1 DEF Csr0Bits
  <2>3. Running /\ Running' /\ Csr0Write(data) /\ drv' = drv
    BY <1>2, <2>1 DEF Demand, Running
  <2> QED BY <2>2, <2>3, WriteKeepsQueue
<1>3. ASSUME IsrAck PROVE QueueInv'
  <2>1. PICK data : data = drv.seen \cup {"INEA"}
    OBVIOUS
  <2>2. data \in SUBSET Csr0Bits /\ "STOP" \notin data /\ "INIT" \notin data
    BY <2>1, StateParts DEF Csr0Bits, DrvType, Acks, Causes, Faults
  <2>3. drv.phase = "up" /\ Csr0Write(data)
    BY <1>3, <2>1 DEF IsrAck, RingInv, IsrRunsUp
  <2>4. /\ drv'.phase = drv.phase
        /\ drv'.rxHead = drv.rxHead /\ drv'.asm = drv.asm /\ drv'.got = drv.got
    BY <1>3, StateParts DEF IsrAck, DrvType
  <2>5. Running /\ Running'
    BY <2>3, <2>4 DEF Running
  <2> QED BY <2>2, <2>3, <2>4, <2>5, WriteKeepsQueue
<1> QED BY <1>1, <1>2, <1>3

LEMMA QueueSetup ==
  ASSUME TypeOK, RingInv, QueueInv, QuietWire
  PROVE  Setup => QueueInv'
<1>1. ASSUME Stop PROVE QueueInv'
  <2>1. drv'.phase = "down"
    BY <1>1, StateParts DEF Stop, DrvType
  <2> QED BY <2>1 DEF QueueInv, Running
<1>2. ASSUME NEW block \in Block, MakeRings(block) PROVE QueueInv'
  <2>1. drv'.phase = "ready" /\ drv'.got = <<>> /\ taken' = <<>>
    BY <1>2, StateParts DEF MakeRings, DrvType
  <2> QED BY <2>1 DEF QueueInv, Running
<1>3. ASSUME NEW data \in InitWords, WriteInit(data) PROVE QueueInv'
  <2>1. /\ data \in SUBSET Csr0Bits /\ "STOP" \notin data /\ "INIT" \in data
        /\ data \cap Acks = {}
    BY DEF InitWords, Csr0Bits, Acks, Causes, Faults
  <2>2. PICK t \in MachineType : t = WriteCsr0(Machine, data, drv.block)
    BY <2>1, StateParts, WriteCsr0Type
  <2>3. Machine' = t
    BY <1>3, <2>2, BecomesIs DEF WriteInit, Csr0Write
  <2>4. "INIT" \notin Machine.chip.csr0
    BY StateParts DEF RingInv, NeverInit
  <2>5. PICK u \in MachineType :
           /\ u.rx = rx /\ u.taken = taken /\ u.chip.rxPos = 0
           /\ Delivers(u, t)
    BY <2>1, <2>2, <2>4, StateParts, QueueParts, InitDelivers
  <2>6. rx = FreshRx /\ taken = <<>> /\ drv.rxHead = 0 /\ drv.got = <<>>
    BY <1>3 DEF WriteInit, RingInv, FreshUntilInit, QueueInv
  <2>7. /\ drv'.phase # "ready" /\ drv'.rxHead = 0 /\ drv'.asm = drv.asm
        /\ drv'.got = <<>>
    BY <1>3, <2>6, StateParts DEF WriteInit, DrvType
  <2>8. Queue(u, 0, drv.asm, <<>>)
    BY <2>5, <2>6, FreshQueues
  <2>9. Queue(t, 0, drv.asm, <<>>)
    <3>1. <<>> \in Seq(Frame) /\ 0 \in RxIdx
      BY FreshType
    <3> QED BY <2>5, <2>8, <3>1 DEF Delivers
  <2> QED BY <2>3, <2>7, <2>9 DEF QueueInv
<1> QED BY <1>1, <1>2, <1>3, QueueWrites DEF Setup

(* The driver empties a buffer: what the buffer says and what the driver    *)
(* has begun to read agree, so the frame it hands on is the one accepted.   *)
LEMMA QueueDrain ==
  ASSUME TypeOK, RingInv, QueueInv, IsrDrain
  PROVE  QueueInv'
<1>1. PICK b : b = rx[drv.rxHead]
  OBVIOUS
<1> DEFINE sofar == IF b.stp THEN NoAsm ELSE drv.asm
           joins == b.slice = sofar.next /\ (b.stp \/ b.frame = sofar.frame)
           f     == IF joins THEN b.frame ELSE NoFrame
           ends  == f # NoFrame /\ (b.slice + 1) * RxBytes >= f.bytes
<1>2. /\ drv.isr = "drain" /\ ~ b.own
      /\ rx' = [rx EXCEPT ![drv.rxHead] = EmptyRx(TRUE)]
      /\ drv' = [drv EXCEPT
                   !.rxHead = Adv(@, 1, RxLen),
                   !.asm = IF b.enp \/ b.err THEN NoAsm
                           ELSE [frame |-> f, next |-> b.slice + 1],
                   !.got = IF b.enp /\ ~ b.err
                             THEN Append(@, IF ends THEN f ELSE NoFrame)
                             ELSE @]
      /\ chip' = chip /\ taken' = taken /\ tx' = tx /\ wire' = wire
  BY <1>1 DEF IsrDrain
<1>3. b \in RxDesc
  BY <1>1, StateParts
<1>4. Running
  BY <1>2 DEF RingInv, IsrRunsUp, Running
<1>5. /\ Machine' \in MachineType /\ Machine \in MachineType
      /\ Machine.rx = rx /\ Machine.chip = chip /\ Machine.taken = taken
      /\ Machine'.rx = rx' /\ Machine'.chip = chip /\ Machine'.taken = taken
  <2>1. rx' \in [RxIdx -> RxDesc]
    BY <1>2, StateParts, FreshType
  <2> QED BY <1>2, <2>1, StateParts DEF Machine, MachineType
<1>6. /\ Queue(Machine', Adv(drv.rxHead, 1, RxLen), Rest(b, drv.asm), Put(b, drv.got))
      /\ b.stp <=> b.slice = 0
      /\ b.frame # NoFrame
      /\ Good(b) => b.frame.bytes <= (b.slice + 1) * RxBytes
      /\ b.slice # 0 => drv.asm = [frame |-> b.frame, next |-> b.slice]
  <2>1. Queue(Machine, drv.rxHead, drv.asm, drv.got)
    BY <1>4 DEF QueueInv
  <2>2. PICK s \in MachineType, t \in MachineType : s = Machine /\ t = Machine'
    BY <1>5
  <2>3. PICK rh \in RxIdx, got \in Seq(Frame) :
          rh = drv.rxHead /\ got = drv.got
    BY StateParts, QueueParts
  <2>4. /\ Queue(s, rh, drv.asm, got) /\ b = s.rx[rh] /\ ~ s.rx[rh].own
        /\ t.rx = [s.rx EXCEPT ![rh] = EmptyRx(TRUE)]
        /\ t.chip.rxPos = s.chip.rxPos /\ t.taken = s.taken
    BY <1>1, <1>2, <1>5, <2>1, <2>2, <2>3
  <2>5. /\ Queue(t, Adv(rh, 1, RxLen), Rest(s.rx[rh], drv.asm), Put(s.rx[rh], got))
        /\ s.rx[rh].stp <=> s.rx[rh].slice = 0
        /\ s.rx[rh].frame # NoFrame
        /\ Good(s.rx[rh]) => s.rx[rh].frame.bytes <= (s.rx[rh].slice + 1) * RxBytes
        /\ s.rx[rh].slice # 0 => drv.asm = [frame |-> s.rx[rh].frame, next |-> s.rx[rh].slice]
    BY <2>4, DrainQueues, ZenonT(40)
  <2> QED BY <2>2, <2>3, <2>4, <2>5
<1>7. f = b.frame
  <2>1. CASE b.stp
    <3>1. sofar.next = 0
      BY <2>1 DEF NoAsm
    <3> QED BY <1>6, <2>1, <3>1
  <2>2. CASE ~ b.stp
    <3>1. sofar = [frame |-> b.frame, next |-> b.slice]
      BY <1>6, <2>2
    <3>2. sofar.next = b.slice /\ sofar.frame = b.frame
      BY <3>1
    <3> QED BY <3>2
  <2> QED BY <2>1, <2>2
<1>8. Good(b) => ends
  <2>1. b.frame.bytes \in Nat /\ (b.slice + 1) * RxBytes \in Nat
    BY <1>3, RingAssumption DEF RxDesc, Frame
  <2> HIDE DEF f
  <2> QED BY <1>6, <1>7, <2>1
<1> HIDE DEF f, ends
<1>9. /\ drv'.rxHead = Adv(drv.rxHead, 1, RxLen) /\ drv'.phase = drv.phase
      /\ drv'.asm = (IF b.enp \/ b.err THEN NoAsm ELSE [frame |-> f, next |-> b.slice + 1])
      /\ drv'.got = (IF b.enp /\ ~ b.err
                       THEN Append(drv.got, IF ends THEN f ELSE NoFrame) ELSE drv.got)
  BY <1>2, StateParts DEF DrvType
<1>10. drv'.asm = Rest(b, drv.asm) /\ drv'.got = Put(b, drv.got)
  <2>1. drv'.asm = Rest(b, drv.asm)
    BY <1>7, <1>9 DEF Rest, Ends
  <2>2. drv'.got = Put(b, drv.got)
    BY <1>7, <1>8, <1>9 DEF Put, Good
  <2> QED BY <2>1, <2>2
<1>11. drv'.phase # "ready"
  BY <1>4, <1>9 DEF Running
<1> QED BY <1>6, <1>9, <1>10, <1>11 DEF QueueInv

LEMMA QueueNext ==
  ASSUME QuietWire
  PROVE  TypeOK /\ RingInv /\ QueueInv /\ [Next]_vars => QueueInv'
<1> SUFFICES ASSUME TypeOK, RingInv, QueueInv, [Next]_vars PROVE QueueInv'
  OBVIOUS
<1>1. CASE Setup
  BY <1>1, QueueSetup
<1>2. CASE Send
  <2>1. ASSUME NEW n \in 1 .. MaxFrags, NEW dst \in OwnDst, BeginFrame(n, dst)
        PROVE  QueueInv'
    <3>1. /\ chip' = chip /\ rx' = rx /\ taken' = taken /\ drv'.phase = drv.phase
          /\ drv'.rxHead = drv.rxHead /\ drv'.asm = drv.asm /\ drv'.got = drv.got
      BY <2>1, StateParts DEF BeginFrame, DrvType
    <3> QED BY <3>1, AsideKeepsQueue
  <2>2. ASSUME NEW empty \in BOOLEAN, StoreTx(empty) PROVE QueueInv'
    <3>1. /\ chip' = chip /\ rx' = rx /\ taken' = taken /\ drv'.phase = drv.phase
          /\ drv'.rxHead = drv.rxHead /\ drv'.asm = drv.asm /\ drv'.got = drv.got
      BY <2>2, StateParts DEF StoreTx, DrvType
    <3> QED BY <3>1, AsideKeepsQueue
  <2> QED BY <1>2, <2>1, <2>2, QueueWrites DEF Send
<1>3. CASE Isr
  <2>1. ASSUME IsrRead \/ IsrExit PROVE QueueInv'
    <3>1. /\ chip' = chip /\ rx' = rx /\ taken' = taken /\ drv'.phase = drv.phase
          /\ drv'.rxHead = drv.rxHead /\ drv'.asm = drv.asm /\ drv'.got = drv.got
      BY <2>1, StateParts DEF IsrRead, IsrExit, DrvType
    <3> QED BY <3>1, AsideKeepsQueue
  <2> QED BY <1>3, <2>1, QueueWrites, QueueDrain DEF Isr
<1>4. CASE Tick \/ Net
  BY <1>4, QueueLoop
<1>5. CASE UNCHANGED vars
  BY <1>5, AsideKeepsQueue DEF vars
<1> QED BY <1>1, <1>2, <1>3, <1>4, <1>5 DEF Next

(* The invariant holds in every run with a quiet wire, however the driver   *)
(* queues its own frames.                                                   *)
THEOREM QueueInvariant ==
  ASSUME QuietWire
  PROVE  Spec => []QueueInv
<1>1. TypeOK /\ RingInv /\ QueueInv /\ [Next]_vars => QueueInv'
  BY QueueNext
<1> QED BY <1>1, TypeCorrect, RingsInvariant, QueueInit, PTL DEF Spec
-----------------------------------------------------------------------------
(* What the invariant means: the counts are cardinalities.                  *)
LEMMA CountsAreCardinalities ==
  ASSUME NEW d, NEW c \in [0 .. RxLen -> Nat], Counts(d, c)
  PROVE  \A k \in 0 .. RxLen :
           LET S == {j \in RxIdx : Good(d[j]) /\ j < k}
           IN  IsFiniteSet(S) /\ Cardinality(S) = c[k]
<1> DEFINE S(k) == {j \in RxIdx : Good(d[j]) /\ j < k}
           P(k) == IsFiniteSet(S(k)) /\ Cardinality(S(k)) = c[k]
<1>1. RxLen \in Nat \ {0} /\ RxIdx = 0 .. RxLen - 1
  BY RingAssumption DEF RxIdx
<1>2. P(0)
  <2>1. S(0) = {}
    BY <1>1
  <2> HIDE DEF S
  <2> QED BY <2>1, FS_EmptySet DEF Counts
<1>3. ASSUME NEW k \in RxIdx, P(k) PROVE P(k + 1)
  <2>1. c[k + 1] = IF Good(d[k]) THEN c[k] + 1 ELSE c[k]
    BY DEF Counts
  <2>2. S(k + 1) = IF Good(d[k]) THEN S(k) \cup {k} ELSE S(k)
    <3>1. \A j \in RxIdx : j < k + 1 <=> j < k \/ j = k
      BY <1>1
    <3> QED BY <3>1
  <2>3. k \notin S(k)
    BY <1>1
  <2> HIDE DEF S
  <2>4. CASE Good(d[k])
    BY <1>3, <2>1, <2>2, <2>3, <2>4, FS_AddElement
  <2>5. CASE ~ Good(d[k])
    BY <1>3, <2>1, <2>2, <2>5
  <2> QED BY <2>4, <2>5
<1> HIDE DEF P
<1>4. \A k \in 0 .. RxLen : P(k)
  <2> SUFFICES ASSUME NEW n \in 0 .. RxLen, ~ P(n) PROVE FALSE
    OBVIOUS
  <2> DEFINE F == {k \in 0 .. RxLen : ~ P(k)}
  <2>1. F \in SUBSET Nat /\ F # {}
    BY <1>1
  <2>2. PICK k \in F : \A j \in F : k <= j
    BY <2>1, LeastElement
  <2>3. k \in 0 .. RxLen /\ ~ P(k) /\ k # 0
    BY <1>2
  <2>4. k - 1 \in RxIdx /\ k - 1 \in 0 .. RxLen /\ k - 1 < k /\ (k - 1) + 1 = k
    BY <1>1, <2>3
  <2>5. k - 1 \notin F
    <3> HIDE DEF F
    <3> QED BY <2>2, <2>4, <2>3
  <2>6. P(k - 1)
    BY <2>4, <2>5
  <2>7. P((k - 1) + 1)
    BY <1>3, <2>4, <2>6
  <2> QED BY <2>3, <2>4, <2>7
<1> QED BY <1>4 DEF P

LEMMA QueueMeans ==
  ASSUME TypeOK, QueueInv
  PROVE  RxIsQueue
<1> SUFFICES ASSUME Running
             PROVE  /\ Len(taken) = Len(drv.got) + Cardinality(Waiting)
                    /\ \A i \in DOMAIN drv.got : taken[i] = drv.got[i]
                    /\ \A k \in Waiting :
                         taken[Len(drv.got) + Cardinality({j \in Waiting : j <= k})]
                           = Filled(k).frame
  BY DEF RxIsQueue
<1>1. PICK d : d = Buffers(Machine, drv.rxHead)
  OBVIOUS
<1>2. PICK m \in 0 .. RxLen :
        Sliced(d, m) /\ Blank(d, m) /\ Waits(d, drv.got, taken)
  BY <1>1, QueueParts DEF QueueInv, Queue
<1>3. PICK c \in [0 .. RxLen -> Nat] : Counts(d, c) /\ Accepted(d, c, drv.got, taken)
  BY <1>2 DEF Waits
<1>4. RxLen \in Nat \ {0} /\ RxIdx = 0 .. RxLen - 1 /\ RxLen \in 0 .. RxLen
  BY RingAssumption DEF RxIdx
<1>5. \A k \in RxIdx : d[k] = Filled(k)
  BY <1>1, StateParts DEF Buffers, Filled
<1>6. \A k \in RxIdx : k \in Waiting <=> Good(d[k])
  <2> SUFFICES ASSUME NEW k \in RxIdx PROVE Good(d[k]) => ~ d[k].own
    BY <1>5 DEF Waiting, Good
  <2>1. CASE k < m
    <3>1. k \in 0 .. m - 1
      BY <1>4, <2>1
    <3> QED BY <1>2, <3>1 DEF Sliced
  <2>2. CASE k >= m
    <3>1. k \in m .. RxLen - 1
      BY <1>4, <2>2
    <3>2. d[k] = EmptyRx(TRUE)
      BY <1>2, <3>1 DEF Blank
    <3> QED BY <3>2 DEF Good, EmptyRx
  <2> QED BY <1>4, <2>1, <2>2
<1>7. \A k \in 0 .. RxLen :
        LET S == {j \in RxIdx : Good(d[j]) /\ j < k}
        IN  IsFiniteSet(S) /\ Cardinality(S) = c[k]
  BY <1>3, CountsAreCardinalities
<1>8. Cardinality(Waiting) = c[RxLen]
  <2>1. Waiting = {j \in RxIdx : Good(d[j]) /\ j < RxLen}
    <3>1. Waiting \subseteq RxIdx
      BY DEF Waiting
    <3>2. \A j \in RxIdx : j < RxLen
      BY <1>4
    <3> QED BY <1>6, <3>1, <3>2
  <2> QED BY <1>4, <1>7, <2>1
<1>9. ASSUME NEW k \in Waiting
      PROVE  Cardinality({j \in Waiting : j <= k}) = c[k + 1] /\ k \in RxIdx
  <2>1. k \in RxIdx /\ k + 1 \in 0 .. RxLen
    BY <1>4 DEF Waiting
  <2>2. {j \in Waiting : j <= k} = {j \in RxIdx : Good(d[j]) /\ j < k + 1}
    <3>1. Waiting \subseteq RxIdx
      BY DEF Waiting
    <3>2. \A j \in RxIdx : j <= k <=> j < k + 1
      BY <1>4, <2>1
    <3> QED BY <1>6, <3>1, <3>2
  <2> QED BY <1>7, <2>1, <2>2
<1>10. /\ Len(taken) = Len(drv.got) + c[RxLen]
       /\ \A i \in 1 .. Len(drv.got) : taken[i] = drv.got[i]
       /\ \A k \in RxIdx : Good(d[k]) => taken[Len(drv.got) + c[k + 1]] = d[k].frame
  BY <1>3 DEF Accepted
<1>11. DOMAIN drv.got = 1 .. Len(drv.got)
  BY QueueParts
<1>12. ASSUME NEW k \in Waiting
       PROVE  taken[Len(drv.got) + Cardinality({j \in Waiting : j <= k})] = Filled(k).frame
  <2>1. Cardinality({j \in Waiting : j <= k}) = c[k + 1] /\ k \in RxIdx
    BY <1>9
  <2>2. Good(d[k]) /\ d[k] = Filled(k)
    BY <1>5, <1>6, <2>1
  <2> QED BY <1>10, <2>1, <2>2
<1> QED BY <1>8, <1>10, <1>11, <1>12

(* What the driver has put together, followed by what waits in the ring, is *)
(* exactly what the chip accepted, in order: for every ring and buffer size *)
(* no frame is lost, torn, repeated or overtaken between lance_receive and  *)
(* the driver, while nobody addresses the station with its receiver off.    *)
THEOREM ReceiveIsAQueue ==
  ASSUME QuietWire
  PROVE  Spec => []RxIsQueue
<1>1. TypeOK /\ QueueInv => RxIsQueue
  BY QueueMeans
<1> QED BY <1>1, TypeCorrect, QueueInvariant, PTL
-----------------------------------------------------------------------------
(* The interrupt count of the board glue.  Under the self-test no cause is  *)
(* acknowledged, so IDON and TINT stay once they are set, until STOP.       *)
KeepsCounts(c, d) ==
  /\ c.csr0 \cap Counted \subseteq d.csr0
  /\ "STOP" \in d.csr0 => "STOP" \in c.csr0

LEMMA ReceiveCounts ==
  ASSUME NEW s \in MachineType, NEW f \in Frame
  PROVE  KeepsCounts(s.chip, Receive(s, f).chip)
<1> DEFINE c == Receive(s, f).chip
<1>1. c = s.chip \/ \E bits \in Reports : c.csr0 = s.chip.csr0 \cup bits
  BY ReceiveEffect
<1> HIDE DEF c
<1>2. KeepsCounts(s.chip, c)
  BY <1>1 DEF KeepsCounts, Reports
<1> QED BY <1>2 DEF c

LEMMA TransmitPollCounts ==
  ASSUME NEW s \in MachineType
  PROVE  KeepsCounts(s.chip, TransmitPoll(s).chip)
<1> DEFINE t == [s EXCEPT !.chip = TakeDemand(@)]
           r == Transmit(t)
<1>1. t \in MachineType /\ t.chip.csr0 = s.chip.csr0 \ {"TDMD"}
  <2>1. TakeDemand(s.chip) \in ChipType
    BY MachineParts, ChipOpsType
  <2> QED BY <2>1, MachineParts DEF TakeDemand, Lower, MachineType, ChipType
<1> HIDE DEF t
<1>2. r.machine \in MachineType /\ r.loop \in Frame
  BY <1>1, TransmitType
<1>3. ReleaseTx(t, 0, FALSE, {}).chip.csr0 = t.chip.csr0
  <2>1. 0 \in TxIdx /\ FALSE \in BOOLEAN /\ {} \in SUBSET {"BUFF", "UFLO", "RTRY"}
    BY RingAssumption DEF TxIdx
  <2>2. \A l \in TxIdx, e \in BOOLEAN, b \in SUBSET {"BUFF", "UFLO", "RTRY"} :
          ReleaseTx(t, l, e, b).chip.csr0 = t.chip.csr0
    BY <1>1, SendCompleteEffect
  <2> QED BY <2>1, <2>2, Zenon
<1>4. KeepsCounts(t.chip, r.machine.chip)
  <2> DEFINE c == r.machine.chip
  <2>1. \/ c.csr0 = t.chip.csr0
        \/ \E off \in {{}, {"TXON"}}, babble \in {{}, {"ERR", "BABL"}} :
             c.csr0 = (t.chip.csr0 \ off) \cup babble \cup {"TINT", "INTR"}
    BY <1>1, TransmitEffect
  <2> HIDE DEF c
  <2>2. KeepsCounts(t.chip, c)
    BY <2>1 DEF KeepsCounts, Counted
  <2> QED BY <2>2 DEF c
<1>5. \/ TransmitPoll(s) \in {s, t, ReleaseTx(t, 0, FALSE, {}), r.machine}
      \/ TransmitPoll(s) = Receive(r.machine, r.loop)
  BY Zenon DEF TransmitPoll, t
<1> HIDE DEF r
<1>6. KeepsCounts(r.machine.chip, Receive(r.machine, r.loop).chip)
  BY <1>2, ReceiveCounts
<1> QED BY <1>1, <1>3, <1>4, <1>5, <1>6 DEF KeepsCounts, Counted

LEMMA TickChipCounts ==
  ASSUME NEW s \in MachineType
  PROVE  /\ KeepsCounts(s.chip, TickChip(s).chip)
         /\ "TXON" \notin s.chip.csr0 => TickChip(s).chip.csr0 = s.chip.csr0
<1> DEFINE t == [s EXCEPT !.chip.poll = PollTicks]
<1>1. t \in MachineType /\ t.chip.csr0 = s.chip.csr0
  <2>1. [s.chip EXCEPT !.poll = PollTicks] \in ChipType
    BY MachineParts DEF ChipType, PollTicks
  <2> QED BY <2>1, MachineParts DEF MachineType, ChipType
<1>2. CASE s.chip.poll > 1
  <2>1. TickChip(s).chip.csr0 = s.chip.csr0
    BY <1>2, MachineParts DEF TickChip, MachineType, ChipType
  <2> QED BY <2>1 DEF KeepsCounts
<1>3. CASE ~ (s.chip.poll > 1)
  <2>1. TickChip(s) = TransmitPoll(t)
    BY <1>3 DEF TickChip
  <2> HIDE DEF t
  <2>2. KeepsCounts(t.chip, TransmitPoll(t).chip)
    BY <1>1, TransmitPollCounts
  <2>3. "TXON" \notin t.chip.csr0 => TransmitPoll(t) = t
    BY DEF TransmitPoll
  <2> QED BY <1>1, <2>1, <2>2, <2>3 DEF KeepsCounts
<1> QED BY <1>2, <1>3

LEMMA StartCounts ==
  ASSUME NEW s \in MachineType, NEW data \in SUBSET Csr0Bits
  PROVE  \A t \in {DoStrt(s, data), DoTdmd(s, data)} : KeepsCounts(s.chip, t.chip)
<1> TAKE t \in {DoStrt(s, data), DoTdmd(s, data)}
<1>1. CASE t = s
  BY <1>1 DEF KeepsCounts
<1>2. ASSUME NEW u \in MachineType, Started(s.chip, u.chip), t = TransmitPoll(u)
      PROVE  KeepsCounts(s.chip, t.chip)
  <2>1. KeepsCounts(s.chip, u.chip)
    BY <1>2 DEF KeepsCounts, Started, Counted
  <2>2. KeepsCounts(u.chip, t.chip)
    BY <1>2, TransmitPollCounts
  <2> QED BY <2>1, <2>2 DEF KeepsCounts
<1> QED BY <1>1, <1>2, StartSteps, Zenon

(* The self-test's writes acknowledge nothing; INIT sets IDON and clears    *)
(* STOP.                                                                    *)
LEMMA WriteCsr0Counts ==
  ASSUME NEW s \in MachineType, NEW data \in SUBSET Csr0Bits, NEW block \in BlockType,
         "STOP" \notin data, data \cap Acks = {}
  PROVE  LET t == WriteCsr0(s, data, block)
         IN  /\ KeepsCounts(s.chip, t.chip)
             /\ "INIT" \in data /\ "INIT" \notin s.chip.csr0
                  => "IDON" \in t.chip.csr0 /\ "STOP" \notin t.chip.csr0
<1>1. PICK t : t = WriteCsr0(s, data, block)
  OBVIOUS
<1>2. PICK s1, s2, s3, s4 \in MachineType :
        /\ s1.chip.csr0 = s.chip.csr0 \ Acked(data)
        /\ s2 = DoInit(s1, data, block)
        /\ s3 = DoStrt(s2, data)
        /\ s4 = DoTdmd(s3, data)
        /\ \A bit \in {"INIT", "RINT", "STOP", "STRT", "TXON", "RXON", "IDON", "TINT"} :
             bit \in t.chip.csr0 <=> bit \in s4.chip.csr0
  BY <1>1, WriteCsr0Steps
<1>3. s1.chip.csr0 = s.chip.csr0
  BY <1>2 DEF Acked
<1>4. \/ s2 = s1 /\ ("INIT" \notin data \/ "INIT" \in s.chip.csr0)
      \/ s2.chip.csr0 = (s1.chip.csr0 \ {"INIT", "STOP", "STRT", "TXON", "RXON"})
                          \cup {"IDON", "INTR"}
  <2>1. CASE "INIT" \in data /\ "INIT" \notin s.chip.csr0
    <3>1. s2 = [s1 EXCEPT !.chip = Initialize(@, block)] /\ s1.chip \in ChipType
      BY <1>2, <1>3, <2>1, MachineParts DEF DoInit
    <3>2. Initialize(s1.chip, block).csr0
            = (s1.chip.csr0 \ {"INIT", "STOP", "STRT", "TXON", "RXON"}) \cup {"IDON", "INTR"}
      BY <3>1 DEF Initialize, UpdateInterrupts, ChipType
    <3>3. s2.chip = Initialize(s1.chip, block)
      BY <1>2, <3>1 DEF MachineType
    <3> QED BY <3>2, <3>3
  <2>2. CASE ~ ("INIT" \in data /\ "INIT" \notin s.chip.csr0)
    BY <1>2, <1>3, <2>2 DEF DoInit
  <2> QED BY <2>1, <2>2
<1>5. KeepsCounts(s2.chip, s3.chip) /\ KeepsCounts(s3.chip, s4.chip)
  BY <1>2, StartCounts
<1>6. KeepsCounts(s4.chip, t.chip)
  BY <1>2 DEF KeepsCounts, Counted
<1>7. KeepsCounts(s2.chip, t.chip)
  BY <1>5, <1>6 DEF KeepsCounts
<1>8. KeepsCounts(s.chip, s2.chip)
  BY <1>3, <1>4 DEF KeepsCounts, Counted
<1> QED BY <1>1, <1>4, <1>7, <1>8 DEF KeepsCounts, Counted

(* Without "self" on the wire a stopped chip hears nothing, so the one word *)
(* of CSR0 with STOP is {"STOP"}.  What was raised is what is set.  The     *)
(* glue has counted what its last sample shows, and unless the chip is      *)
(* stopped that is still set: the self-test has waited for a sample of STOP *)
(* before it went on.                                                       *)
CountInv ==
  /\ chip.csr0 = {"STOP"} => drv.phase \in {"down", "ready"}
  /\ chip.csr0 = {"STOP"} \/ ("IDON" \in chip.csr0 /\ "STOP" \notin chip.csr0)
  /\ raised = Ones(chip.csr0, {})
  /\ glue.prev \in SUBSET Csr0Bits /\ glue.count = Ones(glue.prev, {})
  /\ glue = [prev |-> glue.prev, count |-> glue.count, mirror |-> glue.mirror,
             initDone |-> glue.initDone, intCnt |-> glue.intCnt]
  /\ chip.csr0 # {"STOP"} => glue.prev \cap Counted \subseteq chip.csr0

(* Counting what is new on top of what was there is counting what is set.   *)
LEMMA OnesAdd ==
  ASSUME NEW old, NEW new, old \cap Counted \subseteq new
  PROVE  /\ Ones(old, {}) + Ones(new, old) = Ones(new, {})
         /\ Ones(new, {}) \in 0 .. 2
<1>1. \A a \in Counted : a \in old => a \in new
  OBVIOUS
<1> QED BY <1>1 DEF Ones, Counted

LEMMA StopSilent == Ones({"STOP"}, {}) = 0
BY DEF Ones

LEMMA GlueIsNext ==
  ASSUME [GlueNext]_gvars
  PROVE  [Next]_vars
<1>1. CASE Poll
  BY <1>1 DEF Poll, Next
<1>2. CASE SelfTest
  BY <1>2, Zenon DEF SelfTest, Next, Setup, Send
<1>3. CASE UNCHANGED gvars
  BY <1>3 DEF gvars
<1> QED BY <1>1, <1>2, <1>3 DEF GlueNext

(* A step of chip and driver that keeps what is set, seen by Observe.       *)
LEMMA ObserveKeeps ==
  ASSUME CountInv, KeepsCounts(chip, chip'), chip.csr0 # {"STOP"}, Observe
  PROVE  /\ "IDON" \in chip'.csr0 /\ "STOP" \notin chip'.csr0 /\ chip'.csr0 # {"STOP"}
         /\ raised' = Ones(chip'.csr0, {})
         /\ glue.prev \cap Counted \subseteq chip'.csr0
<1>1. "IDON" \in chip.csr0 /\ "STOP" \notin chip.csr0
  BY DEF CountInv
<1>2. "IDON" \in chip'.csr0 /\ "STOP" \notin chip'.csr0 /\ chip'.csr0 # {"STOP"}
  BY <1>1 DEF KeepsCounts, Counted
<1>3. raised' = Ones(chip.csr0, {}) + Ones(chip'.csr0, chip.csr0)
  BY <1>2 DEF CountInv, Observe
<1>4. raised' = Ones(chip'.csr0, {})
  BY <1>3, OnesAdd DEF KeepsCounts
<1> QED BY <1>2, <1>4 DEF CountInv, KeepsCounts

LEMMA ObserveStopped ==
  ASSUME chip'.csr0 = {"STOP"}, Observe
  PROVE  raised' = Ones(chip'.csr0, {})
BY StopSilent DEF Observe

(* What a poll makes of the glue's statics.                                 *)
LEMMA PollCounts ==
  ASSUME TypeOK, CountInv, Poll
  PROVE  CountInv' /\ ("STOP" \notin chip'.csr0 => glue'.intCnt = raised')
<1> DEFINE t == TickChip(Machine)
<1>1. t \in MachineType /\ chip' = t.chip /\ drv' = drv
  BY StateParts, TickChipType DEF Poll, Tick, Becomes
<1>2. KeepsCounts(chip, chip') /\ ("TXON" \notin chip.csr0 => chip'.csr0 = chip.csr0)
  BY <1>1, StateParts, TickChipCounts
<1>3. chip'.csr0 \in SUBSET Csr0Bits
  BY <1>1, MachineParts DEF ChipType
<1> HIDE DEF t
<1>4. Observe /\ glue' = Mirror(glue, chip'.csr0)
  BY DEF Poll
<1>5. CASE chip.csr0 = {"STOP"}
  <2>1. chip'.csr0 = {"STOP"}
    BY <1>2, <1>5
  <2>2. glue' = [glue EXCEPT !.count = 0, !.prev = {"STOP"}]
    BY <1>4, <2>1 DEF Mirror
  <2>3. /\ glue'.prev = {"STOP"} /\ glue'.count = 0
        /\ glue' = [prev |-> glue'.prev, count |-> glue'.count, mirror |-> glue'.mirror,
                    initDone |-> glue'.initDone, intCnt |-> glue'.intCnt]
    BY <2>2 DEF CountInv
  <2>4. raised' = Ones(chip'.csr0, {})
    BY <1>4, <2>1, ObserveStopped
  <2> QED BY <1>1, <1>3, <1>5, <2>1, <2>3, <2>4, StopSilent DEF CountInv
<1>6. CASE chip.csr0 # {"STOP"}
  <2>1. /\ "IDON" \in chip'.csr0 /\ "STOP" \notin chip'.csr0 /\ chip'.csr0 # {"STOP"}
        /\ raised' = Ones(chip'.csr0, {})
        /\ glue.prev \cap Counted \subseteq chip'.csr0
    BY <1>2, <1>4, <1>6, ObserveKeeps
  <2>2. Ones(glue.prev, {}) + Ones(chip'.csr0, glue.prev) = Ones(chip'.csr0, {})
        /\ Ones(chip'.csr0, {}) \in 0 .. 2
    BY <2>1, OnesAdd
  <2>3. (glue.count + Ones(chip'.csr0, glue.prev)) % 256 = Ones(chip'.csr0, {})
    BY <2>2 DEF CountInv
  <2>4. chip'.csr0 \cap Active # {} /\ chip'.csr0 \notin {{"STOP"}, {}}
    BY <2>1 DEF Active
  <2>5. glue' = [prev |-> chip'.csr0, count |-> Ones(chip'.csr0, {}), mirror |-> chip'.csr0,
                 initDone |-> glue.initDone \/ "IDON" \in chip'.csr0,
                 intCnt |-> Ones(chip'.csr0, {})]
    BY <1>4, <2>1, <2>3, <2>4 DEF Mirror
  <2> QED BY <1>1, <1>3, <2>1, <2>5 DEF CountInv
<1> QED BY <1>5, <1>6

(* The self-test's own steps.                                               *)
LEMMA SelfTestCounts ==
  ASSUME Patient, QuietWire, TypeOK, RingInv, CountInv, SelfTest
  PROVE  CountInv'
<1>1. Observe /\ glue' = glue
  BY DEF SelfTest
<1>2. ASSUME chip' = chip, drv'.phase = drv.phase \/ drv'.phase = "ready" PROVE CountInv'
  <2>1. KeepsCounts(chip, chip')
    BY <1>2 DEF KeepsCounts
  <2>2. CASE chip.csr0 = {"STOP"}
    <3>1. raised' = Ones(chip'.csr0, {})
      BY <1>1, <1>2, <2>2, ObserveStopped
    <3> QED BY <1>1, <1>2, <2>2, <3>1 DEF CountInv
  <2>3. CASE chip.csr0 # {"STOP"}
    BY <1>1, <2>1, <2>3, ObserveKeeps DEF CountInv
  <2> QED BY <2>2, <2>3
<1>3. ASSUME NEW data \in SUBSET Csr0Bits, Csr0Write(data),
             "STOP" \notin data, data \cap Acks = {}
      PROVE  KeepsCounts(chip, chip')
             /\ ("INIT" \in data => "IDON" \in chip'.csr0 /\ "STOP" \notin chip'.csr0)
  <2>1. "INIT" \notin Machine.chip.csr0 /\ Machine.chip = chip
    BY StateParts DEF RingInv, NeverInit
  <2>2. chip' = WriteCsr0(Machine, data, drv.block).chip
    BY <1>3 DEF Csr0Write, Becomes
  <2> QED BY <1>3, <2>1, <2>2, StateParts, WriteCsr0Counts
<1>4. CASE Stop
  <2>1. drv'.phase = "down" /\ Csr0Write({"STOP"})
    BY <1>4, StateParts DEF Stop, DrvType
  <2>2. chip' = WriteCsr0(Machine, {"STOP"}, drv.block).chip
    BY <2>1 DEF Csr0Write, Becomes
  <2>3. chip'.csr0 = {"STOP"}
    <3>1. CASE "STOP" \in chip.csr0
      <4>1. chip' = chip
        BY <2>2, <3>1, StateParts DEF WriteCsr0
      <4> QED BY <3>1, <4>1 DEF CountInv
    <3>2. CASE "STOP" \notin chip.csr0
      <4>1. chip' = Reset(chip)
        BY <2>2, <3>2, StateParts DEF WriteCsr0, MachineType
      <4> QED BY <4>1, StateParts DEF Reset, UpdateInterrupts, ChipType
    <3> QED BY <3>1, <3>2
  <2>4. raised' = Ones(chip'.csr0, {})
    BY <1>1, <2>3, ObserveStopped
  <2> QED BY <1>1, <2>1, <2>3, <2>4 DEF CountInv
<1>5. ASSUME NEW block \in Block, MakeRings(block) PROVE CountInv'
  <2>1. chip' = chip /\ drv'.phase = "ready"
    BY <1>5, StateParts DEF MakeRings, DrvType
  <2> QED BY <1>2, <2>1
<1>6. ASSUME NEW data \in InitWords, StopSampled, WriteInit(data) PROVE CountInv'
  <2>1. /\ data \in SUBSET Csr0Bits /\ "STOP" \notin data /\ "INIT" \in data
        /\ data \cap Acks = {}
    BY DEF InitWords, Csr0Bits, Acks, Causes, Faults
  <2>2. /\ KeepsCounts(chip, chip')
        /\ "IDON" \in chip'.csr0 /\ "STOP" \notin chip'.csr0 /\ chip'.csr0 # {"STOP"}
    BY <1>3, <1>6, <2>1 DEF WriteInit
  <2>3. CASE chip.csr0 = {"STOP"}
    <3>1. raised = 0 /\ glue.prev = {"STOP"} /\ glue.prev \cap Counted = {}
      BY <1>6, <2>3, StopSilent DEF StopSampled, CountInv, Counted
    <3>2. raised' = Ones({"STOP"}, {}) + Ones(chip'.csr0, {"STOP"})
      BY <1>1, <2>2, <2>3, <3>1, StopSilent DEF Observe
    <3>3. raised' = Ones(chip'.csr0, {})
      BY <3>1, <3>2, OnesAdd
    <3> QED BY <1>1, <2>2, <3>1, <3>3 DEF CountInv
  <2>4. CASE chip.csr0 # {"STOP"}
    BY <1>1, <2>2, <2>4, ObserveKeeps DEF CountInv
  <2> QED BY <2>3, <2>4
<1>7. ASSUME NEW data \in SUBSET Csr0Bits, Csr0Write(data),
             "STOP" \notin data, data \cap Acks = {}, drv.phase \notin {"down", "ready"}
      PROVE  CountInv'
  <2>1. KeepsCounts(chip, chip') /\ chip.csr0 # {"STOP"}
    BY <1>3, <1>7 DEF CountInv
  <2> QED BY <1>1, <2>1, ObserveKeeps DEF CountInv
<1>8. ASSUME NEW data \in StartWords, WriteStart(data) PROVE CountInv'
  <2>1. data \in SUBSET Csr0Bits /\ "STOP" \notin data /\ data \cap Acks = {}
    BY DEF StartWords, Csr0Bits, Acks, Causes, Faults
  <2> QED BY <1>7, <1>8, <2>1 DEF WriteStart
<1>9. CASE Demand
  <2>1. {"TDMD", "INEA"} \in SUBSET Csr0Bits /\ {"TDMD", "INEA"} \cap Acks = {}
    BY DEF Csr0Bits, Acks, Causes, Faults
  <2> QED BY <1>7, <1>9, <2>1 DEF Demand
<1>10. ASSUME NEW n \in 1 .. MaxFrags, NEW dst \in OwnDst, BeginFrame(n, dst) PROVE CountInv'
  <2>1. chip' = chip /\ drv'.phase = drv.phase
    BY <1>10, StateParts DEF BeginFrame, DrvType
  <2> QED BY <1>2, <2>1
<1>11. CASE StoreTx(FALSE)
  <2>1. chip' = chip /\ drv'.phase = drv.phase
    BY <1>11, StateParts DEF StoreTx, DrvType
  <2> QED BY <1>2, <2>1
<1>12. CASE Net
  <2>1. PICK len \in WireLens, dst \in WireDst : WireFrame(len, dst)
    BY <1>12 DEF Net
  <2> DEFINE f == GlueFrame(len, dst)
  <2>2. f \in Frame /\ DstOf(f) = dst
    BY GlueFrameType DEF TypeOK, GlueFrame, DstOf
  <2> HIDE DEF f
  <2>3. /\ Machine \in MachineType /\ chip' = Recv(Machine, f).chip /\ drv' = drv
        /\ dst # "self" \/ "RXON" \in chip.csr0
    BY <2>1, StateParts DEF WireFrame, Becomes, f
  <2>4. Machine.chip = chip
    BY DEF Machine
  <2>5. CASE chip.csr0 = {"STOP"}
    <3>1. Recv(Machine, f) = Machine
      BY <2>2, <2>3, <2>4, <2>5, RecvRuns
    <3> QED BY <1>2, <2>3, <2>4, <3>1
  <2>6. CASE chip.csr0 # {"STOP"}
    <3>1. KeepsCounts(chip, Receive(Machine, f).chip) /\ KeepsCounts(chip, chip)
      BY <2>2, <2>3, <2>4, ReceiveCounts DEF KeepsCounts
    <3>2. KeepsCounts(chip, chip')
      BY <2>3, <2>4, <3>1 DEF Recv
    <3> QED BY <1>1, <2>3, <2>6, <3>2, ObserveKeeps DEF CountInv
  <2> QED BY <2>5, <2>6
<1> QED BY <1>4, <1>5, <1>6, <1>8, <1>9, <1>10, <1>11, <1>12, Zenon DEF SelfTest

LEMMA CountInit == GlueInit => CountInv
<1> SUFFICES ASSUME GlueInit PROVE CountInv
  OBVIOUS
<1>1. chip.csr0 = {"STOP"} /\ drv.phase = "down" /\ raised = 0
  BY DEF GlueInit, Init
<1>2. glue = [prev |-> {}, count |-> 0, mirror |-> {}, initDone |-> FALSE, intCnt |-> 0]
  BY DEF GlueInit
<1>3. Ones({}, {}) = 0
  BY DEF Ones
<1> QED BY <1>1, <1>2, <1>3, StopSilent DEF CountInv

(* The count that the boot self-test compares is the number of interrupts   *)
(* since STOP, however the frames, polls and register writes fall: if the   *)
(* self-test lets a poll pass after STOP and nobody addresses the station   *)
(* meanwhile.                                                               *)
THEOREM CountStaysExact ==
  ASSUME Patient, QuietWire
  PROVE  GlueSpec => CountIsExact
<1>1. GlueInit => TypeOK /\ RingInv /\ CountInv
  BY TypeInit, RingInit, CountInit DEF GlueInit
<1>2. TypeOK /\ RingInv /\ CountInv /\ [GlueNext]_gvars => (TypeOK /\ RingInv /\ CountInv)'
  <2> SUFFICES ASSUME TypeOK, RingInv, CountInv, [GlueNext]_gvars
               PROVE  (TypeOK /\ RingInv /\ CountInv)'
    OBVIOUS
  <2>1. TypeOK' /\ RingInv'
    BY GlueIsNext, TypeNext, RingNext
  <2>2. CASE Poll
    BY <2>1, <2>2, PollCounts
  <2>3. CASE SelfTest
    BY <2>1, <2>3, SelfTestCounts
  <2>4. CASE UNCHANGED gvars
    <3>1. CountInv'
      BY <2>4 DEF gvars, vars, CountInv
    <3> QED BY <2>1, <3>1
  <2> QED BY <2>2, <2>3, <2>4 DEF GlueNext
<1>3. TypeOK /\ CountInv /\ [GlueNext]_gvars
        => [Poll /\ "STOP" \notin chip'.csr0 => glue'.intCnt = raised']_gvars
  BY PollCounts
<1> QED BY <1>1, <1>2, <1>3, PTL DEF GlueSpec, CountIsExact
-----------------------------------------------------------------------------
(* The self-test in loopback: every frame that comes back without an error  *)
(* has been received.                                                       *)
(*                                                                          *)
(* The first n descriptors from the chip's receive position on are its own. *)
Ahead(s, n) == \A k \in RxIdx : k < n => s.rx[Adv(s.chip.rxPos, k, RxLen)].own

(* What the chip has still to send are frames of the driver after the m-th. *)
Unsent(s, m) ==
  \A i \in TxIdx :
    s.tx[i].own => /\ m < s.tx[i].frag.id
                   /\ s.tx[i].frag.dst \in OwnDst /\ s.tx[i].frag.of \in 1 .. MaxFrags

CameBack(s, id) == \E j \in DOMAIN s.taken : s.taken[j].own /\ s.taken[j].frags[1].id = id

Looped(s) ==
  \A i \in TxIdx :
    /\ s.tx[i].enp /\ ~ s.tx[i].own /\ ~ s.tx[i].err
    /\ "LOOP" \in s.chip.mode \/ s.tx[i].frag.dst = "self"
    => CameBack(s, s.tx[i].frag.id)

(* p frames from the wire and m of its own have taken one buffer each at    *)
(* most; the driver has handed over the l-th.                               *)
Round(s, p, l) ==
  /\ s.chip.padr /\ s.chip.mode \in Modes /\ Hears(s.chip)
  /\ Looped(s)
  /\ \E m \in 0 .. l : Unsent(s, m) /\ Ahead(s, RxLen - (p + m))

(* Passing one descriptor leaves one less ahead.                            *)
LEMMA AheadShifts ==
  ASSUME NEW s \in MachineType, NEW t \in MachineType, RxWalked(s, t, 0),
         NEW n \in Int, n <= RxLen, Ahead(s, n)
  PROVE  Ahead(t, n - 1)
<1> SUFFICES ASSUME NEW k \in RxIdx, k < n - 1
             PROVE  t.rx[Adv(t.chip.rxPos, k, RxLen)].own
  BY DEF Ahead
<1> DEFINE p == s.chip.rxPos
           i == Adv(p, k + 1, RxLen)
<1>1. /\ RxLen \in Nat \ {0} /\ RxIdx = 0 .. RxLen - 1
      /\ p \in 0 .. RxLen - 1 /\ k + 1 \in 0 .. RxLen - 1 /\ k + 1 < n
      /\ k \in 0 .. RxLen - 1 /\ 1 \in 0 .. RxLen /\ k + 1 \in 0 .. RxLen
  BY RingAssumption, MachineParts DEF RxIdx, ChipType
<1>2. t.chip.rxPos = Adv(p, 1, RxLen)
  BY DEF RxWalked
<1>3. Adv(t.chip.rxPos, k, RxLen) = i
  <2> HIDE DEF p
  <2>1. Adv(Adv(p, 1, RxLen), k, RxLen) = Adv(p, 1 + k, RxLen)
    BY <1>1, OffShift
  <2> QED BY <1>1, <1>2, <2>1
<1>4. i \in RxIdx /\ Off(p, i, RxLen) = k + 1
  <2> HIDE DEF p
  <2> QED BY <1>1, AdvInRing, OffAdv
<1>5. RxOff(s.chip, i) > 0
  <2> HIDE DEF i
  <2> QED BY <1>1, <1>4, OffIsOffset
<1>6. t.rx[i] = s.rx[i]
  <2> HIDE DEF i
  <2> QED BY <1>4, <1>5 DEF RxWalked
<1>7. s.rx[i].own
  BY <1>1 DEF Ahead
<1> QED BY <1>3, <1>6, <1>7

(* A frame of one buffer: it takes one descriptor or none, and is received  *)
(* if it is accepted, has a descriptor and shows no wrong FCS.              *)
LEMMA ReceiveOne ==
  ASSUME NEW s \in MachineType, NEW f \in Frame, f.bytes <= RxBytes
  PROVE  LET t == Receive(s, f)
         IN  /\ \/ t.rx = s.rx /\ t.chip.rxPos = s.chip.rxPos /\ t.taken = s.taken
                \/ RxWalked(s, t, 0) /\ t.taken \in {s.taken, Append(s.taken, f)}
             /\ Accepts(s.chip, f) /\ s.rx[s.chip.rxPos].own
                  /\ (f.fcs \/ ~ FcsChecked(s.chip))
                  => t.taken = Append(s.taken, f)
<1> DEFINE missed == UpdateInterrupts(Raise(s.chip, {"ERR", "MISS", "RINT", "INTR"}))
           u == StoreRx(s, f)
           v == [u EXCEPT !.chip = UpdateInterrupts(u.chip)]
           w == [s EXCEPT !.chip = missed]
           kept == f.fcs \/ ~ FcsChecked(s.chip)
<1>1. s.chip \in ChipType /\ u \in MachineType /\ u.chip \in ChipType
      /\ RxLen \in Nat \ {0} /\ RxIdx = 0 .. RxLen - 1 /\ RxBytes \in Nat /\ f.bytes \in Nat
  BY StoreRxType, MachineParts, RingAssumption DEF Frame, RxIdx
<1>2. RxLast(s, f) = 0
  <2>1. 0 \in RxIdx /\ RxStops(s, f, 0)
    BY <1>1 DEF RxStops
  <2>2. RxLast(s, f) \in RxIdx /\ ~ (0 < RxLast(s, f))
    BY <2>1, RxLastStops
  <2> QED BY <1>1, <2>2
<1>3. f.bytes <= (0 + 1) * RxBytes
  BY <1>1
<1>4. w.rx = s.rx /\ w.chip.rxPos = s.chip.rxPos /\ w.taken = s.taken
  <2>1. w.rx = s.rx /\ w.taken = s.taken /\ w.chip = missed
    BY DEF MachineType
  <2>2. missed.rxPos = s.chip.rxPos
    BY <1>1 DEF UpdateInterrupts, Raise, ChipType
  <2> HIDE DEF w, missed
  <2> QED BY <2>1, <2>2
<1>5. RxWalked(s, v, 0) /\ v.taken \in {s.taken, Append(s.taken, f)}
      /\ (kept => v.taken = Append(s.taken, f))
  <2>1. /\ u.chip.rxPos = Adv(s.chip.rxPos, 0 + 1, RxLen)
        /\ u.taken = IF kept THEN Append(s.taken, f) ELSE s.taken
    BY <1>1, <1>2, <1>3 DEF StoreRx, MachineType, ChipType
  <2>2. ASSUME NEW i \in RxIdx
        PROVE  IF RxOff(s.chip, i) > 0 THEN u.rx[i] = s.rx[i] ELSE ~ u.rx[i].own
    <3> DEFINE whole == f.bytes <= (0 + 1) * RxBytes
               badFcs == whole /\ ~ f.fcs /\ FcsChecked(s.chip)
               d == FillRx(s.rx[i], f, RxOff(s.chip, i), 0, whole, badFcs)
    <3>1. u.rx[i] = IF RxOff(s.chip, i) <= 0 THEN d ELSE s.rx[i]
      BY <1>2 DEF StoreRx, MachineType
    <3>2. s.rx[i] \in RxDesc /\ RxOff(s.chip, i) \in RxIdx
      BY <1>1, MachineParts, Offsets
    <3>3. ~ d.own
      BY <3>2 DEF FillRx, RxDesc
    <3> HIDE DEF d, u
    <3> QED BY <3>1, <3>2, <3>3 DEF RxIdx
  <2> HIDE DEF u
  <2>3. v.rx = u.rx /\ v.taken = u.taken /\ v.chip.rxPos = u.chip.rxPos
    BY <1>1 DEF MachineType, UpdateInterrupts, ChipType
  <2> HIDE DEF v
  <2> QED BY <2>1, <2>2, <2>3 DEF RxWalked
<1>6. Receive(s, f) = IF ~ Accepts(s.chip, f) THEN s
                      ELSE IF ~ s.rx[s.chip.rxPos].own THEN w ELSE v
  BY DEF Receive
<1> HIDE DEF v, w, kept
<1> QED BY <1>4, <1>5, <1>6 DEF kept

(* lance_transmit with the chain behind it: one frame leaves it, the first; *)
(* what the chip still owns is of later ones, and the one descriptor with   *)
(* ENP that comes back is the end of this frame.                            *)
Passes(s, t, g, last, l) ==
  /\ t \in MachineType /\ TxWalked(s, t, last) /\ Stays(s.chip, t.chip)
  /\ ~ TxAt(s, last).empty /\ last + 1 = g.of
  /\ g = s.tx[s.chip.txPos].frag /\ g.id <= l
  /\ \A i \in TxIdx :
       t.tx[i].own => s.tx[i].own /\ t.tx[i] = s.tx[i] /\ g.id < s.tx[i].frag.id
  /\ \A i \in TxIdx :
       t.tx[i].enp /\ ~ t.tx[i].own
         => \/ t.tx[i] = s.tx[i]
            \/ TxOff(s.chip, i) = last /\ t.tx[i].frag.id = g.id /\ t.tx[i].frag.dst = g.dst

LEMMA TransmitPasses ==
  ASSUME NEW s \in MachineType, s.tx[s.chip.txPos].own,
         NEW h, NEW b \in Nat, NEW dn \in Nat, NEW q \in Nat, NEW dst,
         Sending(s, h, b, dn, q, dst)
  PROVE  Passes(s, Transmit(s).machine, TxFrame(s).frags[1], TxLast(s), Latest(b, q))
<1>1. PICK t : t = Transmit(s).machine
  OBVIOUS
<1>2. PICK n \in 0 .. TxLen : Chain(s, n, h, b, dn, q, dst)
  BY DEF Sending
<1> DEFINE d == View(s)
           m == d[0].frag.of
           g == TxFrame(s).frags[1]
           last == TxLast(s)
           l == Latest(b, q)
<1>3. /\ n \in 1 .. TxLen /\ last = m - 1 /\ ~ TxAt(s, last).empty
      /\ g = d[0].frag
  BY <1>2, WalkTakesFrame DEF Chain
<1>4. /\ d \in [TxIdx -> TxDesc] /\ l \in Int
      /\ TxLen \in Nat \ {0} /\ TxIdx = 0 .. TxLen - 1 /\ s.chip \in ChipType
      /\ \A k \in TxIdx : d[k].frag \in Frag /\ d[k].frag.id \in Nat
  BY ViewType, MachineParts, RingAssumption DEF TxIdx, Latest
<1>5. /\ m \in 1 .. n
      /\ \A k \in 0 .. m - 1 : /\ d[k].frag = [d[0].frag EXCEPT !.part = k + 1]
                               /\ d[k].enp <=> k = m - 1
      /\ \A k \in m .. n - 1 : Begin(d, k) >= m /\ d[0].frag.id < d[k].frag.id
  <2>1. Marked(d, n) /\ Joined(d, n)
    BY <1>2 DEF Chain
  <2> HIDE DEF d
  <2> QED BY <1>3, <1>4, <2>1, FirstFrame
<1>6. /\ t \in MachineType /\ TxWalked(s, t, last) /\ Stays(s.chip, t.chip)
  BY <1>1, TransmitWalks
<1>7. last + 1 = m
  <2> HIDE DEF m, last
  <2> QED BY <1>3, <1>5
<1>8. g.id <= l
  <2>1. Fresher(d, n, s.wire, l) /\ 0 \in 0 .. n - 1
    BY <1>2, <1>3 DEF Chain
  <2>2. d[0].frag.id <= l
    BY <2>1 DEF Fresher
  <2> QED BY <1>3, <2>2
<1>9. g = s.tx[s.chip.txPos].frag
  <2>1. d[0] = TxAt(s, 0)
    BY <1>4, ViewType
  <2>2. Adv(s.chip.txPos, 0, TxLen) = s.chip.txPos
    BY <1>4 DEF Adv, ChipType
  <2> QED BY <1>3, <2>1, <2>2 DEF TxAt
<1>10. ASSUME NEW i \in TxIdx
       PROVE  LET o == TxOff(s.chip, i)
              IN  o \in TxIdx /\ o \in Nat /\ s.tx[i] = d[o]
  <2>1. TxOff(s.chip, i) \in TxIdx /\ Adv(s.chip.txPos, TxOff(s.chip, i), TxLen) = i
    BY <1>4, Offsets
  <2> QED BY <1>4, <2>1, ViewType
<1>11. ASSUME NEW i \in TxIdx, t.tx[i].own
       PROVE  s.tx[i].own /\ t.tx[i] = s.tx[i] /\ g.id < s.tx[i].frag.id
  <2> DEFINE o == TxOff(s.chip, i)
  <2>1. o > last /\ t.tx[i] = s.tx[i]
    BY <1>6, <1>11 DEF TxWalked
  <2>2. o \in TxIdx /\ o \in Nat /\ s.tx[i] = d[o]
    BY <1>10
  <2>3. o < n \/ o \in n + 1 .. n + dn
    BY <1>2, <1>11, <2>1 DEF Chain, TxRun
  <2> HIDE DEF o
  <2>4. CASE o < n
    <3>1. o \in m .. n - 1
      <4> HIDE DEF m, last, d
      <4> QED BY <1>3, <1>5, <1>7, <2>1, <2>2, <2>4
    <3> QED BY <1>3, <1>5, <1>11, <2>1, <2>2, <3>1
  <2>5. CASE o \in n + 1 .. n + dn
    <3>1. PICK k \in 1 .. dn : o = n + k
      <4>1. o - n \in 1 .. dn /\ o = n + (o - n)
        BY <2>2, <2>5
      <4> QED BY <4>1
    <3>2. Built(d, n, b, dn, q, dst) /\ (dn < b \/ dn = 0)
      BY <1>2 DEF Chain
    <3>3. d[o].frag.id = q
      <4>1. d[n + k].frag = [id |-> q, part |-> k + 1, of |-> b, dst |-> dst]
        <5> HIDE DEF d
        <5> QED BY <3>2 DEF Built
      <4> HIDE DEF d
      <4> QED BY <3>1, <4>1
    <3>4. l = q - 1
      BY <3>1, <3>2 DEF Latest
    <3>5. g.id \in Nat
      BY <1>3, <1>4
    <3> HIDE DEF d, g, l
    <3> QED BY <1>8, <1>11, <2>1, <2>2, <3>3, <3>4, <3>5
  <2> QED BY <2>3, <2>4, <2>5
<1>12. ASSUME NEW i \in TxIdx, t.tx[i].enp, t.tx[i] # s.tx[i]
       PROVE  /\ TxOff(s.chip, i) = last
              /\ t.tx[i].frag.id = g.id /\ t.tx[i].frag.dst = g.dst
  <2> DEFINE o == TxOff(s.chip, i)
  <2>1. ~ (o > last) /\ t.tx[i].frag = s.tx[i].frag /\ t.tx[i].enp = s.tx[i].enp
    BY <1>6, <1>12 DEF TxWalked
  <2>2. o \in TxIdx /\ o \in Nat /\ s.tx[i] = d[o]
    BY <1>10
  <2>3. o \in 0 .. m - 1
    <3> HIDE DEF o, m, last, d
    <3> QED BY <1>3, <1>5, <1>7, <2>1, <2>2
  <2>4. o = m - 1 /\ d[o].frag = [d[0].frag EXCEPT !.part = o + 1]
    BY <1>5, <1>12, <2>1, <2>2, <2>3
  <2>5. d[o].frag.id = d[0].frag.id /\ d[o].frag.dst = d[0].frag.dst
    <3>1. d[0].frag \in Frag
      BY <1>4
    <3> HIDE DEF d, o
    <3> QED BY <2>4, <3>1 DEF Frag
  <2> HIDE DEF d, o, m, last, g
  <2> QED BY <1>3, <2>1, <2>2, <2>4, <2>5 DEF o
<1>13. Passes(s, t, g, last, l)
  <2> HIDE DEF d, g, last, l
  <2> QED BY <1>3, <1>6, <1>7, <1>8, <1>9, <1>11, <1>12 DEF Passes, d, g
<1> HIDE DEF d
<1> QED BY <1>1, <1>13

(* The last descriptor of the frame comes back with ERR, or the frame is in *)
(* the loopback buffer: always in loopback, else if it echoes.              *)
LEMMA TransmitLoops ==
  ASSUME NEW s \in MachineType, ~ TxAt(s, TxLast(s)).empty,
         NEW i \in TxIdx, TxOff(s.chip, i) = TxLast(s), ~ Transmit(s).machine.tx[i].err,
         "LOOP" \in s.chip.mode \/ Echo(s.chip, TxFrame(s))
  PROVE  Transmit(s).loop = TxFrame(s)
<1> DEFINE last == TxLast(s)
           idle == Walked(s)
<1>1. ASSUME NEW tmd3 PROVE Finish(s, idle, TRUE, tmd3).tx[i].err
  <2> DEFINE bits == (IF Underran(s) THEN {"UFLO", "BUFF"} ELSE {}) \cup tmd3
             u == ReleaseTx(idle, last, TRUE, bits)
             v == SendComplete(idle, last, TRUE, bits)
             e == [idle.tx[i] EXCEPT !.own = FALSE, !.err = @ \/ TRUE,
                                     !.tmd3 = IF bits = {} THEN @ ELSE bits]
  <2>1. idle \in MachineType /\ idle.chip.txPos = s.chip.txPos /\ last \in TxIdx
    <3>1. idle.chip.txPos = s.chip.txPos
      BY MachineParts DEF Walked, Underrun, Raise, Lower, MachineType, ChipType
    <3> QED BY <3>1, FinishType, TxLastStops
  <2> HIDE DEF idle, bits
  <2>2. TxOff(idle.chip, i) = last
    BY <2>1 DEF TxOff
  <2>3. u.tx[i] = e
    <3>1. u.tx[i] = IF TxOff(idle.chip, i) > last THEN idle.tx[i]
                    ELSE IF TxOff(idle.chip, i) = last THEN e
                    ELSE [idle.tx[i] EXCEPT !.own = FALSE]
      BY <2>1 DEF ReleaseTx, MachineType
    <3>2. ~ (last > last)
      BY <2>1 DEF TxIdx
    <3> HIDE DEF u, e, last
    <3> QED BY <2>2, <3>1, <3>2
  <2>4. e.err
    <3>1. idle.tx[i] \in TxDesc
      BY <2>1, MachineParts
    <3> QED BY <3>1 DEF TxDesc
  <2>5. v.tx = u.tx
    BY <2>1 DEF SendComplete, MachineType, ReleaseTx
  <2>6. Finish(s, idle, TRUE, tmd3) = v
    BY DEF Finish, bits
  <2> HIDE DEF u, v, e
  <2> QED BY <2>3, <2>4, <2>5, <2>6
<1>2. CASE "LOOP" \notin s.chip.mode
  BY <1>2 DEF Transmit
<1>3. CASE "LOOP" \in s.chip.mode
  <2>1. \/ Transmit(s).machine = Finish(s, idle, TRUE, {"RTRY"})
        \/ Transmit(s).machine = Finish(s, idle, TRUE, {})
        \/ Transmit(s).loop = TxFrame(s)
    BY <1>3, Zenon DEF Transmit
  <2> HIDE DEF idle
  <2> QED BY <1>1, <2>1
<1> QED BY <1>2, <1>3

(* The frames of a self-test are of a size that echoes and is received in   *)
(* one buffer, and have an FCS.                                             *)
LEMMA OwnFrameFits ==
  ASSUME SelfTestFits, NEW s \in MachineType, s.chip.mode \in Modes,
         TxLast(s) + 1 \in 1 .. MaxFrags
  PROVE  LET f == TxFrame(s)
         IN  /\ f \in Frame /\ f # NoFrame /\ f.own /\ f.fcs
             /\ f.bytes \in 12 .. 100 /\ f.bytes <= RxBytes
<1> DEFINE n == TxLast(s) + 1
<1>1. /\ FragBytes \in Nat /\ RxBytes \in Nat /\ MaxFrags \in Nat
      /\ n \in Nat /\ 1 <= n /\ n <= MaxFrags
  BY RingAssumption, EnvAssumption
<1>2. /\ FragBytes >= 8 /\ MaxFrags * FragBytes + 4 <= 100
      /\ MaxFrags * FragBytes + 4 <= RxBytes
      /\ "DTCR" \notin s.chip.mode
  <2>1. MaxFrags * FragBytes \in Nat
    BY <1>1
  <2> QED BY <1>1, <2>1 DEF SelfTestFits, Smaller
<1>3. FragBytes <= n * FragBytes /\ n * FragBytes <= MaxFrags * FragBytes
      /\ n * FragBytes \in Nat /\ MaxFrags * FragBytes \in Nat
  <2> HIDE DEF n
  <2>1. \A x, y \in Nat : x * y \in Nat
    OBVIOUS
  <2>2. \A x, y, z \in Nat : x <= y => x * z <= y * z
    OBVIOUS
  <2>3. 1 * FragBytes = FragBytes /\ 1 \in Nat
    BY <1>1
  <2> QED BY <1>1, <2>1, <2>2, <2>3
<1>4. /\ TxFrame(s).own = TRUE /\ TxFrame(s).fcs = TRUE /\ NoFrame.own = FALSE
      /\ TxFrame(s).bytes = n * FragBytes + 4
  BY <1>2 DEF TxFrame, TxBytes, NoFrame
<1>5. TxFrame(s) \in Frame
  BY TxFrameType
<1> HIDE DEF n
<1> QED BY <1>1, <1>2, <1>3, <1>4, <1>5

(* What has come back stays.                                                *)
LEMMA TakenGrows ==
  ASSUME NEW s \in MachineType, NEW t, NEW f \in Frame,
         t.taken \in {s.taken, Append(s.taken, f)}
  PROVE  \A id : CameBack(s, id) => CameBack(t, id)
<1>1. s.taken \in Seq(Frame)
  BY MachineParts
<1>2. \A j \in DOMAIN s.taken : j \in DOMAIN t.taken /\ t.taken[j] = s.taken[j]
  <2>1. CASE t.taken = s.taken
    BY <2>1
  <2>2. CASE t.taken = Append(s.taken, f)
    <3>1. \A j \in 1 .. Len(s.taken) : Append(s.taken, f)[j] = s.taken[j]
      BY <1>1
    <3>2. DOMAIN s.taken = 1 .. Len(s.taken) /\ Len(s.taken) \in Nat
          /\ DOMAIN Append(s.taken, f) = 1 .. Len(s.taken) + 1
      BY <1>1
    <3>3. \A j \in 1 .. Len(s.taken) : j \in 1 .. Len(s.taken) + 1
      BY <3>2
    <3> QED BY <2>2, <3>1, <3>2, <3>3, Zenon
  <2> QED BY <2>1, <2>2
<1> QED BY <1>2 DEF CameBack

(* lance_transmit and, from the loopback buffer, lance_receive: the round   *)
(* of one frame.                                                            *)
LEMMA TransmitTurns ==
  ASSUME SelfTestFits, NEW s \in MachineType, s.tx[s.chip.txPos].own, "TXON" \in s.chip.csr0,
         NEW h, NEW b \in Nat, NEW dn \in Nat, NEW q \in Nat, NEW dst, q <= MaxTx,
         Sending(s, h, b, dn, q, dst), NEW p \in 0 .. MaxRx, Round(s, p, Latest(b, q))
  PROVE  LET r == Transmit(s)
         IN  Round(IF r.loop = NoFrame THEN r.machine ELSE Receive(r.machine, r.loop),
                   p, Latest(b, q))
<1>t. PICK t \in MachineType : t = Transmit(s).machine
  BY TransmitType
<1>1. PICK f, loop : t = Transmit(s).machine /\ f = TxFrame(s) /\ loop = Transmit(s).loop
  BY <1>t
<1>2. PICK x : x = IF loop = NoFrame THEN t ELSE Receive(t, loop)
  OBVIOUS
<1>3. PICK g, last, l : g = f.frags[1] /\ last = TxLast(s) /\ l = Latest(b, q)
  OBVIOUS
<1>4. /\ TxWalked(s, t, last) /\ Stays(s.chip, t.chip)
      /\ ~ TxAt(s, last).empty /\ last + 1 = g.of
      /\ g = s.tx[s.chip.txPos].frag /\ g.id <= l
      /\ \A i \in TxIdx :
           t.tx[i].own => s.tx[i].own /\ t.tx[i] = s.tx[i] /\ g.id < s.tx[i].frag.id
      /\ \A i \in TxIdx :
           t.tx[i].enp /\ ~ t.tx[i].own
             => \/ t.tx[i] = s.tx[i]
                \/ TxOff(s.chip, i) = last /\ t.tx[i].frag.id = g.id /\ t.tx[i].frag.dst = g.dst
  <2>1. Passes(s, t, g, last, l)
    BY <1>1, <1>3, TransmitPasses
  <2> QED BY <2>1 DEF Passes
<1>5. PICK m \in 0 .. l : Unsent(s, m) /\ Ahead(s, RxLen - (p + m))
  BY <1>3 DEF Round
<1>6. /\ s.chip.padr /\ s.chip.mode \in Modes /\ Hears(s.chip) /\ Looped(s)
      /\ s.chip \in ChipType /\ s.chip.txPos \in TxIdx /\ s.chip.rxPos \in RxIdx
      /\ RxLen \in Nat \ {0} /\ RxIdx = 0 .. RxLen - 1 /\ MaxTx \in Nat /\ MaxRx \in Nat
      /\ MaxTx + MaxRx <= RxLen
  BY RingAssumption, EnvAssumption, MachineParts DEF Round, ChipType, RxIdx, SelfTestFits
<1>7. /\ m < g.id /\ g.dst \in {"self", "bcast"} /\ last + 1 \in 1 .. MaxFrags /\ g.id \in Nat
  <2>1. g \in Frag
    BY <1>4, <1>6, MachineParts DEF TxDesc
  <2> QED BY <1>4, <1>5, <1>6, <2>1 DEF Unsent, Frag, SelfTestFits
<1>8. /\ f \in Frame /\ f # NoFrame /\ f.own /\ f.fcs
      /\ f.bytes \in 12 .. 100 /\ f.bytes <= RxBytes
  BY <1>1, <1>3, <1>6, <1>7, OwnFrameFits
<1>9. l \in Int /\ l <= MaxTx /\ g.id \in 0 .. l /\ p + m < RxLen /\ p \in Nat /\ m \in Nat
  <2>1. l \in Int /\ l <= q
    BY <1>3 DEF Latest
  <2> QED BY <1>4, <1>5, <1>6, <1>7, <2>1
<1>10. loop = NoFrame \/ loop = f
  <2>1. Transmit(s).loop \in {NoFrame, TxFrame(s)}
    BY TransmitOutcomes, Zenon
  <2> QED BY <1>1, <2>1
<1>11. t.rx = s.rx /\ t.chip.rxPos = s.chip.rxPos /\ t.taken = s.taken
  BY <1>4 DEF TxWalked
<1>12. /\ x.tx = t.tx /\ Stays(t.chip, x.chip) /\ x \in MachineType
       /\ \/ x.rx = t.rx /\ x.chip.rxPos = t.chip.rxPos /\ x.taken = t.taken
          \/ RxWalked(t, x, 0) /\ x.taken \in {t.taken, Append(t.taken, f)}
  <2>1. CASE x = t
    BY <2>1 DEF Stays
  <2>2. CASE x = Receive(t, f)
    BY <1>8, <2>2, ReceiveOne, ReceiveWalks, ReceiveType
  <2> QED BY <1>2, <1>10, <2>1, <2>2
<1>13. x.chip.padr /\ x.chip.mode = s.chip.mode /\ Hears(x.chip)
       /\ ("RXON" \in t.chip.csr0 <=> "RXON" \in s.chip.csr0) /\ t.chip.mode = s.chip.mode
       /\ t.chip.padr
  BY <1>4, <1>6, <1>12 DEF Stays, Settled, Hears
<1>14. Ahead(x, RxLen - (p + g.id))
  <2>1. Ahead(t, RxLen - (p + m))
    BY <1>5, <1>11 DEF Ahead
  <2>2. /\ RxLen - (p + m) \in Int /\ RxLen - (p + m) <= RxLen
        /\ \A k \in RxIdx : k < RxLen - (p + g.id) => k < RxLen - (p + m) - 1
        /\ \A k \in RxIdx : k < RxLen - (p + g.id) => k < RxLen - (p + m)
    BY <1>6, <1>7, <1>9
  <2>3. CASE x.rx = t.rx /\ x.chip.rxPos = t.chip.rxPos
    BY <2>1, <2>2, <2>3 DEF Ahead
  <2>4. CASE RxWalked(t, x, 0)
    <3>1. Ahead(x, RxLen - (p + m) - 1)
      BY <1>12, <2>1, <2>2, <2>4, AheadShifts
    <3> QED BY <2>2, <3>1 DEF Ahead
  <2> QED BY <1>12, <2>3, <2>4
<1>15. Unsent(x, g.id)
  BY <1>4, <1>5, <1>12 DEF Unsent
<1>16. \A id : CameBack(s, id) => CameBack(x, id)
  BY <1>8, <1>11, <1>12, TakenGrows
<1>17. ASSUME NEW i \in TxIdx, x.tx[i].enp, ~ x.tx[i].own, ~ x.tx[i].err,
              "LOOP" \in x.chip.mode \/ x.tx[i].frag.dst = "self"
       PROVE  CameBack(x, x.tx[i].frag.id)
  <2>1. CASE t.tx[i] = s.tx[i]
    <3>1. CameBack(s, s.tx[i].frag.id)
      BY <1>6, <1>12, <1>13, <1>17, <2>1 DEF Looped
    <3> QED BY <1>12, <1>16, <2>1, <3>1
  <2>2. CASE t.tx[i] # s.tx[i]
    <3>1. TxOff(s.chip, i) = last /\ t.tx[i].frag.id = g.id /\ t.tx[i].frag.dst = g.dst
      BY <1>4, <1>12, <1>17, <2>2
    <3>2. "LOOP" \in s.chip.mode \/ g.dst = "self"
      BY <1>12, <1>13, <1>17, <3>1
    <3>3. "LOOP" \in s.chip.mode \/ Echo(s.chip, f)
      BY <1>3, <1>6, <1>8, <3>2 DEF Echo, SelfAddressed, DstOf
    <3>4. loop = f
      BY <1>1, <1>3, <1>4, <1>12, <1>17, <3>1, <3>3, TransmitLoops
    <3>5. x = Receive(t, f)
      BY <1>2, <1>8, <3>4
    <3>6. Accepts(t.chip, f)
      <4>1. AddressFilter(t.chip, f)
        BY <1>3, <1>7, <1>13 DEF AddressFilter, SelfAddressed, DstOf
      <4>2. CASE "LOOP" \notin s.chip.mode
        BY <1>3, <1>13, <3>2, <4>1, <4>2 DEF Accepts, SelfAddressed, DstOf
      <4>3. CASE "LOOP" \in s.chip.mode /\ "INTL" \in s.chip.mode
        BY <1>13, <4>1, <4>3 DEF Accepts, InternalLoop
      <4>4. CASE "LOOP" \in s.chip.mode /\ "INTL" \notin s.chip.mode
        <5>1. "DRX" \notin s.chip.mode
          BY <1>6, <4>4 DEF SelfTestFits
        <5>2. "RXON" \in t.chip.csr0
          BY <1>6, <1>13, <5>1 DEF Hears
        <5> QED BY <4>1, <5>2 DEF Accepts
      <4> QED BY <4>2, <4>3, <4>4
    <3>7. t.rx[t.chip.rxPos].own
      <4>1. 0 \in RxIdx /\ 0 < RxLen - (p + m)
        BY <1>6, <1>9
      <4>2. s.rx[Adv(s.chip.rxPos, 0, RxLen)].own
        BY <1>5, <4>1 DEF Ahead
      <4>3. Adv(s.chip.rxPos, 0, RxLen) = s.chip.rxPos
        BY <1>6 DEF Adv
      <4> QED BY <1>11, <4>2, <4>3
    <3>8. x.taken = Append(s.taken, f)
      BY <1>8, <1>11, <3>5, <3>6, <3>7, ReceiveOne
    <3>9. s.taken \in Seq(Frame)
      BY MachineParts
    <3>10. /\ Len(s.taken) + 1 \in DOMAIN x.taken
           /\ x.taken[Len(s.taken) + 1] = f
      BY <1>8, <3>8, <3>9
    <3> QED BY <1>3, <1>8, <1>12, <3>1, <3>10 DEF CameBack
  <2> QED BY <2>1, <2>2
<1>18. Round(x, p, l)
  BY <1>6, <1>9, <1>13, <1>14, <1>15, <1>17 DEF Round, Looped
<1> QED BY <1>1, <1>2, <1>3, <1>18

-----------------------------------------------------------------------------
(* A round outlives what touches neither the rings nor the address, and a   *)
(* frame from the wire takes one buffer more.                               *)
LEMMA SameRound ==
  ASSUME NEW s, NEW t, NEW p, NEW l,
         s.tx = t.tx, s.rx = t.rx, s.taken = t.taken, s.chip.rxPos = t.chip.rxPos,
         s.chip.mode = t.chip.mode, s.chip.padr = t.chip.padr,
         Hears(s.chip) => Hears(t.chip), Round(s, p, l)
  PROVE  Round(t, p, l)
<1>1. \A m : Unsent(s, m) <=> Unsent(t, m)
  BY DEF Unsent
<1>2. \A n : Ahead(s, n) <=> Ahead(t, n)
  BY DEF Ahead
<1>3. Looped(s) <=> Looped(t)
  BY DEF Looped, CameBack
<1> QED BY <1>1, <1>2, <1>3 DEF Round

LEMMA ReceiveTurns ==
  ASSUME NEW s \in MachineType, NEW f \in Frame, f.bytes <= RxBytes,
         NEW p \in Nat, NEW l \in Int, Round(s, p, l)
  PROVE  Round(Recv(s, f), p + 1, l)
<1>1. PICK m \in 0 .. l : Unsent(s, m) /\ Ahead(s, RxLen - (p + m))
  BY DEF Round
<1>2. RxLen \in Nat \ {0} /\ RxIdx = 0 .. RxLen - 1 /\ m \in Nat
  BY <1>1, RingAssumption DEF RxIdx
<1>3. /\ RxLen - (p + m) \in Int /\ RxLen - (p + m) <= RxLen
      /\ RxLen - (p + 1 + m) = RxLen - (p + m) - 1
      /\ \A k \in RxIdx : k < RxLen - (p + m) - 1 => k < RxLen - (p + m)
  BY <1>2
<1>4. CASE Recv(s, f) = s
  <2>1. Ahead(s, RxLen - (p + 1 + m))
    BY <1>1, <1>3 DEF Ahead
  <2> QED BY <1>1, <1>4, <2>1 DEF Round
<1>5. CASE Recv(s, f) # s
  <2>1. PICK t \in MachineType : t = Receive(s, f)
    BY ReceiveType
  <2>2. t = Recv(s, f)
    BY <1>5, <2>1 DEF Recv
  <2>3. /\ t.tx = s.tx /\ Stays(s.chip, t.chip)
        /\ \/ t.rx = s.rx /\ t.chip.rxPos = s.chip.rxPos /\ t.taken = s.taken
           \/ RxWalked(s, t, 0) /\ t.taken \in {s.taken, Append(s.taken, f)}
    BY <2>1, ReceiveOne, ReceiveWalks
  <2>4. t.chip.padr /\ t.chip.mode = s.chip.mode /\ t.chip.mode \in Modes /\ Hears(t.chip)
    BY <2>3 DEF Round, Stays, Settled, Hears
  <2>5. Ahead(t, RxLen - (p + 1 + m))
    <3>1. CASE t.rx = s.rx /\ t.chip.rxPos = s.chip.rxPos
      BY <1>1, <1>3, <3>1 DEF Ahead
    <3>2. CASE RxWalked(s, t, 0)
      BY <1>1, <1>3, <3>2, AheadShifts
    <3> QED BY <2>3, <3>1, <3>2
  <2>6. Unsent(t, m)
    BY <1>1, <2>3 DEF Unsent
  <2>7. \A id : CameBack(s, id) => CameBack(t, id)
    BY <2>3, TakenGrows
  <2>8. Looped(t)
    <3>1. Looped(s)
      BY DEF Round
    <3> QED BY <2>3, <2>4, <2>7, <3>1 DEF Looped
  <2> QED BY <1>1, <2>2, <2>4, <2>5, <2>6, <2>8 DEF Round
<1> QED BY <1>4, <1>5

(* What a handler hands on with a round under way.                          *)
Turns(s, t) ==
  \A h \in TxIdx, b \in Nat, dn \in Nat, q \in Nat, dst \in Dst, p \in 0 .. MaxRx :
    q <= MaxTx /\ Sending(s, h, b, dn, q, dst) /\ Round(s, p, Latest(b, q))
      => Round(t, p, Latest(b, q))

Carries(s, t) == Conveys(s, t) /\ Turns(s, t)

LEMMA CarriesTrans ==
  ASSUME NEW s, NEW t, NEW u, Carries(s, t), Carries(t, u)
  PROVE  Carries(s, u)
<1>1. Conveys(s, u)
  BY ConveysTrans DEF Carries
<1>2. Turns(s, u)
  <2> SUFFICES ASSUME NEW h \in TxIdx, NEW b \in Nat, NEW dn \in Nat, NEW q \in Nat,
                      NEW dst \in Dst, NEW p \in 0 .. MaxRx,
                      q <= MaxTx, Sending(s, h, b, dn, q, dst), Round(s, p, Latest(b, q))
               PROVE  Round(u, p, Latest(b, q))
    BY DEF Turns
  <2>1. Sending(t, h, b, dn, q, dst)
    BY DEF Carries, Conveys
  <2>2. Round(t, p, Latest(b, q))
    BY DEF Carries, Turns
  <2> QED BY <2>1, <2>2 DEF Carries, Turns
<1> QED BY <1>1, <1>2 DEF Carries

LEMMA SameCarries ==
  ASSUME NEW s, NEW t, Alike(s, t), Hears(s.chip) => Hears(t.chip),
         "STOP" \in t.chip.csr0 => "STOP" \in s.chip.csr0
  PROVE  Carries(s, t)
<1>1. Conveys(s, t)
  BY SameConveys DEF Alike
<1>2. \A p, l : Round(s, p, l) => Round(t, p, l)
  BY SameRound DEF Alike
<1> QED BY <1>1, <1>2 DEF Carries, Turns

LEMMA TransmitPollTurns ==
  ASSUME SelfTestFits, NEW s \in MachineType
  PROVE  Carries(s, TransmitPoll(s))
<1> DEFINE t == [s EXCEPT !.chip = TakeDemand(@)]
           r == Transmit(t)
           x == IF r.loop = NoFrame THEN r.machine ELSE Receive(r.machine, r.loop)
<1>1. /\ t \in MachineType /\ t.tx = s.tx /\ Alike(s, t)
      /\ t.chip.txPos = s.chip.txPos
      /\ t.chip.csr0 = s.chip.csr0 \ {"TDMD"}
  <2>1. TakeDemand(s.chip) \in ChipType
    BY MachineParts, ChipOpsType
  <2>2. t \in MachineType
    BY <2>1, MachineParts
  <2>3. /\ t.tx = s.tx /\ t.rx = s.rx /\ t.wire = s.wire /\ t.taken = s.taken
        /\ t.chip.txPos = s.chip.txPos /\ t.chip.rxPos = s.chip.rxPos
        /\ t.chip.csr0 = s.chip.csr0 \ {"TDMD"}
        /\ t.chip.mode = s.chip.mode /\ t.chip.padr = s.chip.padr
    BY MachineParts DEF TakeDemand, Lower, MachineType, ChipType
  <2> HIDE DEF t
  <2> QED BY <2>2, <2>3 DEF Alike
<1> HIDE DEF t
<1>2. Carries(s, s) /\ Carries(s, t)
  <2>1. Hears(s.chip) => Hears(t.chip)
    BY <1>1 DEF Hears, Alike
  <2> QED BY <1>1, <2>1, SameCarries DEF Carries, Conveys, Turns
<1>3. Conveys(s, TransmitPoll(s))
  BY TransmitPollConveys
<1>4. ASSUME s.tx[s.chip.txPos].own,
             NEW h \in TxIdx, NEW b \in Nat, NEW dn \in Nat, NEW q \in Nat,
             NEW dst \in Dst, Sending(s, h, b, dn, q, dst)
      PROVE  ~ Continuation(s.tx[s.chip.txPos])
  <2>1. Sending(t, h, b, dn, q, dst)
    BY <1>2, <1>4 DEF Carries, Conveys
  <2>2. t.tx[t.chip.txPos].stp
    BY <1>1, <1>4, <2>1, TransmitSends
  <2> QED BY <1>1, <2>2 DEF Continuation
<1>5. ASSUME s.tx[s.chip.txPos].own, "TXON" \in s.chip.csr0
      PROVE  Turns(s, x)
  <2> SUFFICES ASSUME NEW h \in TxIdx, NEW b \in Nat, NEW dn \in Nat, NEW q \in Nat,
                      NEW dst \in Dst, NEW p \in 0 .. MaxRx,
                      q <= MaxTx, Sending(s, h, b, dn, q, dst), Round(s, p, Latest(b, q))
               PROVE  Round(x, p, Latest(b, q))
    BY DEF Turns
  <2>1. Sending(t, h, b, dn, q, dst) /\ Round(t, p, Latest(b, q))
    BY <1>2 DEF Carries, Conveys, Turns
  <2>2. "TXON" \in t.chip.csr0 /\ t.tx[t.chip.txPos].own
    BY <1>1, <1>5
  <2> QED BY <1>1, <2>1, <2>2, TransmitTurns
<1>6. \/ TransmitPoll(s) = s
      \/ TransmitPoll(s) = t
      \/ s.tx[s.chip.txPos].own /\ Continuation(s.tx[s.chip.txPos])
      \/ /\ s.tx[s.chip.txPos].own /\ "TXON" \in s.chip.csr0
         /\ TransmitPoll(s) = x
  BY Zenon DEF TransmitPoll, t
<1> HIDE DEF x
<1>7. CASE s.tx[s.chip.txPos].own /\ Continuation(s.tx[s.chip.txPos])
  <2>1. Turns(s, TransmitPoll(s))
    BY <1>4, <1>7, Zenon DEF Turns
  <2> QED BY <1>3, <2>1 DEF Carries
<1>8. CASE s.tx[s.chip.txPos].own /\ "TXON" \in s.chip.csr0 /\ TransmitPoll(s) = x
  BY <1>3, <1>5, <1>8 DEF Carries
<1> QED BY <1>2, <1>6, <1>7, <1>8

LEMMA TickChipTurns ==
  ASSUME SelfTestFits, NEW s \in MachineType
  PROVE  Carries(s, TickChip(s))
<1>1. s.chip \in ChipType
  BY MachineParts
<1>2. CASE s.chip.poll > 1
  <2> DEFINE t == [s EXCEPT !.chip.poll = @ - 1]
  <2>1. Alike(s, t) /\ t.chip.csr0 = s.chip.csr0
    BY <1>1 DEF Alike, MachineType, ChipType
  <2>2. TickChip(s) = t
    BY <1>2 DEF TickChip
  <2> HIDE DEF t
  <2>3. Hears(s.chip) => Hears(t.chip)
    BY <2>1 DEF Hears, Alike
  <2> QED BY <2>1, <2>2, <2>3, SameCarries
<1>3. CASE ~ (s.chip.poll > 1)
  <2> DEFINE t == [s EXCEPT !.chip.poll = PollTicks]
  <2>1. t \in MachineType
    <3>1. [s.chip EXCEPT !.poll = PollTicks] \in ChipType
      BY <1>1 DEF ChipType, PollTicks
    <3> QED BY <3>1, MachineParts
  <2>2. Alike(s, t) /\ t.chip.csr0 = s.chip.csr0
    BY <1>1 DEF Alike, MachineType, ChipType
  <2>3. TickChip(s) = TransmitPoll(t)
    BY <1>3 DEF TickChip
  <2> HIDE DEF t
  <2>4. Hears(s.chip) => Hears(t.chip)
    BY <2>2 DEF Hears, Alike
  <2>5. Carries(s, t)
    BY <2>2, <2>4, SameCarries
  <2>6. Carries(t, TransmitPoll(t))
    BY <2>1, TransmitPollTurns
  <2> QED BY <2>3, <2>5, <2>6, CarriesTrans
<1> QED BY <1>2, <1>3

LEMMA StartTurns ==
  ASSUME SelfTestFits, NEW s \in MachineType, NEW data \in SUBSET Csr0Bits
  PROVE  \A t \in {DoStrt(s, data), DoTdmd(s, data)} : Carries(s, t)
<1> TAKE t \in {DoStrt(s, data), DoTdmd(s, data)}
<1>1. CASE t = s
  BY <1>1 DEF Carries, Conveys, Turns
<1>2. ASSUME NEW u \in MachineType, Alike(s, u), Started(s.chip, u.chip), t = TransmitPoll(u)
      PROVE  Carries(s, t)
  <2>1. Carries(s, u)
    BY <1>2, SameCarries DEF Started
  <2>2. Carries(u, t)
    BY <1>2, TransmitPollTurns
  <2> QED BY <2>1, <2>2, CarriesTrans
<1> QED BY <1>1, <1>2, StartSteps, Zenon

LEMMA TailTurns ==
  ASSUME SelfTestFits, NEW s \in MachineType, NEW data \in SUBSET Csr0Bits,
         NEW s3 \in MachineType, NEW s4 \in MachineType, NEW t,
         s3 = DoStrt(s, data), s4 = DoTdmd(s3, data), Alike(s4, t),
         \A bit \in {"INIT", "RINT", "STOP", "STRT", "TXON", "RXON", "IDON", "TINT"} :
           bit \in t.chip.csr0 <=> bit \in s4.chip.csr0
  PROVE  Carries(s, t)
<1>1. Carries(s, s3) /\ Carries(s3, s4)
  BY StartTurns
<1>2. Carries(s4, t)
  <2>1. Hears(s4.chip) => Hears(t.chip)
    BY DEF Hears, Alike
  <2> QED BY <2>1, SameCarries
<1>3. Carries(s, s4)
  BY <1>1, CarriesTrans
<1> QED BY <1>2, <1>3, CarriesTrans

LEMMA WriteCsr0Turns ==
  ASSUME SelfTestFits, NEW s \in MachineType, NEW data \in SUBSET Csr0Bits,
         NEW block \in BlockType, "STOP" \notin data, "INIT" \notin data
  PROVE  Carries(s, WriteCsr0(s, data, block))
<1>1. PICK t : t = WriteCsr0(s, data, block)
  OBVIOUS
<1>2. PICK s1, s2, s3, s4 \in MachineType :
        /\ Alike(s, s1) /\ s1.chip.csr0 = s.chip.csr0 \ Acked(data)
        /\ s2 = DoInit(s1, data, block)
        /\ s3 = DoStrt(s2, data)
        /\ s4 = DoTdmd(s3, data)
        /\ Alike(s4, t)
        /\ \A bit \in {"INIT", "RINT", "STOP", "STRT", "TXON", "RXON", "IDON", "TINT"} :
             bit \in t.chip.csr0 <=> bit \in s4.chip.csr0
  BY <1>1, WriteCsr0Steps
<1>3. Carries(s1, t)
  <2>1. s2 = s1
    BY <1>2 DEF DoInit
  <2> QED BY <1>2, <2>1, TailTurns
<1>4. Carries(s, s1)
  <2>1. \A bit \in {"TXON", "RXON"} : bit \in s1.chip.csr0 <=> bit \in s.chip.csr0
    BY <1>2 DEF Acked, Acks, Causes, Faults
  <2>2. Hears(s.chip) => Hears(s1.chip)
    BY <1>2, <2>1 DEF Hears, Alike
  <2> QED BY <1>2, <2>2, SameCarries
<1> QED BY <1>1, <1>3, <1>4, CarriesTrans

LEMMA InitTurns ==
  ASSUME SelfTestFits, NEW s \in MachineType, NEW data \in SUBSET Csr0Bits,
         NEW block \in BlockType, "STOP" \notin data, "INIT" \in data, data \cap Acks = {},
         "INIT" \notin s.chip.csr0
  PROVE  \E u \in MachineType :
           /\ u.tx = s.tx /\ u.rx = s.rx /\ u.wire = s.wire
           /\ u.chip.txPos = 0 /\ u.chip.rxPos = 0
           /\ u.chip.mode = block.mode /\ u.chip.padr /\ "TXON" \notin u.chip.csr0
           /\ Carries(u, WriteCsr0(s, data, block))
<1>1. PICK t : t = WriteCsr0(s, data, block)
  OBVIOUS
<1>2. PICK s1, s2, s3, s4 \in MachineType :
        /\ Alike(s, s1) /\ s1.chip.csr0 = s.chip.csr0 \ Acked(data)
        /\ s2 = DoInit(s1, data, block)
        /\ s3 = DoStrt(s2, data)
        /\ s4 = DoTdmd(s3, data)
        /\ Alike(s4, t)
        /\ \A bit \in {"INIT", "RINT", "STOP", "STRT", "TXON", "RXON", "IDON", "TINT"} :
             bit \in t.chip.csr0 <=> bit \in s4.chip.csr0
  BY <1>1, WriteCsr0Steps
<1>3. Carries(s2, t)
  BY <1>2, TailTurns
<1>4. s1.chip.csr0 = s.chip.csr0
  BY <1>2 DEF Acked
<1>5. s2 = [s1 EXCEPT !.chip = Initialize(@, block)] /\ s1.chip \in ChipType
  BY <1>2, <1>4, MachineParts DEF DoInit
<1>6. /\ s2.tx = s1.tx /\ s2.rx = s1.rx /\ s2.wire = s1.wire
      /\ s2.chip.txPos = 0 /\ s2.chip.rxPos = 0
      /\ s2.chip.mode = block.mode /\ s2.chip.padr
      /\ s2.chip.csr0 = (s1.chip.csr0 \ {"INIT", "STOP", "STRT", "TXON", "RXON"})
                          \cup {"IDON", "INTR"}
  BY <1>5, ZenonT(40) DEF Initialize, UpdateInterrupts, MachineType, ChipType
<1>7. s2.tx = s.tx /\ s2.rx = s.rx /\ s2.wire = s.wire
  BY <1>2, <1>6 DEF Alike
<1> QED BY <1>1, <1>2, <1>3, <1>6, <1>7

(* On fresh rings a round begins.                                           *)
LEMMA FreshRound ==
  ASSUME NEW s, s.tx = FreshTx, s.rx = FreshRx, s.chip.rxPos = 0, s.chip.padr,
         s.chip.mode \in Modes, "TXON" \notin s.chip.csr0, NEW p \in Nat, NEW l \in Nat
  PROVE  Round(s, p, l)
<1>1. \A i \in TxIdx : ~ s.tx[i].own /\ ~ s.tx[i].enp
  BY DEF FreshTx
<1>2. Looped(s) /\ Unsent(s, 0) /\ Hears(s.chip)
  BY <1>1 DEF Looped, Unsent, Hears
<1>3. \A k \in RxIdx : Adv(0, k, RxLen) \in RxIdx
  BY RingAssumption DEF Adv, RxIdx
<1>4. Ahead(s, RxLen - (p + 0))
  BY <1>3 DEF Ahead, FreshRx, EmptyRx
<1>5. 0 \in 0 .. l
  OBVIOUS
<1> QED BY <1>2, <1>4, <1>5 DEF Round

-----------------------------------------------------------------------------
(* The inductive invariant: while the rings are in use a round is under     *)
(* way, of as many frames as have been sent and queued.                     *)
Rounding == Round(Machine, heard, Latest(drv.build, drv.queued))

LoopInv ==
  /\ drv.queued <= MaxTx /\ heard <= MaxRx
  /\ drv.phase # "down" => drv.block.mode \in Modes
  /\ drv.build > 0 => drv.dst \in OwnDst
  /\ Running => Rounding

LEMMA LoopInit == Init => LoopInv
BY EnvAssumption DEF Init, LoopInv, Running

LEMMA LoopParts ==
  ASSUME TypeOK
  PROVE  /\ MaxTx \in Nat /\ MaxRx \in Nat /\ drv.queued \in Nat /\ heard \in Nat
         /\ drv.dst \in Dst /\ Latest(drv.build, drv.queued) \in Int
         /\ drv.build \in 0 .. MaxFrags /\ MaxFrags \in Nat
BY EnvAssumption, RingAssumption, StateParts DEF TypeOK, DrvType, Latest

(* A handler with the rings in use, the driver's place in them unchanged.   *)
LEMMA CarryKeepsLoop ==
  ASSUME TypeOK, WireInv, LoopInv, NEW t \in MachineType, Becomes(t), Carries(Machine, t),
         Running' => Running, heard' = heard,
         drv'.phase # "down" => drv.phase # "down", drv'.block = drv.block,
         drv'.build = drv.build, drv'.queued = drv.queued, drv'.dst = drv.dst
  PROVE  LoopInv'
<1>1. Machine' = t
  BY BecomesIs
<1>2. ASSUME Running' PROVE Rounding'
  <2>1. Sending(Machine, drv.head, drv.build, drv.done, drv.queued, drv.dst) /\ Rounding
    BY <1>2 DEF WireInv, LoopInv
  <2>2. heard \in 0 .. MaxRx /\ drv.queued <= MaxTx
    BY LoopParts DEF LoopInv
  <2>3. Round(t, heard, Latest(drv.build, drv.queued))
    BY <2>1, <2>2, StateParts, LoopParts DEF Carries, Turns, Rounding
  <2> QED BY <1>1, <2>3 DEF Rounding
<1> QED BY <1>2 DEF LoopInv

(* A step that touches neither the chip nor the transmit side, and gives    *)
(* the chip receive buffers at most.                                        *)
LEMMA AsideKeepsLoop ==
  ASSUME TypeOK, LoopInv, chip' = chip, tx' = tx, taken' = taken, heard' = heard,
         \A i \in RxIdx : rx[i].own => rx'[i].own,
         drv'.phase = drv.phase, drv'.block = drv.block,
         drv'.build = drv.build, drv'.queued = drv.queued, drv'.dst = drv.dst
  PROVE  LoopInv'
<1>1. /\ Machine'.chip = Machine.chip /\ Machine'.tx = Machine.tx
      /\ Machine'.taken = Machine.taken /\ Machine'.rx = rx' /\ Machine.rx = rx
  BY DEF Machine
<1>2. \A n : Ahead(Machine, n) => Ahead(Machine', n)
  <2>1. \A k \in RxIdx : Adv(Machine.chip.rxPos, k, RxLen) \in RxIdx
    <3>1. Machine.chip.rxPos \in 0 .. RxLen - 1 /\ RxLen \in Nat \ {0}
          /\ RxIdx = 0 .. RxLen - 1 /\ \A k \in RxIdx : k \in 0 .. RxLen
      BY RingAssumption, StateParts DEF ChipType, RxIdx
    <3> QED BY <3>1, AdvInRing
  <2> QED BY <1>1, <2>1 DEF Ahead
<1>3. \A m : Unsent(Machine, m) => Unsent(Machine', m)
  BY <1>1 DEF Unsent
<1>4. Looped(Machine) => Looped(Machine')
  BY <1>1 DEF Looped, CameBack
<1>5. Rounding => Rounding'
  BY <1>1, <1>2, <1>3, <1>4 DEF Rounding, Round
<1> QED BY <1>5 DEF LoopInv, Running

(* The main loop's handlers.                                                *)
LEMMA LoopLoop ==
  ASSUME SelfTestFits, TypeOK, WireInv, LoopInv
  PROVE  (Tick => LoopInv') /\ (Net => LoopInv')
<1>1. ASSUME Tick PROVE LoopInv'
  <2>1. PICK t \in MachineType : t = TickChip(Machine)
    BY StateParts, TickChipType
  <2>2. Becomes(t) /\ drv' = drv /\ heard' = heard
    BY <1>1, <2>1 DEF Tick
  <2>3. Carries(Machine, t)
    BY <2>1, StateParts, TickChipTurns
  <2> QED BY <2>2, <2>3, CarryKeepsLoop DEF Running
<1>2. ASSUME Net PROVE LoopInv'
  <2>1. PICK len \in WireLens, dst \in WireDst : WireFrame(len, dst)
    BY <1>2 DEF Net
  <2>2. PICK f \in Frame : f = GlueFrame(len, dst)
    BY GlueFrameType DEF TypeOK
  <2>3. PICK t \in MachineType : t = Recv(Machine, f)
    BY <2>2, StateParts, ReceiveType
  <2>4. Becomes(t) /\ drv' = drv /\ heard < MaxRx /\ heard' = heard + 1
    BY <2>1, <2>2, <2>3 DEF WireFrame
  <2>5. Machine' = t
    BY <2>4, BecomesIs
  <2>6. f.bytes <= RxBytes
    <3>1. len \in Nat /\ len + 4 <= RxBytes /\ RxBytes \in Nat
      BY EnvAssumption, RingAssumption DEF SelfTestFits
    <3>2. f.bytes \in {len + 4, len}
      BY <2>2 DEF GlueFrame
    <3> QED BY <3>1, <3>2
  <2>7. Rounding => Rounding'
    BY <2>3, <2>4, <2>5, <2>6, StateParts, LoopParts, ReceiveTurns DEF Rounding
  <2> QED BY <2>4, <2>7, LoopParts DEF LoopInv, Running
<1> QED BY <1>1, <1>2

(* The driver's writes with the rings in use.                               *)
LEMMA LoopWrites ==
  ASSUME SelfTestFits, TypeOK, RingInv, WireInv, LoopInv
  PROVE  /\ \A data \in StartWords : WriteStart(data) => LoopInv'
         /\ Demand => LoopInv'
         /\ IsrAck => LoopInv'
<1>1. ASSUME NEW data \in SUBSET Csr0Bits, Csr0Write(data), "STOP" \notin data,
             "INIT" \notin data, Running, heard' = heard, drv'.block = drv.block,
             drv'.build = drv.build, drv'.queued = drv.queued, drv'.dst = drv.dst
      PROVE  LoopInv'
  <2>1. PICK t \in MachineType : t = WriteCsr0(Machine, data, drv.block)
    BY StateParts, WriteCsr0Type
  <2>2. Becomes(t) /\ Carries(Machine, t)
    BY <1>1, <2>1, StateParts, WriteCsr0Turns DEF Csr0Write
  <2> QED BY <1>1, <2>2, CarryKeepsLoop DEF Running
<1>2. ASSUME NEW data \in StartWords, WriteStart(data) PROVE LoopInv'
  <2>1. data \in SUBSET Csr0Bits /\ "STOP" \notin data /\ "INIT" \notin data
    BY DEF StartWords, Csr0Bits
  <2>2. /\ Running /\ Csr0Write(data) /\ heard' = heard /\ drv'.block = drv.block
        /\ drv'.build = drv.build /\ drv'.queued = drv.queued /\ drv'.dst = drv.dst
    BY <1>2, StateParts DEF WriteStart, Running, DrvType
  <2> QED BY <1>1, <2>1, <2>2
<1>3. ASSUME Demand PROVE LoopInv'
  <2>1. PICK data : data = {"TDMD", "INEA"}
    OBVIOUS
  <2>2. data \in SUBSET Csr0Bits /\ "STOP" \notin data /\ "INIT" \notin data
    BY <2>1 DEF Csr0Bits
  <2>3. Running /\ Csr0Write(data) /\ drv' = drv /\ heard' = heard
    BY <1>3, <2>1 DEF Demand, Running
  <2> QED BY <1>1, <2>2, <2>3
<1>4. ASSUME IsrAck PROVE LoopInv'
  <2>1. PICK data : data = drv.seen \cup {"INEA"}
    OBVIOUS
  <2>2. data \in SUBSET Csr0Bits /\ "STOP" \notin data /\ "INIT" \notin data
    BY <2>1, StateParts DEF Csr0Bits, DrvType, Acks, Causes, Faults
  <2>3. Running /\ Csr0Write(data) /\ heard' = heard
    BY <1>4, <2>1 DEF IsrAck, RingInv, IsrRunsUp, Running
  <2>4. /\ drv'.block = drv.block
        /\ drv'.build = drv.build /\ drv'.queued = drv.queued /\ drv'.dst = drv.dst
    BY <1>4, StateParts DEF IsrAck, DrvType
  <2> QED BY <1>1, <2>2, <2>3, <2>4
<1> QED BY <1>2, <1>3, <1>4

(* Taking the chip down, building the rings, and initialising the chip.     *)
LEMMA LoopSetup ==
  ASSUME SelfTestFits, QuietWire, TypeOK, RingInv, WireInv, LoopInv
  PROVE  Setup => LoopInv'
<1>1. ASSUME Stop PROVE LoopInv'
  <2>1. /\ drv'.phase = "down" /\ drv'.build = 0 /\ drv'.queued = drv.queued
        /\ heard' = heard
    BY <1>1, StateParts DEF Stop, DrvType
  <2> QED BY <2>1 DEF LoopInv, Running
<1>2. ASSUME NEW block \in Block, MakeRings(block) PROVE LoopInv'
  <2>1. /\ drv'.phase = "ready" /\ drv'.build = 0 /\ drv'.queued = drv.queued
        /\ drv'.block = block /\ heard' = heard /\ block.mode \in Modes
    BY <1>2, StateParts DEF MakeRings, DrvType, Block
  <2> QED BY <2>1 DEF LoopInv, Running
<1>3. ASSUME NEW data \in InitWords, WriteInit(data) PROVE LoopInv'
  <2>1. /\ data \in SUBSET Csr0Bits /\ "STOP" \notin data /\ "INIT" \in data
        /\ data \cap Acks = {}
    BY DEF InitWords, Csr0Bits, Acks, Causes, Faults
  <2>2. PICK t \in MachineType : t = WriteCsr0(Machine, data, drv.block)
    BY <2>1, StateParts, WriteCsr0Type
  <2>3. Machine' = t
    BY <1>3, <2>2, BecomesIs DEF WriteInit, Csr0Write
  <2>4. "INIT" \notin Machine.chip.csr0
    BY StateParts DEF RingInv, NeverInit
  <2>5. PICK u \in MachineType :
           /\ u.tx = tx /\ u.rx = rx /\ u.wire = wire
           /\ u.chip.txPos = 0 /\ u.chip.rxPos = 0
           /\ u.chip.mode = drv.block.mode /\ u.chip.padr /\ "TXON" \notin u.chip.csr0
           /\ Carries(u, t)
    BY <2>1, <2>2, <2>4, StateParts, InitTurns
  <2>6. /\ tx = FreshTx /\ rx = FreshRx /\ drv.head = 0 /\ drv.build = 0 /\ drv.done = 0
    BY <1>3 DEF WriteInit, RingInv, FreshUntilInit
  <2>7. /\ drv'.queued = drv.queued /\ drv'.dst = drv.dst /\ drv'.block = drv.block
        /\ drv'.build = 0 /\ heard' = heard /\ drv.block.mode \in Modes
    BY <1>3, <2>6, StateParts DEF WriteInit, DrvType, LoopInv
  <2>8. Latest(0, drv.queued) = drv.queued
    BY DEF Latest
  <2>9. Sending(u, 0, 0, 0, drv.queued, drv.dst)
    <3>1. Sent(wire, drv.queued)
      BY <2>6, <2>8 DEF WireInv
    <3> QED BY <2>5, <2>6, <3>1, FreshSends, LoopParts
  <2>10. Round(u, heard, Latest(0, drv.queued))
    BY <2>5, <2>6, <2>7, <2>8, LoopParts, FreshRound
  <2>11. Round(t, heard, Latest(0, drv.queued))
    <3>1. heard \in 0 .. MaxRx /\ drv.queued <= MaxTx /\ 0 \in TxIdx /\ 0 \in Nat
      BY LoopParts, RingAssumption DEF LoopInv, TxIdx
    <3> QED BY <2>5, <2>9, <2>10, <3>1, LoopParts DEF Carries, Turns
  <2>12. Rounding'
    BY <2>3, <2>7, <2>11 DEF Rounding
  <2> QED BY <2>7, <2>12 DEF LoopInv
<1> QED BY <1>1, <1>2, <1>3, LoopWrites DEF Setup

(* The driver's frames.                                                     *)
LEMMA LoopStores ==
  ASSUME TypeOK, LoopInv
  PROVE  /\ \A n \in 1 .. MaxFrags, dst \in OwnDst : BeginFrame(n, dst) => LoopInv'
         /\ StoreTx(FALSE) => LoopInv'
<1>1. ASSUME NEW n \in 1 .. MaxFrags, NEW dst \in OwnDst, BeginFrame(n, dst)
      PROVE  LoopInv'
  <2>1. /\ Running /\ drv.build = 0 /\ drv.queued < MaxTx /\ Machine' = Machine
        /\ drv'.build = n /\ drv'.dst = dst /\ drv'.queued = drv.queued + 1
        /\ drv'.block = drv.block /\ drv'.phase = drv.phase /\ heard' = heard
    BY <1>1, StateParts DEF BeginFrame, DrvType, Machine, Running
  <2>2. Latest(drv'.build, drv'.queued) = Latest(drv.build, drv.queued)
    BY <2>1, LoopParts DEF Latest
  <2>3. Rounding'
    BY <2>1, <2>2 DEF LoopInv, Rounding
  <2> QED BY <2>1, <2>3, LoopParts DEF LoopInv
<1>2. ASSUME StoreTx(FALSE) PROVE LoopInv'
  <2>1. PICK i, k : /\ i = Adv(drv.head, NextPart, TxLen) /\ k = NextPart
    OBVIOUS
  <2>2. PICK g : g = [id |-> drv.queued, part |-> k + 1, of |-> drv.build, dst |-> drv.dst]
    OBVIOUS
  <2>3. PICK new : new = [own |-> TRUE, stp |-> k = 0, enp |-> k = drv.build - 1,
                          empty |-> FALSE, err |-> FALSE, tmd3 |-> {}, frag |-> g]
    OBVIOUS
  <2>4. tx' = [tx EXCEPT ![i] = new] /\ drv.build > 0
        /\ chip' = chip /\ rx' = rx /\ taken' = taken /\ heard' = heard
    BY <1>2, <2>1, <2>2, <2>3 DEF StoreTx
  <2>5. /\ drv'.queued = drv.queued /\ drv'.phase = drv.phase /\ drv'.block = drv.block
        /\ drv'.build = 0 \/ (drv'.build = drv.build /\ drv'.dst = drv.dst)
    BY <1>2, StateParts DEF StoreTx, DrvType
  <2>6. /\ new.own /\ new.frag.id = drv.queued /\ new.frag.of = drv.build
        /\ new.frag.dst = drv.dst
    <3>1. new.own /\ new.frag = g
      BY <2>3
    <3>2. g.id = drv.queued /\ g.of = drv.build /\ g.dst = drv.dst
      BY <2>2
    <3> QED BY <3>1, <3>2
  <2>7. \A j \in TxIdx : tx'[j] = tx[j] \/ tx'[j] = new
    BY <2>4, StateParts
  <2>8. ASSUME Rounding PROVE Rounding'
    <3>1. PICK m \in 0 .. Latest(drv.build, drv.queued) :
            Unsent(Machine, m) /\ Ahead(Machine, RxLen - (heard + m))
      BY <2>8 DEF Rounding, Round
    <3>2. m < drv.queued /\ m \in 0 .. Latest(drv'.build, drv'.queued)
      BY <2>4, <2>5, <3>1, LoopParts DEF Latest
    <3>3. /\ Machine'.chip = Machine.chip /\ Machine'.rx = Machine.rx
          /\ Machine'.taken = Machine.taken /\ Machine'.tx = tx' /\ Machine.tx = tx
      BY <2>4 DEF Machine
    <3>4. Unsent(Machine', m)
      <4>1. drv.dst \in OwnDst /\ drv.build \in 1 .. MaxFrags
        BY <2>4, LoopParts DEF LoopInv
      <4> QED BY <2>6, <2>7, <3>1, <3>2, <3>3, <4>1 DEF Unsent
    <3>5. Looped(Machine')
      <4>1. Looped(Machine)
        BY <2>8 DEF Rounding, Round
      <4> QED BY <2>6, <2>7, <3>3, <4>1 DEF Looped, CameBack
    <3>6. Ahead(Machine', RxLen - (heard' + m))
      BY <2>4, <3>1, <3>3 DEF Ahead
    <3> QED BY <2>8, <3>2, <3>3, <3>4, <3>5, <3>6 DEF Rounding, Round
  <2> QED BY <2>4, <2>5, <2>8 DEF LoopInv, Running
<1> QED BY <1>1, <1>2

LEMMA LoopIsr ==
  ASSUME SelfTestFits, TypeOK, RingInv, WireInv, LoopInv
  PROVE  Isr => LoopInv'
<1>1. ASSUME IsrRead \/ IsrExit \/ IsrDrain PROVE LoopInv'
  <2>1. /\ chip' = chip /\ tx' = tx /\ taken' = taken /\ heard' = heard
        /\ drv'.phase = drv.phase /\ drv'.block = drv.block
        /\ drv'.build = drv.build /\ drv'.queued = drv.queued /\ drv'.dst = drv.dst
    BY <1>1, StateParts DEF IsrRead, IsrExit, IsrDrain, DrvType
  <2>2. \A i \in RxIdx : rx[i].own => rx'[i].own
    <3>1. CASE rx' = rx
      BY <3>1
    <3>2. CASE rx' = [rx EXCEPT ![drv.rxHead] = EmptyRx(TRUE)]
      BY <3>2, StateParts DEF EmptyRx
    <3>3. rx' = rx \/ rx' = [rx EXCEPT ![drv.rxHead] = EmptyRx(TRUE)]
      BY <1>1 DEF IsrRead, IsrExit, IsrDrain
    <3> QED BY <3>1, <3>2, <3>3
  <2> QED BY <2>1, <2>2, AsideKeepsLoop
<1> QED BY <1>1, LoopWrites DEF Isr

LEMMA LoopNext ==
  ASSUME SelfTestFits, QuietWire, ~ EmptyFrags
  PROVE  TypeOK /\ RingInv /\ WireInv /\ LoopInv /\ [Next]_vars => LoopInv'
<1> SUFFICES ASSUME TypeOK, RingInv, WireInv, LoopInv, [Next]_vars PROVE LoopInv'
  OBVIOUS
<1>1. CASE Setup
  BY <1>1, LoopSetup
<1>2. CASE Send
  BY <1>2, LoopWrites, LoopStores DEF Send
<1>3. CASE Isr
  BY <1>3, LoopIsr
<1>4. CASE Tick \/ Net
  BY <1>4, LoopLoop
<1>5. CASE UNCHANGED vars
  BY <1>5, AsideKeepsLoop DEF vars
<1> QED BY <1>1, <1>2, <1>3, <1>4, <1>5 DEF Next

(* Every frame of a short self-test whose last descriptor comes back        *)
(* without ERR, in a loopback mode or addressed to the station itself, has  *)
(* been stored in the receive ring: whatever comes from the wire meanwhile, *)
(* in the driver's use of the chip and in the boot self-test's.             *)
THEOREM LoopAlwaysReturns ==
  ASSUME SelfTestFits, OwnLast, QuietWire, ~ EmptyFrags
  PROVE  (Spec => []LoopReturns) /\ (GlueSpec => []LoopReturns)
<1> DEFINE I == TypeOK /\ RingInv /\ WireInv /\ LoopInv
<1>1. Init => I
  BY TypeInit, RingInit, WireInit, LoopInit
<1>2. I /\ [Next]_vars => I'
  BY TypeNext, RingNext, WireNext, LoopNext
<1>3. I /\ [GlueNext]_gvars => I'
  BY <1>2, GlueIsNext
<1>4. I => LoopReturns
  <2> SUFFICES ASSUME I, NEW i \in TxIdx, tx[i].enp, ~ tx[i].own, ~ tx[i].err, Running,
                      "LOOP" \in chip.mode \/ tx[i].frag.dst = "self"
               PROVE  \E j \in DOMAIN taken :
                        taken[j].own /\ taken[j].frags[1].id = tx[i].frag.id
    BY DEF LoopReturns
  <2>1. Looped(Machine)
    BY DEF LoopInv, Rounding, Round
  <2>2. Machine.taken = taken
    BY DEF Machine
  <2>3. CameBack(Machine, tx[i].frag.id)
    BY <2>1, StateParts DEF Looped
  <2> QED BY <2>2, <2>3 DEF CameBack
<1>5. GlueInit => Init
  BY DEF GlueInit
<1> HIDE DEF I
<1>6. Spec => []LoopReturns
  BY <1>1, <1>2, <1>4, PTL DEF Spec
<1>7. GlueSpec => []LoopReturns
  BY <1>1, <1>3, <1>4, <1>5, PTL DEF GlueSpec
<1> QED BY <1>6, <1>7

=============================================================================
