---------------------------- MODULE NvramProofs ----------------------------
(***************************************************************************)
(* Theorems about the EEPROM, for every number of address and data bits:   *)
(* with arbitrary levels on its pins, and under the firmware's routines.   *)
(***************************************************************************)
EXTENDS NvramPins, NvramBoard, TLAPS, SequenceTheorems

(* A sequence of bits of the right length is a word or an address.          *)
LEMMA BitsOfLength ==
  ASSUME NEW s \in Seq(Bit), NEW k \in Nat, Len(s) = k
  PROVE  s \in [1 .. k -> Bit]
OBVIOUS

(* The opcodes are all the pairs of bits.                                   *)
LEMMA Opcodes ==
  ASSUME NEW s \in Seq(Bit), Len(s) = 2
  PROVE  s \in {READ, WRITE, ERASE, NONE}
<1>1. s = <<s[1], s[2]>> /\ s[1] \in {0, 1} /\ s[2] \in {0, 1}
  BY DEF Bit
<1> QED BY <1>1 DEF READ, WRITE, ERASE, NONE

(* The command register splits into an opcode and an address.               *)
LEMMA CommandParts ==
  ASSUME NEW s \in Seq(Bit), Len(s) = CmdBits
  PROVE  /\ SubSeq(s, 2, 3) \in {READ, WRITE, ERASE, NONE}
         /\ SubSeq(s, 4, CmdBits) \in Addr
<1>0. CmdBits \in Nat /\ CmdBits >= 5 /\ CmdBits = 3 + ABits /\ ABits \in Nat
  BY NvramAssumption DEF CmdBits
<1>1. SubSeq(s, 2, 3) \in Seq(Bit) /\ Len(SubSeq(s, 2, 3)) = 2
  BY <1>0, SubSeqProperties
<1>2. SubSeq(s, 4, CmdBits) \in Seq(Bit) /\ Len(SubSeq(s, 4, CmdBits)) = ABits
  BY <1>0, SubSeqProperties
<1>3. SubSeq(s, 2, 3) \in {READ, WRITE, ERASE, NONE}
  BY <1>1, Opcodes
<1>4. SubSeq(s, 4, CmdBits) \in Addr
  BY <1>0, <1>2, BitsOfLength DEF Addr
<1> QED BY <1>3, <1>4

(* The part of the invariant that speaks of the chip: its type, and that an *)
(* answer in progress is the word in the memory.                            *)
Sound(n) ==
  /\ n \in NvramType
  /\ n.state = "CMD" => Len(n.rx) <= CmdBits
  /\ n.state = "WRITE_IN" => Len(n.rx) = n.count /\ n.count < DBits
  /\ n.state = "READ_OUT" => n.out = n.mem[n.addr]

(* Programming a word keeps the type and touches nothing but the memory.    *)
LEMMA ProgramSound ==
  ASSUME NEW n \in NvramType, NEW a \in Addr, NEW w \in Word
  PROVE  /\ Program(n, a, w) \in NvramType
         /\ Program(n, a, w).state = n.state
BY DEF Program, NvramType

(* A chip that is idle needs only its type.                                 *)
LEMMA IdleSound ==
  ASSUME NEW n \in NvramType, n.state = "IDLE"
  PROVE  Sound(n)
BY DEF Sound

LEMMA BlankType == Ones \in Word /\ Blank \in [Addr -> Word]
BY DEF Ones, Word, Blank, Bit

(* Obeying a command.                                                       *)
LEMMA ObeySound ==
  ASSUME NEW n \in NvramType, NEW op \in {READ, WRITE, ERASE, NONE}, NEW a \in Addr
  PROVE  Sound(Obey(n, op, a))
<1> DEFINE m == [n EXCEPT !.addr = a, !.state = "IDLE"]
<1>1. m \in NvramType /\ m.state = "IDLE" /\ m.addr = a /\ m.mem = n.mem
  BY DEF NvramType
<1>d. READ # WRITE /\ READ # ERASE /\ READ # NONE /\ WRITE # ERASE /\ WRITE # NONE /\ ERASE # NONE
  BY DEF READ, WRITE, ERASE, NONE
<1>n. DBits \in Nat \ {0}
  BY NvramAssumption
<1>a. 1 \in 0 .. DBits + 2 /\ 0 \in Nat /\ 0 < DBits /\ <<>> \in Seq(Bit) /\ Len(<<>>) = 0
  BY <1>n, EmptySeq
<1>2. CASE op = READ
  <2>1. Obey(n, op, a) = [m EXCEPT !.out = n.mem[a], !.state = "READ_OUT", !.sent = 1]
    BY <1>2, <1>d DEF Obey
  <2>2. n.mem[a] \in Word
    BY DEF NvramType
  <2> HIDE DEF m
  <2> DEFINE r == [m EXCEPT !.out = n.mem[a], !.state = "READ_OUT", !.sent = 1]
  <2>3. r \in NvramType
    BY <1>1, <1>a, <2>2 DEF NvramType
  <2>4. r.state = "READ_OUT" /\ r.out = n.mem[a] /\ r.mem = n.mem /\ r.addr = a
    BY <1>1, <2>2 DEF NvramType
  <2> HIDE DEF r
  <2>5. Sound(r)
    BY <2>3, <2>4 DEF Sound
  <2> QED BY <2>1, <2>5 DEF r
<1>3. CASE op = WRITE
  <2>1. Obey(n, op, a) = [m EXCEPT !.rx = <<>>, !.count = 0, !.state = "WRITE_IN"]
    BY <1>3, <1>d DEF Obey
  <2> HIDE DEF m
  <2> DEFINE r == [m EXCEPT !.rx = <<>>, !.count = 0, !.state = "WRITE_IN"]
  <2>3. r \in NvramType
    BY <1>1, <1>a DEF NvramType
  <2>4. r.state = "WRITE_IN" /\ r.rx = <<>> /\ r.count = 0
    BY <1>1 DEF NvramType
  <2> HIDE DEF r
  <2>5. Sound(r)
    BY <1>a, <2>3, <2>4 DEF Sound
  <2> QED BY <2>1, <2>5 DEF r
<1>4. CASE op = ERASE
  <2>1. Obey(n, op, a) = Program(m, a, Ones)
    BY <1>4, <1>d DEF Obey
  <2> HIDE DEF m
  <2> QED BY <1>1, <2>1, BlankType, ProgramSound, IdleSound
<1>5. CASE op = NONE
  <2>1. Obey(n, op, a) = ObeyOther(m, SubSeq(a, 1, 2))
    BY <1>5, <1>d DEF Obey
  <2> HIDE DEF m
  <2>2. ObeyOther(m, SubSeq(a, 1, 2)) \in NvramType /\ ObeyOther(m, SubSeq(a, 1, 2)).state = "IDLE"
    BY <1>1, BlankType DEF ObeyOther, NvramType
  <2> QED BY <2>1, <2>2, IdleSound
<1> QED BY <1>2, <1>3, <1>4, <1>5
-----------------------------------------------------------------------------
(* A clock in each of the states.                                           *)
LEMMA ShiftCmdSound ==
  ASSUME NEW n, Sound(n), n.state = "CMD"
  PROVE  Sound(ShiftCmd(n))
<1> DEFINE rx == LastBits(Append(n.rx, n.di), CmdBits)
           m == [n EXCEPT !.rx = LastBits(Append(@, n.di), CmdBits), !.count = @ + 1]
<1>0. CmdBits \in Nat /\ CmdBits >= 5
  BY NvramAssumption DEF CmdBits
<1>1. n \in NvramType /\ n.rx \in Seq(Bit) /\ n.di \in Bit /\ n.count \in Nat /\ Len(n.rx) <= CmdBits
  BY DEF Sound, NvramType
<1>2. Append(n.rx, n.di) \in Seq(Bit) /\ Len(Append(n.rx, n.di)) = Len(n.rx) + 1 /\ Append(n.rx, n.di) # <<>>
  BY <1>1
<1>3. rx \in Seq(Bit) /\ Len(rx) <= CmdBits
  <2> DEFINE t == Append(n.rx, n.di)
  <2>1. t \in Seq(Bit) /\ t # <<>> /\ Len(t) <= CmdBits + 1
    BY <1>0, <1>1, <1>2
  <2> HIDE DEF t
  <2>2. Tail(t) \in Seq(Bit) /\ Len(Tail(t)) = Len(t) - 1
    BY <2>1
  <2>3. LastBits(t, CmdBits) \in Seq(Bit) /\ Len(LastBits(t, CmdBits)) <= CmdBits
    BY <1>0, <2>1, <2>2 DEF LastBits
  <2> QED BY <2>3 DEF t
<1>4. m = [n EXCEPT !.rx = rx, !.count = n.count + 1]
  BY <1>1 DEF NvramType
<1> HIDE DEF rx
<1>6. ShiftCmd(n) = IF HasCmd(m) THEN Obey(m, SubSeq(m.rx, 2, 3), SubSeq(m.rx, 4, CmdBits)) ELSE m
  BY DEF ShiftCmd
<1> HIDE DEF m
<1>5. m \in NvramType /\ m.rx = rx /\ m.state = "CMD"
  <2>1. n.count + 1 \in Nat
    BY <1>1
  <2>2. m.state = n.state
    BY <1>1, <1>4 DEF NvramType
  <2> QED BY <1>1, <1>3, <1>4, <2>1, <2>2 DEF NvramType
<1>7. CASE HasCmd(m)
  <2>1. Len(m.rx) = CmdBits /\ m.rx \in Seq(Bit)
    BY <1>3, <1>5, <1>7 DEF HasCmd
  <2>2. /\ SubSeq(m.rx, 2, 3) \in {READ, WRITE, ERASE, NONE}
        /\ SubSeq(m.rx, 4, CmdBits) \in Addr
    BY <2>1, CommandParts
  <2>3. Sound(Obey(m, SubSeq(m.rx, 2, 3), SubSeq(m.rx, 4, CmdBits)))
    BY <1>5, <2>2, ObeySound
  <2> QED BY <1>6, <1>7, <2>3
<1>8. CASE ~ HasCmd(m)
  <2>1. Sound(m)
    BY <1>3, <1>5 DEF Sound
  <2> QED BY <1>6, <1>8, <2>1
<1> QED BY <1>7, <1>8

LEMMA ShiftDataSound ==
  ASSUME NEW n, Sound(n), n.state = "WRITE_IN"
  PROVE  Sound(ShiftData(n))
<1> DEFINE rx == Append(n.rx, n.di)
           m == [n EXCEPT !.rx = Append(@, n.di), !.count = @ + 1]
<1>0. DBits \in Nat \ {0}
  BY NvramAssumption
<1>1. /\ n \in NvramType /\ n.rx \in Seq(Bit) /\ n.di \in Bit /\ n.count \in Nat
      /\ Len(n.rx) = n.count /\ n.count < DBits
  BY DEF Sound, NvramType
<1>2. rx \in Seq(Bit) /\ Len(rx) = n.count + 1
  BY <1>1
<1>3. m = [n EXCEPT !.rx = rx, !.count = n.count + 1]
  BY <1>1 DEF NvramType
<1> HIDE DEF rx
<1>5. ShiftData(n) = IF m.count = DBits THEN [Program(m, m.addr, m.rx) EXCEPT !.state = "IDLE"] ELSE m
  BY DEF ShiftData
<1> HIDE DEF m
<1>4. m \in NvramType /\ m.rx = rx /\ m.count = n.count + 1 /\ m.state = "WRITE_IN"
  <2>1. n.count + 1 \in Nat
    BY <1>1
  <2>2. m.state = n.state
    BY <1>1, <1>3 DEF NvramType
  <2> QED BY <1>1, <1>2, <1>3, <2>1, <2>2 DEF NvramType
<1>6. CASE m.count = DBits
  <2>1. m.rx \in Word /\ m.addr \in Addr
    BY <1>0, <1>2, <1>4, <1>6, BitsOfLength DEF Word, NvramType
  <2>2. Program(m, m.addr, m.rx) \in NvramType
    BY <1>4, <2>1, ProgramSound
  <2> DEFINE r == [Program(m, m.addr, m.rx) EXCEPT !.state = "IDLE"]
  <2>3. r \in NvramType /\ r.state = "IDLE"
    BY <2>2 DEF NvramType
  <2> HIDE DEF r
  <2>4. Sound(r)
    BY <2>3, IdleSound
  <2> QED BY <1>5, <1>6, <2>4 DEF r
<1>7. CASE m.count # DBits
  <2>1. Sound(m)
    BY <1>0, <1>1, <1>2, <1>4, <1>7 DEF Sound
  <2> QED BY <1>5, <1>7, <2>1
<1> QED BY <1>6, <1>7

LEMMA ShiftOutSound ==
  ASSUME NEW n, Sound(n), n.state = "READ_OUT"
  PROVE  Sound(ShiftOut(n))
<1>0. DBits \in Nat /\ n \in NvramType /\ n.sent \in 0 .. DBits + 2
  BY NvramAssumption DEF Sound, NvramType
<1>1. CASE n.sent < DBits + 2
  <2> DEFINE r == [n EXCEPT !.sent = n.sent + 1]
  <2>1. n.sent + 1 \in 0 .. DBits + 2
    BY <1>0, <1>1
  <2>2. r \in NvramType /\ r.state = n.state /\ r.out = n.out /\ r.mem = n.mem /\ r.addr = n.addr
    BY <1>0, <2>1 DEF NvramType
  <2>3. ShiftOut(n) = r
    BY <1>0, <1>1 DEF ShiftOut, NvramType
  <2> HIDE DEF r
  <2> QED BY <2>2, <2>3 DEF Sound
<1>2. CASE ~ (n.sent < DBits + 2)
  BY <1>2 DEF ShiftOut
<1> QED BY <1>1, <1>2

LEMMA SkRiseSound ==
  ASSUME NEW n, Sound(n)
  PROVE  Sound(SkRise(n))
<1>1. n.state \in {"IDLE", "CMD", "WRITE_IN", "READ_OUT"}
  BY DEF Sound, NvramType
<1>2. CASE n.state = "CMD"
  BY <1>2, ShiftCmdSound DEF SkRise
<1>3. CASE n.state = "WRITE_IN"
  BY <1>3, ShiftDataSound DEF SkRise
<1>4. CASE n.state = "READ_OUT"
  BY <1>4, ShiftOutSound DEF SkRise
<1>5. CASE n.state = "IDLE"
  BY <1>5 DEF SkRise
<1> QED BY <1>1, <1>2, <1>3, <1>4, <1>5

(* Any write of the pins.                                                   *)
LEMMA NvramWriteSound ==
  ASSUME NEW n, Sound(n), NEW p \in Pins
  PROVE  Sound(NvramWrite(n, p))
<1> DEFINE s == IF p.cs = 1 /\ n.cs = 0 THEN BeginCmd(n)
                ELSE IF p.cs = 0 /\ n.cs = 1 THEN [n EXCEPT !.state = "IDLE"]
                ELSE n
           c == IF Clocks(n, p) THEN SkRise(s) ELSE s
<1>0. n \in NvramType /\ CmdBits \in Nat /\ DBits \in Nat
  BY NvramAssumption DEF Sound, CmdBits
<1>1. Sound(BeginCmd(n))
  <2> DEFINE r == [n EXCEPT !.state = "CMD", !.rx = <<>>, !.count = 0, !.sent = 0]
  <2>0. 0 \in 0 .. DBits + 2 /\ <<>> \in Seq(Bit) /\ Len(<<>>) = 0 /\ 0 <= CmdBits
    BY <1>0, EmptySeq
  <2>1. r \in NvramType /\ r.state = "CMD" /\ r.rx = <<>>
    BY <1>0, <2>0 DEF NvramType
  <2>2. BeginCmd(n) = r
    BY DEF BeginCmd
  <2> HIDE DEF r
  <2> QED BY <2>0, <2>1, <2>2 DEF Sound
<1>2. Sound([n EXCEPT !.state = "IDLE"])
  <2>1. [n EXCEPT !.state = "IDLE"] \in NvramType /\ [n EXCEPT !.state = "IDLE"].state = "IDLE"
    BY <1>0 DEF NvramType
  <2> QED BY <2>1, IdleSound
<1>3. Sound(s)
  BY <1>1, <1>2
<1> HIDE DEF s
<1>4. Sound(c)
  BY <1>3, SkRiseSound
<1>5. NvramWrite(n, p) = [c EXCEPT !.cs = p.cs, !.sk = p.sk, !.di = p.di]
  BY DEF NvramWrite, s, c
<1> HIDE DEF c
<1> DEFINE r == [c EXCEPT !.cs = p.cs, !.sk = p.sk, !.di = p.di]
<1>6. c \in NvramType /\ p.cs \in Bit /\ p.sk \in Bit /\ p.di \in Bit
  BY <1>4 DEF Sound, Pins
<1>7. /\ r \in NvramType
      /\ r.state = c.state /\ r.rx = c.rx /\ r.count = c.count
      /\ r.out = c.out /\ r.mem = c.mem /\ r.addr = c.addr
  BY <1>6 DEF NvramType
<1> HIDE DEF r
<1>8. Sound(r)
  BY <1>4, <1>7 DEF Sound
<1> QED BY <1>5, <1>8 DEF r
-----------------------------------------------------------------------------
(* The inductive invariant: the chip is sound and the record of what went   *)
(* in is well typed.                                                        *)
PinsInv ==
  /\ Sound(nv)
  /\ stream \in Seq(Bit)
  /\ base \in [mem: [Addr -> Word], ewen: BOOLEAN]
  /\ selects \in Nat

LEMMA FreshSound ==
  ASSUME NEW image \in [Addr -> Word]
  PROVE  Fresh(image) \in NvramType /\ Fresh(image).state = "IDLE"
<1>1. /\ [k \in 1 .. DBits |-> 0] \in Word /\ [k \in 1 .. ABits |-> 0] \in Addr
      /\ 0 \in 0 .. DBits + 2 /\ 0 \in Bit /\ <<>> \in Seq(Bit)
  BY NvramAssumption, EmptySeq DEF Word, Addr, Bit
<1> QED BY <1>1 DEF Fresh, NvramType

LEMMA PinsInductive == PinsSpec => []PinsInv
<1>1. PinsInit => PinsInv
  <2> SUFFICES ASSUME PinsInit PROVE PinsInv
    OBVIOUS
  <2>1. PICK image \in Images : nv = Fresh(image)
    BY DEF PinsInit
  <2>2. image \in [Addr -> Word]
    BY PinsAssumption
  <2>3. nv \in NvramType /\ nv.state = "IDLE"
    BY <2>1, <2>2, FreshSound
  <2>4. Sound(nv)
    BY <2>3, IdleSound
  <2>5. base \in [mem: [Addr -> Word], ewen: BOOLEAN]
    BY <2>3 DEF PinsInit, NvramType
  <2> QED BY <2>4, <2>5 DEF PinsInit, PinsInv
<1>2. PinsInv /\ [PinsNext]_pvars => PinsInv'
  <2> SUFFICES ASSUME PinsInv, [PinsNext]_pvars PROVE PinsInv'
    OBVIOUS
  <2>1. CASE PinsNext
    <3>1. PICK p \in Pins : SetPins(p)
      BY <2>1 DEF PinsNext
    <3>2. Sound(nv')
      BY <3>1, NvramWriteSound DEF PinsInv, SetPins
    <3>3. nv.di \in Bit /\ nv.mem \in [Addr -> Word] /\ nv.ewen \in BOOLEAN
      BY DEF PinsInv, Sound, NvramType
    <3>4. CASE Selects(p)
      BY <3>1, <3>2, <3>3, <3>4 DEF SetPins, PinsInv
    <3>5. CASE ~ Selects(p)
      <4>1. stream' = (IF Clocks(nv, p) THEN Append(stream, nv.di) ELSE stream)
            /\ base' = base /\ selects' = selects
        BY <3>1, <3>5 DEF SetPins
      <4>2. Append(stream, nv.di) \in Seq(Bit)
        BY <3>3 DEF PinsInv
      <4> QED BY <3>2, <4>1, <4>2 DEF PinsInv
    <3> QED BY <3>4, <3>5
  <2>2. CASE UNCHANGED pvars
    BY <2>2 DEF pvars, PinsInv
  <2> QED BY <2>1, <2>2
<1> QED BY <1>1, <1>2, PTL DEF PinsSpec

(* Whatever levels the pins take, the shift register never outgrows a       *)
(* command or a word: what nvram_write programs is a word, and what it      *)
(* addresses a cell.                                                        *)
THEOREM PinsTypeCorrect == PinsSpec => []TypeOK
<1>1. PinsInv => TypeOK
  BY DEF PinsInv, TypeOK, Sound
<1> QED BY <1>1, PinsInductive, PTL

(* What nvram_read shifts out is the word the memory holds, for the whole   *)
(* of an answer, whatever the driver does with the pins meanwhile.          *)
THEOREM ReadsAlwaysCurrent == PinsSpec => []ReadsCurrent
<1>1. PinsInv => ReadsCurrent
  BY DEF PinsInv, ReadsCurrent, Sound
<1> QED BY <1>1, PinsInductive, PTL
-----------------------------------------------------------------------------
(* What a stream of bits calls for.  It has z leading zeros, and the        *)
(* command is what follows them.                                            *)
Leading(s, z) ==
  /\ z \in 0 .. Len(s)
  /\ \A k \in 1 .. z : s[k] = 0
  /\ z = Len(s) \/ s[z + 1] = 1

CommandOf(s, z) == SubSeq(s, z + 1, Len(s))

(* Short of a whole command the register holds the last bits, and nothing   *)
(* has been done.                                                           *)
Gathers(n, s, b) ==
  /\ n.mem = b.mem /\ n.ewen = b.ewen
  /\ n.cs = 1 =>
       /\ n.state = "CMD" /\ n.count = Len(s)
       /\ Len(n.rx) = IF Len(s) < CmdBits THEN Len(s) ELSE CmdBits
       /\ \A i \in 1 .. Len(n.rx) : n.rx[i] = s[Len(s) - Len(n.rx) + i]

(* Memory and registers k clocks after a whole command for address a.       *)
Reads(n, a, k, b) ==
  /\ n.mem = b.mem /\ n.ewen = b.ewen
  /\ n.cs = 1 => /\ n.state = "READ_OUT" /\ n.out = b.mem[a]
                 /\ n.sent = IF k < DBits + 2 THEN k + 1 ELSE DBits + 2

Writes(n, c, a, k, b) ==
  /\ n.ewen = b.ewen
  /\ k < DBits =>
       /\ n.mem = b.mem
       /\ n.cs = 1 => /\ n.state = "WRITE_IN" /\ n.addr = a /\ n.count = k
                      /\ n.rx = SubSeq(c, CmdBits + 1, Len(c))
  /\ k >= DBits =>
       /\ n.mem = IF b.ewen THEN [b.mem EXCEPT ![a] = SubSeq(c, CmdBits + 1, CmdBits + DBits)]
                  ELSE b.mem
       /\ n.state = "IDLE"

Erases(n, a, b) ==
  /\ n.ewen = b.ewen /\ n.state = "IDLE"
  /\ n.mem = IF b.ewen THEN [b.mem EXCEPT ![a] = Ones] ELSE b.mem

DoesOther(n, sub, b) ==
  /\ n.state = "IDLE"
  /\ n.mem = IF b.ewen /\ sub = ERAL THEN Blank ELSE b.mem
  /\ n.ewen = IF sub = EWEN THEN TRUE ELSE IF sub = EWDS THEN FALSE ELSE b.ewen

Obeyed(n, c, b) ==
  LET op == SubSeq(c, 2, 3)
      a  == SubSeq(c, 4, CmdBits)
      k  == Len(c) - CmdBits
  IN  /\ op = READ => Reads(n, a, k, b)
      /\ op = WRITE => Writes(n, c, a, k, b)
      /\ op = ERASE => Erases(n, a, b)
      /\ op = NONE => DoesOther(n, SubSeq(a, 1, 2), b)

Follows(n, s, c, b) ==
  /\ Len(c) < CmdBits => Gathers(n, s, b)
  /\ Len(c) >= CmdBits => Obeyed(n, c, b)

Patient(s, z) == z <= GiveUp - CmdBits

LEMMA Widths ==
  /\ ABits \in Nat /\ ABits >= 2 /\ DBits \in Nat /\ DBits >= 1
  /\ CmdBits \in Nat /\ CmdBits = 3 + ABits
  /\ GiveUp \in Nat /\ GiveUp >= CmdBits
BY NvramAssumption DEF CmdBits

LEMMA OneStart ==
  ASSUME NEW s \in Seq(Bit), NEW y, NEW z, Leading(s, y), Leading(s, z)
  PROVE  y = z
BY DEF Leading

LEMMA ZerosAre ==
  ASSUME stream \in Seq(Bit), NEW z, Leading(stream, z)
  PROVE  Zeros = z
<1> DEFINE P(y) == /\ \A k \in 1 .. y : stream[k] = 0
                   /\ y = Len(stream) \/ stream[y + 1] = 1
<1>1. z \in 0 .. Len(stream) /\ P(z)
  BY DEF Leading
<1>2. \A y \in 0 .. Len(stream) : P(y) => y = z
  <2> SUFFICES ASSUME NEW y \in 0 .. Len(stream), P(y) PROVE y = z
    OBVIOUS
  <2>1. Leading(stream, y)
    BY DEF Leading
  <2> QED BY <2>1, OneStart
<1>3. Zeros = CHOOSE y \in 0 .. Len(stream) : P(y)
  BY DEF Zeros
<1> HIDE DEF P
<1> QED BY <1>1, <1>2, <1>3

LEMMA CommandBits ==
  ASSUME NEW s \in Seq(Bit), NEW z \in 0 .. Len(s)
  PROVE  /\ CommandOf(s, z) \in Seq(Bit)
         /\ Len(CommandOf(s, z)) = Len(s) - z
         /\ \A i \in 1 .. Len(s) - z : CommandOf(s, z)[i] = s[z + i]
<1>1. \A i \in z + 1 .. Len(s) : s[i] \in Bit
  OBVIOUS
<1>2. z + 1 \in Int /\ Len(s) \in Int
  OBVIOUS
<1> DEFINE c == CommandOf(s, z)
<1>3. /\ c \in Seq(Bit)
      /\ Len(c) = IF z + 1 <= Len(s) THEN Len(s) - (z + 1) + 1 ELSE 0
      /\ \A i \in 1 .. Len(s) - (z + 1) + 1 : c[i] = s[(z + 1) + i - 1]
  BY <1>1, <1>2, SubSeqProperties DEF CommandOf
<1> HIDE DEF c
<1>4. /\ c \in Seq(Bit) /\ Len(c) = Len(s) - z
      /\ \A i \in 1 .. Len(s) - z : c[i] = s[z + i]
  BY <1>2, <1>3
<1> QED BY <1>4 DEF c

(* Within a sequence, a longer one shows the same.                          *)
LEMMA SameBits ==
  ASSUME NEW c \in Seq(Bit), NEW d \in Bit, NEW i \in Nat \ {0}, NEW j \in Nat, j <= Len(c)
  PROVE  SubSeq(Append(c, d), i, j) = SubSeq(c, i, j)
<1>1. \A k \in i .. j : c[k] \in Bit /\ Append(c, d)[k] \in Bit /\ Append(c, d)[k] = c[k]
  OBVIOUS
<1> DEFINE p == SubSeq(Append(c, d), i, j)
           q == SubSeq(c, i, j)
<1>2. /\ p \in Seq(Bit) /\ Len(p) = IF i <= j THEN j - i + 1 ELSE 0
      /\ \A k \in 1 .. j - i + 1 : p[k] = Append(c, d)[i + k - 1]
  BY <1>1, SubSeqProperties
<1>3. /\ q \in Seq(Bit) /\ Len(q) = IF i <= j THEN j - i + 1 ELSE 0
      /\ \A k \in 1 .. j - i + 1 : q[k] = c[i + k - 1]
  BY <1>1, SubSeqProperties
<1> HIDE DEF p, q
<1>4. \A k \in 1 .. j - i + 1 : p[k] = q[k]
  BY <1>1, <1>2, <1>3
<1>5. Len(p) = Len(q) /\ \A k \in 1 .. Len(p) : p[k] = q[k]
  BY <1>2, <1>3, <1>4
<1>6. p = q
  BY <1>2, <1>3, <1>5, SeqEqual
<1> QED BY <1>6 DEF p, q

(* One bit more is one zero more, or one bit more of the command.           *)
LEMMA OneBitMore ==
  ASSUME NEW s \in Seq(Bit), NEW z, Leading(s, z), NEW d \in Bit
  PROVE  \E y : /\ Leading(Append(s, d), y) /\ z <= y
                /\ \/ CommandOf(Append(s, d), y) = Append(CommandOf(s, z), d)
                   \/ CommandOf(Append(s, d), y) = <<>> /\ CommandOf(s, z) = <<>>
<1> DEFINE t == Append(s, d)
           y == IF z < Len(s) \/ d = 1 THEN z ELSE Len(s) + 1
<1>1. /\ t \in Seq(Bit) /\ Len(t) = Len(s) + 1 /\ t[Len(s) + 1] = d
      /\ \A i \in 1 .. Len(s) : t[i] = s[i]
  OBVIOUS
<1>2. z \in 0 .. Len(s) /\ d \in {0, 1}
  BY DEF Leading, Bit
<1> HIDE DEF t
<1>3. Leading(t, y) /\ z <= y
  BY <1>1, <1>2 DEF Leading
<1>4. y \in 0 .. Len(t)
  BY <1>3 DEF Leading
<1>5. CASE z < Len(s) \/ d = 1
  <2>1. y = z
    BY <1>5
  <2> DEFINE p == CommandOf(t, z)
             q == CommandOf(s, z)
  <2>2. /\ p \in Seq(Bit) /\ Len(p) = Len(t) - z
        /\ \A i \in 1 .. Len(t) - z : p[i] = t[z + i]
    <3>1. z \in 0 .. Len(t)
      BY <1>4, <2>1
    <3> HIDE DEF y
    <3> QED BY <1>1, <3>1, CommandBits
  <2>3. /\ q \in Seq(Bit) /\ Len(q) = Len(s) - z
        /\ \A i \in 1 .. Len(s) - z : q[i] = s[z + i]
    BY <1>2, CommandBits
  <2> HIDE DEF p, q
  <2>4. Append(q, d) \in Seq(Bit) /\ Len(Append(q, d)) = Len(p)
    BY <1>1, <1>2, <2>2, <2>3
  <2>5. \A i \in 1 .. Len(p) : Append(q, d)[i] = p[i]
    <3> TAKE i \in 1 .. Len(p)
    <3>1. CASE i <= Len(s) - z
      BY <1>1, <1>2, <2>2, <2>3, <3>1
    <3>2. CASE i = Len(s) - z + 1
      <4>1. p[i] = d
        BY <1>1, <1>2, <2>2, <3>2
      <4>2. Append(q, d)[Len(q) + 1] = d /\ i = Len(q) + 1
        BY <1>2, <2>3, <3>2
      <4> QED BY <4>1, <4>2
    <3>3. i <= Len(s) - z \/ i = Len(s) - z + 1
      BY <1>1, <1>2, <2>2
    <3> QED BY <3>1, <3>2, <3>3
  <2>6. p = Append(q, d)
    BY <2>2, <2>4, <2>5
  <2> QED BY <1>3, <2>1, <2>6 DEF p, q, t
<1>6. CASE ~ (z < Len(s) \/ d = 1)
  <2>1. y = Len(t) /\ z = Len(s)
    BY <1>1, <1>2, <1>6
  <2>2. CommandOf(t, y) = <<>> /\ CommandOf(s, z) = <<>>
    <3>1. Len(CommandOf(t, y)) = 0 /\ CommandOf(t, y) \in Seq(Bit)
      BY <1>1, <1>4, <2>1, CommandBits
    <3>2. Len(CommandOf(s, z)) = 0 /\ CommandOf(s, z) \in Seq(Bit)
      BY <1>2, <2>1, CommandBits
    <3> QED BY <3>1, <3>2, EmptySeq
  <2> QED BY <1>3, <2>2 DEF t
<1> QED BY <1>5, <1>6

(* Obeying a command that has just become whole.                            *)
LEMMA ObeysWhole ==
  ASSUME NEW n \in NvramType, NEW b, n.mem = b.mem, n.ewen = b.ewen, n.cs = 1,
         NEW c \in Seq(Bit), Len(c) = CmdBits
  PROVE  Obeyed(Obey(n, SubSeq(c, 2, 3), SubSeq(c, 4, CmdBits)), c, b)
<1> DEFINE op == SubSeq(c, 2, 3)
           a  == SubSeq(c, 4, CmdBits)
           m  == [n EXCEPT !.addr = a, !.state = "IDLE"]
<1>1. op \in {READ, WRITE, ERASE, NONE} /\ a \in Addr
  BY CommandParts
<1>2. /\ m.mem = b.mem /\ m.ewen = b.ewen /\ m.state = "IDLE" /\ m.addr = a /\ m.cs = 1
      /\ m \in NvramType
  BY <1>1 DEF NvramType
<1>3. /\ Obey(n, op, a) = CASE op = READ  -> [m EXCEPT !.out = n.mem[a], !.state = "READ_OUT", !.sent = 1]
                            [] op = WRITE -> [m EXCEPT !.rx = <<>>, !.count = 0, !.state = "WRITE_IN"]
                            [] op = ERASE -> Program(m, a, Ones)
                            [] op = NONE  -> ObeyOther(m, SubSeq(a, 1, 2))
      /\ Len(c) - CmdBits = 0
  BY Widths DEF Obey
<1>4. READ # WRITE /\ READ # ERASE /\ READ # NONE /\ WRITE # ERASE /\ WRITE # NONE /\ ERASE # NONE
  BY DEF READ, WRITE, ERASE, NONE
<1> HIDE DEF op, a, m
<1>5. CASE op = READ
  <2> DEFINE o == [m EXCEPT !.out = n.mem[a], !.state = "READ_OUT", !.sent = 1]
  <2>1. Obey(n, op, a) = o
    BY <1>3, <1>4, <1>5
  <2>2. o.mem = m.mem /\ o.ewen = m.ewen /\ o.state = "READ_OUT" /\ o.out = n.mem[a] /\ o.sent = 1
    BY <1>2 DEF NvramType
  <2> HIDE DEF o
  <2>3. Reads(o, a, 0, b)
    BY <1>2, <2>2, Widths DEF Reads
  <2> QED BY <1>3, <1>4, <1>5, <2>1, <2>3 DEF Obeyed, op, a
<1>6. CASE op = WRITE
  <2> DEFINE o == [m EXCEPT !.rx = <<>>, !.count = 0, !.state = "WRITE_IN"]
  <2>1. Obey(n, op, a) = o
    BY <1>3, <1>4, <1>6
  <2>2. SubSeq(c, CmdBits + 1, Len(c)) = <<>>
    BY Widths, SubSeqEmpty
  <2>3. /\ o.mem = m.mem /\ o.ewen = m.ewen /\ o.addr = m.addr
        /\ o.state = "WRITE_IN" /\ o.rx = <<>> /\ o.count = 0
    BY <1>2 DEF NvramType
  <2> HIDE DEF o
  <2>4. Writes(o, c, a, 0, b)
    BY <1>2, <2>2, <2>3, Widths DEF Writes
  <2> QED BY <1>3, <1>4, <1>6, <2>1, <2>4 DEF Obeyed, op, a
<1>7. CASE op = ERASE
  <2>1. Obey(n, op, a) = Program(m, a, Ones)
    BY <1>3, <1>4, <1>7
  <2>2. Erases(Obey(n, op, a), a, b)
    <3> DEFINE o == [m EXCEPT !.mem[a] = Ones]
    <3>1. o.ewen = m.ewen /\ o.state = m.state /\ o.mem = [m.mem EXCEPT ![a] = Ones]
      BY <1>2 DEF NvramType
    <3>2. Obey(n, op, a) = IF m.ewen THEN o ELSE m
      BY <2>1 DEF Program
    <3> HIDE DEF o
    <3> QED BY <1>2, <3>1, <3>2 DEF Erases
  <2> QED BY <1>3, <1>4, <1>7, <2>2 DEF Obeyed, op, a
<1>8. CASE op = NONE
  <2>1. Obey(n, op, a) = ObeyOther(m, SubSeq(a, 1, 2))
    BY <1>3, <1>4, <1>8
  <2>2. EWDS # ERAL /\ EWDS # EWEN /\ ERAL # EWEN
    BY DEF EWDS, ERAL, EWEN
  <2> DEFINE sub == SubSeq(a, 1, 2)
  <2> HIDE DEF sub
  <2>3. DoesOther(ObeyOther(m, sub), sub, b)
    BY <1>2, <2>2 DEF DoesOther, ObeyOther, NvramType
  <2>4. DoesOther(Obey(n, op, a), sub, b)
    BY <2>1, <2>3 DEF sub
  <2> QED BY <1>3, <1>4, <1>8, <2>4 DEF Obeyed, op, sub, a
<1> QED BY <1>1, <1>5, <1>6, <1>7, <1>8 DEF op, a

(* A clock before the command is whole.  A register that is full is only    *)
(* taken for a command if its oldest bit is the start bit, for the zeros    *)
(* are fewer than the chip waits for.                                       *)
LEMMA ClockGathers ==
  ASSUME NEW n, Sound(n), n.cs = 1, NEW b, NEW s \in Seq(Bit), NEW y,
         Leading(Append(s, n.di), y), Patient(Append(s, n.di), y), Gathers(n, s, b),
         Len(CommandOf(Append(s, n.di), y)) <= CmdBits
  PROVE  Follows(SkRise(n), Append(s, n.di), CommandOf(Append(s, n.di), y), b)
<1> DEFINE t == Append(s, n.di)
           c == CommandOf(t, y)
           rx == LastBits(Append(n.rx, n.di), CmdBits)
           m == [n EXCEPT !.rx = LastBits(Append(@, n.di), CmdBits), !.count = @ + 1]
<1>1. n \in NvramType /\ n.state = "CMD" /\ n.rx \in Seq(Bit) /\ n.di \in Bit
  BY DEF Sound, NvramType, Gathers
<1>2. /\ t \in Seq(Bit) /\ Len(t) = Len(s) + 1 /\ t[Len(s) + 1] = n.di
      /\ \A i \in 1 .. Len(s) : t[i] = s[i]
  BY <1>1
<1>3. /\ n.count = Len(s) /\ n.mem = b.mem /\ n.ewen = b.ewen
      /\ Len(n.rx) = IF Len(s) < CmdBits THEN Len(s) ELSE CmdBits
      /\ \A i \in 1 .. Len(n.rx) : n.rx[i] = s[Len(s) - Len(n.rx) + i]
  BY DEF Gathers
<1> DEFINE r == Append(n.rx, n.di)
<1>4. /\ r \in Seq(Bit) /\ Len(r) = Len(n.rx) + 1 /\ r[Len(n.rx) + 1] = n.di
      /\ \A i \in 1 .. Len(n.rx) : r[i] = n.rx[i]
  BY <1>1
<1> HIDE DEF t, r
<1>5. \A i \in 1 .. Len(r) : r[i] = t[Len(t) - Len(r) + i]
  <2> TAKE i \in 1 .. Len(r)
  <2>1. i \in Nat /\ i <= Len(n.rx) + 1 /\ Len(n.rx) \in Nat /\ Len(s) \in Nat /\ Len(n.rx) <= Len(s)
    BY <1>1, <1>3, <1>4, Widths
  <2>2. CASE i <= Len(n.rx)
    <3>1. r[i] = n.rx[i] /\ n.rx[i] = s[Len(s) - Len(n.rx) + i]
      BY <1>3, <1>4, <2>1, <2>2
    <3>2. Len(s) - Len(n.rx) + i \in 1 .. Len(s) /\ Len(s) - Len(n.rx) + i = Len(t) - Len(r) + i
      BY <1>2, <1>4, <2>1, <2>2
    <3> QED BY <1>2, <3>1, <3>2
  <2>3. CASE i = Len(n.rx) + 1
    <3>1. r[i] = n.di
      BY <1>4, <2>3
    <3>2. Len(t) - Len(r) + i = Len(s) + 1
      <4>1. Len(t) = Len(s) + 1 /\ Len(r) = Len(n.rx) + 1
        BY <1>2, <1>4
      <4>2. \A j, k \in Int : (j + 1) - (k + 1) + (k + 1) = j + 1
        OBVIOUS
      <4>3. Len(t) - Len(r) + i = (Len(s) + 1) - (Len(n.rx) + 1) + (Len(n.rx) + 1)
        BY <2>3, <4>1
      <4>4. Len(s) \in Int /\ Len(n.rx) \in Int
        BY <2>1
      <4> QED BY <4>2, <4>3, <4>4
    <3> QED BY <1>2, <3>1, <3>2
  <2> QED BY <2>1, <2>2, <2>3
<1>6. /\ rx \in Seq(Bit) /\ Len(rx) = IF Len(t) < CmdBits THEN Len(t) ELSE CmdBits
      /\ \A i \in 1 .. Len(rx) : rx[i] = t[Len(t) - Len(rx) + i]
  <2>0. rx = LastBits(r, CmdBits)
    BY DEF r
  <2> HIDE DEF rx
  <2>1. CASE Len(r) <= CmdBits
    <3>1. rx = r
      BY <1>1, <1>4, <2>0, <2>1, Widths DEF LastBits
    <3>2. Len(s) < CmdBits /\ Len(s) \in Nat /\ Len(r) = Len(s) + 1 /\ Len(t) = Len(s) + 1
      BY <1>2, <1>3, <1>4, <2>1, Widths
    <3>3. Len(rx) = IF Len(t) < CmdBits THEN Len(t) ELSE CmdBits
      BY <3>1, <3>2, Widths
    <3> QED BY <1>4, <1>5, <3>1, <3>3
  <2>2. CASE Len(r) > CmdBits
    <3>1. rx = Tail(r)
      BY <2>0, <2>2 DEF LastBits
    <3>2. Len(n.rx) = CmdBits /\ Len(s) >= CmdBits /\ Len(r) = CmdBits + 1 /\ Len(s) \in Nat
      BY <1>1, <1>3, <1>4, <2>2, Widths
    <3>3. /\ Tail(r) \in Seq(Bit) /\ Len(Tail(r)) = Len(r) - 1
          /\ \A i \in 1 .. Len(Tail(r)) : Tail(r)[i] = r[i + 1]
      BY <1>4, <3>2, Widths, HeadTailProperties, EmptySeq
    <3>4. Len(rx) = CmdBits /\ Len(t) > CmdBits
      BY <1>2, <3>1, <3>2, <3>3, Widths
    <3>5. ASSUME NEW i \in 1 .. Len(rx) PROVE rx[i] = t[Len(t) - Len(rx) + i]
      <4>1. rx[i] = r[i + 1]
        BY <3>1, <3>3
      <4>2. i + 1 \in 1 .. Len(r) /\ i \in Int
        BY <3>2, <3>4, Widths
      <4>3. r[i + 1] = t[Len(t) - Len(r) + (i + 1)]
        BY <1>5, <4>2
      <4>4. Len(t) - Len(r) + (i + 1) = Len(t) - Len(rx) + i
        BY <1>2, <3>2, <3>4, <4>2, Widths
      <4> QED BY <4>1, <4>3, <4>4
    <3>6. Len(rx) = IF Len(t) < CmdBits THEN Len(t) ELSE CmdBits
      BY <1>2, <3>2, <3>4, Widths
    <3> QED BY <3>1, <3>3, <3>5, <3>6
  <2> QED BY <1>4, <2>1, <2>2, Widths
<1>7. /\ m \in NvramType /\ m.rx = rx /\ m.count = Len(t) /\ m.cs = 1 /\ m.state = "CMD"
      /\ m.mem = b.mem /\ m.ewen = b.ewen
  <2>1. m = [n EXCEPT !.rx = rx, !.count = n.count + 1]
    BY <1>1 DEF NvramType, r
  <2> HIDE DEF rx, m
  <2>2. n.count + 1 = Len(t) /\ n.count + 1 \in Nat
    BY <1>2, <1>3
  <2>3. m.mem = n.mem /\ m.ewen = n.ewen /\ m.cs = n.cs /\ m.state = n.state /\ m.rx = rx /\ m.count = n.count + 1
    BY <1>1, <2>1 DEF NvramType
  <2>4. m \in NvramType
    BY <1>1, <1>6, <2>1, <2>2 DEF NvramType
  <2> QED BY <1>1, <1>3, <2>2, <2>3, <2>4
<1>8. /\ c \in Seq(Bit) /\ Len(c) = Len(t) - y /\ \A i \in 1 .. Len(t) - y : c[i] = t[y + i]
      /\ y \in 0 .. Len(t)
  BY <1>2, CommandBits DEF Leading, t
<1>9. SkRise(n) = IF HasCmd(m) THEN Obey(m, SubSeq(m.rx, 2, 3), SubSeq(m.rx, 4, CmdBits)) ELSE m
  BY <1>1 DEF SkRise, ShiftCmd
<1>10. /\ y <= GiveUp - CmdBits /\ Len(c) <= CmdBits
       /\ \A k \in 1 .. y : t[k] = 0
       /\ y = Len(t) \/ t[y + 1] = 1
  BY DEF Patient, Leading, t
<1> HIDE DEF c, rx, m
<1>11. CASE Len(c) < CmdBits
  <2>1. ~ HasCmd(m)
    <3> SUFFICES ASSUME HasCmd(m) PROVE FALSE
      OBVIOUS
    <3>1. Len(rx) = CmdBits /\ Len(t) >= CmdBits /\ (rx[1] = 1 \/ Len(t) >= GiveUp)
      BY <1>2, <1>6, <1>7, Widths DEF HasCmd
    <3>2. Len(t) < GiveUp /\ Len(t) - CmdBits + 1 \in 1 .. y
      BY <1>2, <1>8, <1>10, <1>11, <3>1, Widths
    <3>3. rx[1] = t[Len(t) - CmdBits + 1]
      <4>1. 1 \in 1 .. Len(rx)
        BY <3>1, Widths
      <4>2. rx[1] = t[Len(t) - Len(rx) + 1]
        BY <1>6, <4>1
      <4> QED BY <3>1, <4>2
    <3>4. rx[1] = 0
      BY <1>10, <3>2, <3>3
    <3> QED BY <1>2, <3>1, <3>2, <3>4, Widths
  <2>2. Gathers(m, t, b)
    BY <1>6, <1>7 DEF Gathers
  <2>3. Follows(m, t, c, b)
    BY <1>11, <2>2, <1>8, Widths DEF Follows
  <2> QED BY <1>9, <2>1, <2>3 DEF t, c
<1>12. CASE Len(c) = CmdBits
  <2>1. Len(t) \in Nat /\ Len(t) >= CmdBits /\ Len(rx) = CmdBits /\ y = Len(t) - CmdBits /\ y < Len(t)
    BY <1>2, <1>6, <1>8, <1>12, Widths
  <2>2. ASSUME NEW i \in 1 .. Len(c) PROVE c[i] = rx[i]
    <3>1. c[i] = t[y + i] /\ i \in Int
      BY <1>8, <1>12
    <3>2. rx[i] = t[Len(t) - Len(rx) + i]
      BY <1>6, <1>12, <2>1
    <3> QED BY <2>1, <3>1, <3>2
  <2>3. c = rx
    BY <1>6, <1>8, <1>12, <2>1, <2>2, SeqEqual
  <2>4. c[1] = 1
    <3>1. 1 \in 1 .. Len(t) - y
      BY <2>1, Widths
    <3>2. c[1] = t[y + 1]
      BY <1>8, <3>1
    <3> QED BY <1>10, <2>1, <3>2
  <2>5. HasCmd(m)
    BY <1>7, <2>1, <2>3, <2>4 DEF HasCmd
  <2>6. Obeyed(Obey(m, SubSeq(c, 2, 3), SubSeq(c, 4, CmdBits)), c, b)
    BY <1>7, <1>8, <1>12, ObeysWhole
  <2>7. SkRise(n) = Obey(m, SubSeq(c, 2, 3), SubSeq(c, 4, CmdBits))
    BY <1>7, <1>9, <2>3, <2>5
  <2>8. Follows(SkRise(n), t, c, b)
    BY <1>12, <2>6, <2>7, Widths DEF Follows
  <2> QED BY <2>8 DEF t, c
<1>13. Len(c) < CmdBits \/ Len(c) = CmdBits
  <2>1. Len(c) \in Nat
    BY <1>8, LenProperties
  <2> QED BY <1>10, <2>1, Widths
<1> QED BY <1>11, <1>12, <1>13

(* A clock after the command: the answer goes on, data come in, or nothing  *)
(* happens.                                                                 *)
LEMMA ClockObeyed ==
  ASSUME NEW n, Sound(n), n.cs = 1, NEW b, NEW c \in Seq(Bit), Len(c) >= CmdBits, Obeyed(n, c, b)
  PROVE  Obeyed(SkRise(n), Append(c, n.di), b)
<1> DEFINE op == SubSeq(c, 2, 3)
           a  == SubSeq(c, 4, CmdBits)
           k  == Len(c) - CmdBits
           d  == Append(c, n.di)
<1>1. n \in NvramType /\ n.rx \in Seq(Bit) /\ n.di \in Bit
  BY DEF Sound, NvramType
<1>2. d \in Seq(Bit) /\ Len(d) = Len(c) + 1 /\ Len(d) - CmdBits = k + 1 /\ k \in Nat
  BY <1>1, Widths
<1>3. SubSeq(d, 2, 3) = op /\ SubSeq(d, 4, CmdBits) = a
  BY <1>1, SameBits, Widths
<1>4. op \in {READ, WRITE, ERASE, NONE} /\ a \in Addr
  <2>1. SubSeq(c, 1, CmdBits) \in Seq(Bit) /\ Len(SubSeq(c, 1, CmdBits)) = CmdBits
    <3>1. \A i \in 1 .. CmdBits : c[i] \in Bit
      BY Widths
    <3> QED BY <3>1, SubSeqProperties, Widths
  <2>2. op \in Seq(Bit) /\ Len(op) = 2
    <3>1. \A i \in 2 .. 3 : c[i] \in Bit
      BY Widths
    <3> QED BY <3>1, SubSeqProperties
  <2>3. a \in Seq(Bit) /\ Len(a) = ABits
    <3>1. \A i \in 4 .. CmdBits : c[i] \in Bit
      BY Widths
    <3>2. a \in Seq(Bit) /\ Len(a) = IF 4 <= CmdBits THEN CmdBits - 4 + 1 ELSE 0
      BY <3>1, SubSeqProperties, Widths
    <3> HIDE DEF a
    <3> QED BY <3>2, Widths
  <2>4. a \in [1 .. ABits -> Bit]
    BY <2>3, BitsOfLength, Widths
  <2> QED BY <2>2, <2>4, Opcodes DEF Addr
<1> HIDE DEF op, a, k, d
<1>5. /\ op = READ => Reads(n, a, k, b)
      /\ op = WRITE => Writes(n, c, a, k, b)
      /\ op = ERASE => Erases(n, a, b)
      /\ op = NONE => DoesOther(n, SubSeq(a, 1, 2), b)
  BY DEF Obeyed, op, a, k
<1>6. ASSUME /\ op = READ => Reads(SkRise(n), a, k + 1, b)
             /\ op = WRITE => Writes(SkRise(n), d, a, k + 1, b)
             /\ op = ERASE => Erases(SkRise(n), a, b)
             /\ op = NONE => DoesOther(SkRise(n), SubSeq(a, 1, 2), b)
      PROVE  Obeyed(SkRise(n), d, b)
  BY <1>2, <1>3, <1>6 DEF Obeyed
<1>7. ASSUME n.state = "IDLE" PROVE SkRise(n) = n
  BY <1>7 DEF SkRise
<1>8. ASSUME op = READ PROVE Reads(SkRise(n), a, k + 1, b)
  <2>1. /\ n.mem = b.mem /\ n.ewen = b.ewen /\ n.state = "READ_OUT" /\ n.out = b.mem[a]
        /\ n.sent = IF k < DBits + 2 THEN k + 1 ELSE DBits + 2
    BY <1>5, <1>8 DEF Reads
  <2> DEFINE o == [n EXCEPT !.sent = n.sent + 1]
  <2>2. SkRise(n) = IF n.sent < DBits + 2 THEN o ELSE n
    BY <2>1 DEF SkRise, ShiftOut
  <2>3. o.mem = n.mem /\ o.ewen = n.ewen /\ o.state = n.state /\ o.out = n.out /\ o.sent = n.sent + 1
    BY <1>1 DEF NvramType
  <2> HIDE DEF o
  <2> QED BY <1>2, <2>1, <2>2, <2>3, Widths DEF Reads
<1>9. ASSUME op = WRITE PROVE Writes(SkRise(n), d, a, k + 1, b)
  <2>1. Writes(n, c, a, k, b)
    BY <1>5, <1>9
  <2>2. CASE k >= DBits
    <3>1. SkRise(n) = n
      BY <1>7, <2>1, <2>2 DEF Writes
    <3>2. SubSeq(d, CmdBits + 1, CmdBits + DBits) = SubSeq(c, CmdBits + 1, CmdBits + DBits)
      <4>1. CmdBits + DBits <= Len(c) /\ CmdBits + 1 \in Nat \ {0} /\ CmdBits + DBits \in Nat
        BY <2>2, Widths DEF k
      <4> QED BY <1>1, <4>1, SameBits DEF d
    <3> DEFINE w == SubSeq(c, CmdBits + 1, CmdBits + DBits)
    <3>3. /\ n.ewen = b.ewen /\ n.state = "IDLE"
          /\ n.mem = IF b.ewen THEN [b.mem EXCEPT ![a] = w] ELSE b.mem
      BY <2>1, <2>2 DEF Writes
    <3>4. w = SubSeq(d, CmdBits + 1, CmdBits + DBits)
      BY <3>2
    <3> HIDE DEF w
    <3>5. k + 1 >= DBits /\ ~ (k + 1 < DBits)
      BY <1>2, <2>2, Widths
    <3> QED BY <3>1, <3>3, <3>4, <3>5 DEF Writes
  <2>3. CASE k < DBits
    <3> DEFINE r == Append(n.rx, n.di)
               m == [n EXCEPT !.rx = Append(@, n.di), !.count = @ + 1]
               p == Program(m, m.addr, m.rx)
    <3>1. /\ n.mem = b.mem /\ n.ewen = b.ewen /\ n.state = "WRITE_IN" /\ n.addr = a /\ n.count = k
          /\ n.rx = SubSeq(c, CmdBits + 1, Len(c))
      BY <2>1, <2>3 DEF Writes
    <3>2. SkRise(n) = IF m.count = DBits THEN [p EXCEPT !.state = "IDLE"] ELSE m
      BY <3>1 DEF SkRise, ShiftData
    <3>3. m = [n EXCEPT !.rx = r, !.count = n.count + 1]
      BY <1>1 DEF NvramType
    <3> HIDE DEF r, m, p
    <3>4. /\ m.mem = b.mem /\ m.ewen = b.ewen /\ m.state = "WRITE_IN" /\ m.addr = a /\ m.count = k + 1
          /\ m.rx = r /\ m.cs = 1
      BY <1>1, <3>1, <3>3 DEF NvramType
    <3>5. r = SubSeq(d, CmdBits + 1, Len(d))
      <4> DEFINE q == SubSeq(d, CmdBits + 1, Len(d))
      <4>1. \A i \in CmdBits + 1 .. Len(c) : c[i] \in Bit
        BY Widths
      <4>2. \A i \in CmdBits + 1 .. Len(d) : d[i] \in Bit
        BY <1>2, Widths
      <4>3. /\ CmdBits + 1 \in Int /\ Len(c) \in Int /\ Len(d) \in Int /\ Len(d) = Len(c) + 1
            /\ Len(c) >= CmdBits /\ CmdBits \in Int
        BY <1>2, Widths
      <4>4. /\ Len(n.rx) = IF CmdBits + 1 <= Len(c) THEN Len(c) - (CmdBits + 1) + 1 ELSE 0
            /\ \A i \in 1 .. Len(c) - (CmdBits + 1) + 1 : n.rx[i] = c[(CmdBits + 1) + i - 1]
        BY <3>1, <4>1, <4>3, SubSeqProperties
      <4>5. /\ q \in Seq(Bit)
            /\ Len(q) = IF CmdBits + 1 <= Len(d) THEN Len(d) - (CmdBits + 1) + 1 ELSE 0
            /\ \A i \in 1 .. Len(d) - (CmdBits + 1) + 1 : q[i] = d[(CmdBits + 1) + i - 1]
        BY <4>2, <4>3, SubSeqProperties
      <4> HIDE DEF q
      <4>6. Len(n.rx) = k /\ \A i \in 1 .. k : n.rx[i] = c[CmdBits + i]
        <5>1. /\ Len(c) - (CmdBits + 1) + 1 = k
              /\ k = IF CmdBits + 1 <= Len(c) THEN Len(c) - (CmdBits + 1) + 1 ELSE 0
          BY <4>3 DEF k
        <5>2. \A i \in 1 .. k : (CmdBits + 1) + i - 1 = CmdBits + i
          BY <4>3
        <5> QED BY <4>4, <5>1, <5>2
      <4>7. Len(q) = k + 1 /\ \A i \in 1 .. k + 1 : q[i] = d[CmdBits + i]
        BY <4>3, <4>5 DEF k
      <4>8. r \in Seq(Bit) /\ Len(r) = Len(n.rx) + 1 /\ r[Len(n.rx) + 1] = n.di
            /\ \A i \in 1 .. Len(n.rx) : r[i] = n.rx[i]
        BY <1>1, AppendProperties DEF r
      <4>9. d[Len(c) + 1] = n.di /\ \A i \in 1 .. Len(c) : d[i] = c[i]
        BY <1>1 DEF d
      <4>10. ASSUME NEW i \in 1 .. Len(r) PROVE r[i] = q[i]
        <5>0. i \in Int /\ i >= 1 /\ i <= k + 1 /\ k \in Int /\ Len(c) = CmdBits + k /\ q[i] = d[CmdBits + i]
          BY <1>2, <4>3, <4>6, <4>7, <4>8 DEF k
        <5>1. CASE i <= k
          <6>1. CmdBits + i \in 1 .. Len(c) /\ i \in 1 .. k
            BY <4>3, <5>0, <5>1, Widths
          <6> QED BY <4>6, <4>8, <4>9, <5>0, <6>1
        <5>2. CASE i = k + 1
          <6>1. CmdBits + i = Len(c) + 1
            BY <4>3, <5>0, <5>2
          <6> QED BY <4>6, <4>8, <4>9, <5>0, <5>2, <6>1
        <5> QED BY <5>0, <5>1, <5>2
      <4>11. Len(r) = Len(q)
        BY <4>6, <4>7, <4>8
      <4>12. r = q
        BY <4>5, <4>8, <4>10, <4>11, SeqEqual
      <4> QED BY <4>12 DEF q
    <3>6. CASE k + 1 = DBits
      <4>1. CmdBits + DBits = Len(d)
        BY <1>2, <3>6, Widths DEF k
      <4>2. SkRise(n) = [p EXCEPT !.state = "IDLE"]
        BY <3>2, <3>4, <3>6
      <4>3. p = IF b.ewen THEN [m EXCEPT !.mem[a] = r] ELSE m
        BY <3>4 DEF p, Program
      <4>4. m \in NvramType
        <5>1. k + 1 \in Nat /\ r \in Seq(Bit)
          BY <1>1, <1>2 DEF r
        <5> QED BY <1>1, <3>1, <3>3, <5>1 DEF NvramType
      <4>5. /\ p.mem = IF b.ewen THEN [b.mem EXCEPT ![a] = r] ELSE b.mem
            /\ p.ewen = b.ewen
            /\ DOMAIN p = DOMAIN m
        BY <3>4, <4>3, <4>4 DEF NvramType
      <4>6. SkRise(n).mem = p.mem /\ SkRise(n).ewen = p.ewen /\ SkRise(n).state = "IDLE"
        BY <4>2, <4>4, <4>5 DEF NvramType
      <4> DEFINE w == SubSeq(d, CmdBits + 1, CmdBits + DBits)
      <4>7. r = w /\ ~ (k + 1 < DBits)
        <5>1. ~ (k + 1 < DBits)
          BY <3>6, Widths
        <5>2. r = w
          BY <3>5, <4>1
        <5> QED BY <5>1, <5>2
      <4> HIDE DEF w
      <4>8. /\ SkRise(n).ewen = b.ewen /\ SkRise(n).state = "IDLE"
            /\ SkRise(n).mem = IF b.ewen THEN [b.mem EXCEPT ![a] = w] ELSE b.mem
        BY <4>5, <4>6, <4>7
      <4> QED BY <4>7, <4>8 DEF Writes, w
    <3>7. CASE k + 1 # DBits
      <4>1. SkRise(n) = m
        BY <3>2, <3>4, <3>7
      <4>2. ~ (k + 1 >= DBits)
        BY <1>2, <2>3, <3>7, Widths
      <4> QED BY <3>4, <3>5, <4>1, <4>2 DEF Writes
    <3> QED BY <3>6, <3>7
  <2> QED BY <1>2, <2>2, <2>3, Widths
<1>10. ASSUME op = ERASE PROVE Erases(SkRise(n), a, b)
  BY <1>5, <1>7, <1>10 DEF Erases
<1>11. ASSUME op = NONE PROVE DoesOther(SkRise(n), SubSeq(a, 1, 2), b)
  BY <1>5, <1>7, <1>11 DEF DoesOther
<1>12. Obeyed(SkRise(n), d, b)
  BY <1>6, <1>8, <1>9, <1>10, <1>11
<1> QED BY <1>12 DEF d

(* One clock, in every state of the chip and for every bit.                 *)
LEMMA ClockFollows ==
  ASSUME NEW n, Sound(n), n.cs = 1, NEW b, NEW s \in Seq(Bit), NEW z, Leading(s, z),
         Patient(s, z) => Follows(n, s, CommandOf(s, z), b)
  PROVE  \E y : /\ Leading(Append(s, n.di), y)
                /\ Patient(Append(s, n.di), y) =>
                     Follows(SkRise(n), Append(s, n.di), CommandOf(Append(s, n.di), y), b)
<1>1. n.di \in Bit
  BY DEF Sound, NvramType
<1> DEFINE t == Append(s, n.di)
           c == CommandOf(s, z)
<1>2. PICK y : /\ Leading(t, y) /\ z <= y
               /\ CommandOf(t, y) = Append(c, n.di) \/ (CommandOf(t, y) = <<>> /\ c = <<>>)
  BY <1>1, OneBitMore
<1>3. t \in Seq(Bit) /\ c \in Seq(Bit) /\ Len(c) \in Nat /\ y \in Nat /\ z \in Nat
  BY <1>1, <1>2, CommandBits DEF Leading
<1> DEFINE d == CommandOf(t, y)
<1>4. d = Append(c, n.di) \/ (d = <<>> /\ c = <<>>)
  BY <1>2
<1>5. (d = Append(c, n.di) /\ Len(d) = Len(c) + 1) \/ (Len(d) = 0 /\ Len(c) = 0)
  BY <1>1, <1>3, <1>4, EmptySeq
<1> HIDE DEF c
<1>6. ASSUME Patient(t, y) PROVE Follows(SkRise(n), t, d, b)
  <2>1. Follows(n, s, c, b)
    BY <1>2, <1>3, <1>6, Widths DEF Patient, c
  <2>2. CASE Len(c) >= CmdBits
    <3>1. d = Append(c, n.di) /\ Len(d) = Len(c) + 1
      BY <1>5, <2>2, Widths
    <3>2. Obeyed(SkRise(n), Append(c, n.di), b)
      BY <1>3, <2>1, <2>2, ClockObeyed DEF Follows
    <3> HIDE DEF d
    <3>3. ~ (Len(d) < CmdBits)
      BY <1>3, <2>2, <3>1, Widths
    <3> QED BY <3>1, <3>2, <3>3 DEF Follows
  <2>3. CASE Len(c) < CmdBits
    <3>1. Len(d) <= CmdBits
      BY <1>3, <1>5, <2>3, Widths
    <3> QED BY <1>2, <1>6, <2>1, <2>3, <3>1, ClockGathers DEF Follows
  <2> QED BY <1>3, <2>2, <2>3, Widths
<1> QED BY <1>2, <1>6

(* The pins themselves are no part of it, and a chip that is deselected in  *)
(* the middle goes idle with what it has done.                              *)
LEMMA PinsFollow ==
  ASSUME NEW n \in NvramType, NEW p \in Pins, NEW s, NEW c, NEW b, Follows(n, s, c, b),
         n.cs = p.cs \/ n.cs = 1
  PROVE  Follows([(IF n.cs = p.cs THEN n ELSE [n EXCEPT !.state = "IDLE"])
                    EXCEPT !.cs = p.cs, !.sk = p.sk, !.di = p.di], s, c, b)
<1> DEFINE q == IF n.cs = p.cs THEN n ELSE [n EXCEPT !.state = "IDLE"]
           m == [q EXCEPT !.cs = p.cs, !.sk = p.sk, !.di = p.di]
<1>1. /\ m.mem = n.mem /\ m.ewen = n.ewen /\ m.rx = n.rx /\ m.count = n.count /\ m.addr = n.addr
      /\ m.out = n.out /\ m.sent = n.sent /\ m.cs = p.cs
      /\ m.state = IF n.cs = p.cs THEN n.state ELSE "IDLE"
  BY DEF NvramType
<1>2. n.cs \in {0, 1} /\ p.cs \in {0, 1}
  BY DEF NvramType, Pins, Bit
<1> HIDE DEF q, m
<1>3. m.cs = 1 => n.cs = 1 /\ m.state = n.state
  BY <1>1, <1>2
<1>4. n.state = "IDLE" => m.state = "IDLE"
  BY <1>1
<1>5. Gathers(n, s, b) => Gathers(m, s, b)
  BY <1>1, <1>3 DEF Gathers
<1>6. \A a, k : Reads(n, a, k, b) => Reads(m, a, k, b)
  BY <1>1, <1>3 DEF Reads
<1>7. \A a, k : Writes(n, c, a, k, b) => Writes(m, c, a, k, b)
  BY <1>1, <1>3, <1>4 DEF Writes
<1>8. \A a : Erases(n, a, b) => Erases(m, a, b)
  BY <1>1, <1>4 DEF Erases
<1>9. \A u : DoesOther(n, u, b) => DoesOther(m, u, b)
  BY <1>1, <1>4 DEF DoesOther
<1>10. Follows(m, s, c, b)
  BY <1>5, <1>6, <1>7, <1>8, <1>9 DEF Follows, Obeyed
<1> QED BY <1>10 DEF m, q

(* What the chip n does on the bits s since it had memory and write enable  *)
(* b: the data sheet's words, unless the zeros outlast its patience.        *)
Sent(n, s, b) ==
  \E z : /\ Leading(s, z)
         /\ Patient(s, z) => Follows(n, s, CommandOf(s, z), b)

(* Chip and stream together: the part of the invariant that the pins keep.  *)
StreamInv ==
  /\ nv.cs = 0 => nv.state = "IDLE"
  /\ Sent(nv, stream, base)

LEMMA FirstSelected ==
  ASSUME NEW n, NEW b, n.mem = b.mem, n.ewen = b.ewen,
         n.cs = 1 => n.state = "CMD" /\ n.count = 0 /\ n.rx = <<>>
  PROVE  Sent(n, <<>>, b)
<1>1. <<>> \in Seq(Bit) /\ Len(<<>>) = 0
  BY EmptySeq
<1>2. Leading(<<>>, 0)
  BY <1>1 DEF Leading
<1>3. Len(CommandOf(<<>>, 0)) = 0
  <2>1. ASSUME NEW e \in Seq(Bit), Len(e) = 0 PROVE Len(CommandOf(e, 0)) = 0
    <3>1. 0 \in 0 .. Len(e) /\ Len(e) - 0 = 0
      BY <2>1
    <3> QED BY <3>1, CommandBits
  <2> QED BY <1>1, <2>1
<1>4. Gathers(n, <<>>, b)
  BY <1>1, Widths DEF Gathers
<1>5. Follows(n, <<>>, CommandOf(<<>>, 0), b)
  BY <1>3, <1>4, Widths DEF Follows
<1> QED BY <1>2, <1>5 DEF Sent

(* No handler moves the select pin.                                         *)
LEMMA ObeyCs ==
  ASSUME NEW n \in NvramType, NEW op \in {READ, WRITE, ERASE, NONE}, NEW a \in Addr
  PROVE  Obey(n, op, a).cs = n.cs
<1> DEFINE m == [n EXCEPT !.addr = a, !.state = "IDLE"]
<1>1. m \in NvramType /\ m.cs = n.cs
  BY DEF NvramType
<1>2. Obey(n, op, a) = CASE op = READ  -> [m EXCEPT !.out = n.mem[a], !.state = "READ_OUT", !.sent = 1]
                         [] op = WRITE -> [m EXCEPT !.rx = <<>>, !.count = 0, !.state = "WRITE_IN"]
                         [] op = ERASE -> Program(m, a, Ones)
                         [] op = NONE  -> ObeyOther(m, SubSeq(a, 1, 2))
  BY DEF Obey
<1> HIDE DEF m
<1>3. [m EXCEPT !.out = n.mem[a], !.state = "READ_OUT", !.sent = 1].cs = m.cs
  BY <1>1 DEF NvramType
<1>4. [m EXCEPT !.rx = <<>>, !.count = 0, !.state = "WRITE_IN"].cs = m.cs
  BY <1>1 DEF NvramType
<1>5. Program(m, a, Ones).cs = m.cs
  BY <1>1 DEF Program, NvramType
<1>6. \A sub : ObeyOther(m, sub).cs = m.cs
  BY <1>1 DEF ObeyOther, NvramType
<1>7. READ # WRITE /\ READ # ERASE /\ READ # NONE /\ WRITE # ERASE /\ WRITE # NONE /\ ERASE # NONE
  BY DEF READ, WRITE, ERASE, NONE
<1> QED BY <1>1, <1>2, <1>3, <1>4, <1>5, <1>6, <1>7

LEMMA SkRiseCs ==
  ASSUME NEW n, Sound(n)
  PROVE  SkRise(n).cs = n.cs
<1>1. n \in NvramType /\ n.state \in {"IDLE", "CMD", "WRITE_IN", "READ_OUT"}
  BY DEF Sound, NvramType
<1>2. CASE n.state = "CMD"
  <2> DEFINE rx == LastBits(Append(n.rx, n.di), CmdBits)
             m == [n EXCEPT !.rx = LastBits(Append(@, n.di), CmdBits), !.count = @ + 1]
  <2>1. SkRise(n) = IF HasCmd(m) THEN Obey(m, SubSeq(m.rx, 2, 3), SubSeq(m.rx, 4, CmdBits)) ELSE m
    BY <1>2 DEF SkRise, ShiftCmd
  <2>2. m = [n EXCEPT !.rx = rx, !.count = n.count + 1]
    BY <1>1 DEF NvramType
  <2>3. rx \in Seq(Bit)
    <3> DEFINE t == Append(n.rx, n.di)
    <3>1. t \in Seq(Bit) /\ t # <<>>
      BY <1>1, AppendProperties DEF NvramType
    <3> HIDE DEF t
    <3>2. Tail(t) \in Seq(Bit)
      BY <3>1
    <3>3. LastBits(t, CmdBits) \in Seq(Bit)
      BY <3>1, <3>2 DEF LastBits
    <3> QED BY <3>3 DEF t
  <2> HIDE DEF rx, m
  <2>4. n.count + 1 \in Nat
    BY <1>1 DEF NvramType
  <2>5. m \in NvramType /\ m.cs = n.cs /\ m.rx = rx
    BY <1>1, <2>2, <2>3, <2>4 DEF NvramType
  <2>6. CASE HasCmd(m)
    <3>1. m.rx \in Seq(Bit) /\ Len(m.rx) = CmdBits
      BY <2>3, <2>5, <2>6 DEF HasCmd
    <3>2. Obey(m, SubSeq(m.rx, 2, 3), SubSeq(m.rx, 4, CmdBits)).cs = m.cs
      BY <2>5, <3>1, CommandParts, ObeyCs
    <3> QED BY <2>1, <2>5, <2>6, <3>2
  <2> QED BY <2>1, <2>5, <2>6
<1>3. CASE n.state = "WRITE_IN"
  <2> DEFINE m == [n EXCEPT !.rx = Append(@, n.di), !.count = @ + 1]
             p == Program(m, m.addr, m.rx)
  <2>1. SkRise(n) = IF m.count = DBits THEN [p EXCEPT !.state = "IDLE"] ELSE m
    BY <1>3 DEF SkRise, ShiftData
  <2>2. m.cs = n.cs /\ DOMAIN m = DOMAIN n
    BY <1>1 DEF NvramType
  <2> HIDE DEF m
  <2>3. p = [m EXCEPT !.mem[m.addr] = m.rx] \/ p = m
    BY DEF Program
  <2> HIDE DEF p
  <2>4. p.cs = m.cs /\ DOMAIN p = DOMAIN m
    BY <1>1, <2>2, <2>3 DEF NvramType
  <2>5. [p EXCEPT !.state = "IDLE"].cs = p.cs
    BY <1>1, <2>2, <2>4 DEF NvramType
  <2> QED BY <2>1, <2>2, <2>4, <2>5
<1>4. CASE n.state = "READ_OUT"
  BY <1>1, <1>4 DEF SkRise, ShiftOut, NvramType
<1>5. CASE n.state = "IDLE"
  BY <1>5 DEF SkRise
<1> QED BY <1>1, <1>2, <1>3, <1>4, <1>5

(* A write of the pins selects the chip, clocks one bit in, or only moves   *)
(* the levels.                                                              *)
LEMMA WriteSelects ==
  ASSUME NEW n \in NvramType, NEW p \in Pins, p.cs = 1, n.cs = 0
  PROVE  Sent(NvramWrite(n, p), <<>>, [mem |-> n.mem, ewen |-> n.ewen])
<1> DEFINE o == BeginCmd(n)
           m == [o EXCEPT !.cs = p.cs, !.sk = p.sk, !.di = p.di]
<1>1. NvramWrite(n, p) = m
  BY DEF NvramWrite, Clocks
<1>2. /\ o.mem = n.mem /\ o.ewen = n.ewen /\ o.state = "CMD" /\ o.rx = <<>> /\ o.count = 0
      /\ DOMAIN o = DOMAIN n
  BY DEF BeginCmd, NvramType
<1> HIDE DEF o
<1>3. /\ m.mem = o.mem /\ m.ewen = o.ewen /\ m.state = o.state /\ m.rx = o.rx /\ m.count = o.count
  BY <1>2 DEF NvramType
<1> HIDE DEF m
<1> QED BY <1>1, <1>2, <1>3, FirstSelected

LEMMA WriteHolds ==
  ASSUME NEW n \in NvramType, NEW p \in Pins, ~ (p.cs = 1 /\ n.cs = 0), ~ Clocks(n, p)
  PROVE  /\ \A s, b : Sent(n, s, b) => Sent(NvramWrite(n, p), s, b)
         /\ NvramWrite(n, p).mem = n.mem /\ NvramWrite(n, p).ewen = n.ewen
<1> DEFINE o == IF n.cs = p.cs THEN n ELSE [n EXCEPT !.state = "IDLE"]
           m == [o EXCEPT !.cs = p.cs, !.sk = p.sk, !.di = p.di]
<1>0. n.cs \in {0, 1} /\ p.cs \in {0, 1}
  BY DEF NvramType, Pins, Bit
<1>1. NvramWrite(n, p) = m
  BY <1>0 DEF NvramWrite
<1>2. n.cs = p.cs \/ n.cs = 1
  BY <1>0
<1>3. m.mem = n.mem /\ m.ewen = n.ewen
  BY DEF NvramType
<1>4. ASSUME NEW s, NEW b, NEW z, Follows(n, s, CommandOf(s, z), b)
      PROVE  Follows(m, s, CommandOf(s, z), b)
  BY <1>2, <1>4, PinsFollow
<1> HIDE DEF m
<1>5. ASSUME NEW s, NEW b, Sent(n, s, b) PROVE Sent(m, s, b)
  <2>1. PICK z : Leading(s, z) /\ (Patient(s, z) => Follows(n, s, CommandOf(s, z), b))
    BY <1>5 DEF Sent
  <2>2. Patient(s, z) => Follows(m, s, CommandOf(s, z), b)
    BY <1>4, <2>1
  <2> QED BY <2>1, <2>2 DEF Sent
<1> QED BY <1>1, <1>3, <1>5

LEMMA WriteClocks ==
  ASSUME NEW n, Sound(n), NEW p \in Pins, Clocks(n, p), NEW s \in Seq(Bit), NEW b, Sent(n, s, b)
  PROVE  Sent(NvramWrite(n, p), Append(s, n.di), b)
<1> DEFINE t == Append(s, n.di)
<1>1. /\ n.cs = 1 /\ p.cs = 1
      /\ NvramWrite(n, p) = [SkRise(n) EXCEPT !.cs = p.cs, !.sk = p.sk, !.di = p.di]
  BY DEF Clocks, NvramWrite
<1>2. SkRise(n) \in NvramType
  BY SkRiseSound DEF Sound
<1>3. SkRise(n).cs = 1
  BY <1>1, SkRiseCs
<1>4. PICK z : /\ Leading(s, z)
               /\ Patient(s, z) => Follows(n, s, CommandOf(s, z), b)
  BY DEF Sent
<1>5. PICK y : /\ Leading(t, y)
               /\ Patient(t, y) => Follows(SkRise(n), t, CommandOf(t, y), b)
  BY <1>1, <1>4, ClockFollows
<1>6. NvramWrite(n, p) = [(IF SkRise(n).cs = p.cs THEN SkRise(n) ELSE [SkRise(n) EXCEPT !.state = "IDLE"])
                            EXCEPT !.cs = p.cs, !.sk = p.sk, !.di = p.di]
  BY <1>1, <1>3
<1> HIDE DEF t
<1>7. ASSUME NEW u, NEW c, Follows(SkRise(n), u, c, b)
      PROVE  Follows(NvramWrite(n, p), u, c, b)
  <2>1. Follows([(IF SkRise(n).cs = p.cs THEN SkRise(n) ELSE [SkRise(n) EXCEPT !.state = "IDLE"])
                   EXCEPT !.cs = p.cs, !.sk = p.sk, !.di = p.di], u, c, b)
    BY <1>2, <1>3, <1>7, PinsFollow
  <2> QED BY <1>6, <2>1
<1> QED BY <1>5, <1>7 DEF Sent, t

(* The pins after a write of them; a chip that is not selected is idle.     *)
LEMMA WrittenPins ==
  ASSUME NEW n, Sound(n), n.cs = 0 => n.state = "IDLE", NEW p \in Pins
  PROVE  /\ NvramWrite(n, p).cs = p.cs /\ NvramWrite(n, p).sk = p.sk /\ NvramWrite(n, p).di = p.di
         /\ p.cs = 0 => NvramWrite(n, p).state = "IDLE"
<1> DEFINE s == IF p.cs = 1 /\ n.cs = 0 THEN BeginCmd(n)
                ELSE IF p.cs = 0 /\ n.cs = 1 THEN [n EXCEPT !.state = "IDLE"] ELSE n
           c == IF Clocks(n, p) THEN SkRise(s) ELSE s
<1>1. n \in NvramType /\ n.cs \in {0, 1} /\ p.cs \in {0, 1}
  BY DEF Sound, NvramType, Pins, Bit
<1>2. NvramWrite(n, p) = [c EXCEPT !.cs = p.cs, !.sk = p.sk, !.di = p.di]
  BY DEF NvramWrite
<1>3. c = IF Clocks(n, p) THEN SkRise(n) ELSE s
  BY DEF Clocks
<1>4. DOMAIN c = DOMAIN n /\ (p.cs = 0 => c.state = "IDLE")
  <2>1. CASE Clocks(n, p)
    <3>1. SkRise(n) \in NvramType
      BY SkRiseSound DEF Sound
    <3> QED BY <1>1, <1>3, <2>1, <3>1 DEF Clocks, NvramType
  <2>2. CASE ~ Clocks(n, p)
    BY <1>1, <1>3, <2>2 DEF BeginCmd, NvramType
  <2> QED BY <2>1, <2>2
<1> HIDE DEF c
<1> QED BY <1>1, <1>2, <1>4 DEF NvramType

LEMMA StreamStep ==
  ASSUME PinsInv, StreamInv, NEW p \in Pins, SetPins(p)
  PROVE  StreamInv'
<1>1. /\ nv \in NvramType /\ Sound(nv) /\ stream \in Seq(Bit) /\ nv' = NvramWrite(nv, p)
      /\ nv.cs \in {0, 1} /\ p.cs \in {0, 1}
  BY DEF PinsInv, Sound, NvramType, SetPins, Pins, Bit
<1>2. nv'.cs = 0 => nv'.state = "IDLE"
  BY <1>1, WrittenPins DEF StreamInv
<1>3. CASE p.cs = 1 /\ nv.cs = 0
  <2>1. stream' = <<>> /\ base' = [mem |-> nv.mem, ewen |-> nv.ewen]
    BY <1>1, <1>3 DEF Selects, SetPins
  <2> QED BY <1>1, <1>2, <1>3, <2>1, WriteSelects DEF StreamInv
<1>4. CASE ~ (p.cs = 1 /\ nv.cs = 0) /\ ~ Clocks(nv, p)
  <2>1. stream' = stream /\ base' = base
    BY <1>1, <1>4 DEF SetPins, Selects
  <2> QED BY <1>1, <1>2, <1>4, <2>1, WriteHolds DEF StreamInv
<1>5. CASE Clocks(nv, p)
  <2>1. stream' = Append(stream, nv.di) /\ base' = base
    BY <1>1, <1>5 DEF Clocks, SetPins, Selects
  <2> QED BY <1>1, <1>2, <1>5, <2>1, WriteClocks DEF StreamInv
<1> QED BY <1>3, <1>4, <1>5

(* What the pins are told and what the chip shows agree.                    *)
LEMMA StreamShows ==
  ASSUME PinsInv, StreamInv, Patience
  PROVE  nv.mem = MemAfter /\ nv.ewen = EwenAfter /\ NvramRead(nv) = Answer
<1>1. PICK z : /\ Leading(stream, z)
               /\ Patient(stream, z) => Follows(nv, stream, CommandOf(stream, z), base)
  BY DEF StreamInv, Sent
<1>2. stream \in Seq(Bit) /\ Zeros = z
  BY <1>1, ZerosAre DEF PinsInv
<1>3. Command = CommandOf(stream, z)
  BY <1>2 DEF Command, CommandOf
<1>4. Follows(nv, stream, Command, base)
  BY <1>1, <1>2, <1>3 DEF Patience, Patient
<1>5. Command \in Seq(Bit) /\ Len(Command) \in Nat
  BY <1>1, <1>2, <1>3, CommandBits, LenProperties DEF Leading
<1>6. /\ nv.cs \in {0, 1} /\ nv.mem \in [Addr -> Word] /\ nv.ewen \in BOOLEAN
      /\ base.mem \in [Addr -> Word] /\ base.ewen \in BOOLEAN
      /\ nv.cs = 0 => nv.state = "IDLE"
  BY DEF PinsInv, Sound, NvramType, Bit, StreamInv
<1>7. READ # WRITE /\ READ # ERASE /\ READ # NONE /\ WRITE # ERASE /\ WRITE # NONE /\ ERASE # NONE
  BY DEF READ, WRITE, ERASE, NONE
<1> HIDE DEF Command
<1>8. CASE Len(Command) < CmdBits
  <2>1. Gathers(nv, stream, base)
    BY <1>4, <1>8 DEF Follows
  <2>2. ~ Complete(CmdBits)
    BY <1>5, <1>8, Widths DEF Complete
  <2>3. nv.state # "READ_OUT"
    BY <1>6, <2>1 DEF Gathers
  <2>4. NvramRead(nv) = 1 /\ Answer = 1
    BY <2>2, <2>3 DEF NvramRead, Answer
  <2> QED BY <2>1, <2>2, <2>4 DEF Gathers, MemAfter, EwenAfter
<1>9. CASE Len(Command) >= CmdBits
  <2> DEFINE k == Len(Command) - CmdBits
  <2>1. Complete(CmdBits) /\ k \in Nat
    BY <1>5, <1>9, Widths DEF Complete
  <2>2. Op \in {READ, WRITE, ERASE, NONE} /\ OpAddr \in Addr
    <3>1. Op \in Seq(Bit) /\ Len(Op) = 2
      <4>1. \A i \in 2 .. 3 : Command[i] \in Bit
        BY <1>5, <1>9, Widths
      <4> QED BY <4>1, SubSeqProperties DEF Op
    <3>2. OpAddr \in Seq(Bit) /\ Len(OpAddr) = ABits
      <4>1. \A i \in 4 .. CmdBits : Command[i] \in Bit
        BY <1>5, <1>9, Widths
      <4>2. OpAddr \in Seq(Bit) /\ Len(OpAddr) = IF 4 <= CmdBits THEN CmdBits - 4 + 1 ELSE 0
        BY <4>1, SubSeqProperties, Widths DEF OpAddr
      <4> QED BY <4>2, Widths
    <3>3. OpAddr \in [1 .. ABits -> Bit]
      BY <3>2, BitsOfLength, Widths
    <3> QED BY <3>1, <3>3, Opcodes DEF Addr
  <2>3. /\ Op = READ => Reads(nv, OpAddr, k, base)
        /\ Op = WRITE => Writes(nv, Command, OpAddr, k, base)
        /\ Op = ERASE => Erases(nv, OpAddr, base)
        /\ Op = NONE => DoesOther(nv, SubSeq(OpAddr, 1, 2), base)
    <3>1. Obeyed(nv, Command, base)
      BY <1>4, <1>9 DEF Follows
    <3> QED BY <3>1 DEF Obeyed, Op, OpAddr
  <2>4. CASE Op = READ
    <3>1. nv.mem = MemAfter /\ nv.ewen = EwenAfter
      BY <1>7, <2>1, <2>3, <2>4 DEF Reads, MemAfter, EwenAfter
    <3>2. NvramRead(nv) = Answer
      <4>1. CASE nv.cs = 0
        BY <1>6, <4>1 DEF NvramRead, Answer
      <4>2. CASE nv.cs = 1
        <5>1. /\ nv.state = "READ_OUT" /\ nv.out = base.mem[OpAddr]
              /\ nv.sent = IF k < DBits + 2 THEN k + 1 ELSE DBits + 2
          BY <2>3, <2>4, <4>2 DEF Reads
        <5>2. Answer = IF k = 0 THEN 0 ELSE IF k \in 1 .. DBits THEN base.mem[OpAddr][k] ELSE 1
          BY <2>1, <2>4, <4>2 DEF Answer
        <5>3. NvramRead(nv) = IF nv.sent = 1 THEN 0
                              ELSE IF nv.sent \in 2 .. DBits + 1 THEN nv.out[nv.sent - 1] ELSE 1
          BY <5>1 DEF NvramRead
        <5> HIDE DEF k
        <5>4. CASE k \in 0 .. DBits
          <6>1. nv.sent = k + 1 /\ nv.sent - 1 = k
            BY <5>1, <5>4, Widths
          <6>2. (nv.sent = 1 <=> k = 0) /\ (nv.sent \in 2 .. DBits + 1 <=> k \in 1 .. DBits)
            BY <5>4, <6>1, Widths
          <6> QED BY <5>1, <5>2, <5>3, <6>1, <6>2
        <5>5. CASE k > DBits
          <6>1. nv.sent = DBits + 2
            BY <2>1, <5>1, <5>5, Widths
          <6>2. k # 0 /\ k \notin 1 .. DBits /\ nv.sent # 1 /\ nv.sent \notin 2 .. DBits + 1
            BY <2>1, <5>5, <6>1, Widths
          <6> QED BY <5>2, <5>3, <6>2
        <5> QED BY <2>1, <5>4, <5>5, Widths
      <4> QED BY <1>6, <4>1, <4>2
    <3> QED BY <3>1, <3>2
  <2>5. CASE Op # READ
    <3>1. nv.state # "READ_OUT"
      <4>1. CASE nv.cs = 0
        BY <1>6, <4>1
      <4>2. CASE nv.cs = 1 /\ Op = WRITE
        BY <2>1, <2>3, <4>2, Widths DEF Writes
      <4>3. CASE Op \in {ERASE, NONE}
        BY <2>3, <4>3 DEF Erases, DoesOther
      <4> QED BY <1>6, <2>2, <2>5, <4>1, <4>2, <4>3
    <3>2. NvramRead(nv) = 1 /\ Answer = 1
      BY <2>5, <3>1 DEF NvramRead, Answer
    <3>3. nv.mem = MemAfter /\ nv.ewen = EwenAfter
      <4>1. CASE Op = WRITE
        <5>1. Complete(CmdBits + DBits) <=> k >= DBits
          BY <1>5, <2>1, Widths DEF Complete
        <5> HIDE DEF k
        <5>2. CASE k >= DBits
          BY <1>7, <2>1, <2>3, <4>1, <5>1, <5>2 DEF Writes, MemAfter, EwenAfter, Data
        <5>3. CASE k < DBits
          <6>1. ~ Complete(CmdBits + DBits)
            BY <2>1, <5>1, <5>3, Widths
          <6> QED BY <1>7, <2>1, <2>3, <4>1, <5>3, <6>1 DEF Writes, MemAfter, EwenAfter
        <5> QED BY <2>1, <5>2, <5>3, Widths
      <4>2. CASE Op = ERASE
        BY <1>7, <2>1, <2>3, <4>2 DEF Erases, MemAfter, EwenAfter
      <4>3. CASE Op = NONE
        <5>1. EWDS # ERAL /\ EWDS # EWEN /\ ERAL # EWEN
          BY DEF EWDS, ERAL, EWEN
        <5> DEFINE sub == SubSeq(OpAddr, 1, 2)
        <5>2. DoesOther(nv, sub, base)
          BY <2>3, <4>3
        <5>3. /\ MemAfter = IF base.ewen /\ sub = ERAL THEN Blank ELSE base.mem
              /\ EwenAfter = CASE sub = EWEN -> TRUE [] sub = EWDS -> FALSE [] OTHER -> base.ewen
          BY <1>6, <1>7, <2>1, <4>3 DEF MemAfter, EwenAfter
        <5> HIDE DEF sub
        <5> QED BY <5>1, <5>2, <5>3 DEF DoesOther
      <4> QED BY <2>2, <2>5, <4>1, <4>2, <4>3
    <3> QED BY <3>2, <3>3
  <2> QED BY <2>4, <2>5
<1> QED BY <1>5, <1>8, <1>9, Widths

(* Memory, write enable and output are what the whole stream of bits since  *)
(* the chip was selected calls for, for every width of address and word and *)
(* wherever the stream stops: nvram_sk_rise, with its registers, counters   *)
(* and states, decodes as the data sheet says.                              *)
THEOREM StreamAlwaysMatches == PinsSpec => []MatchesStream
<1>1. PinsInit => StreamInv
  <2> SUFFICES ASSUME PinsInit PROVE StreamInv
    OBVIOUS
  <2>1. PICK image \in Images : nv = Fresh(image)
    BY DEF PinsInit
  <2>2. nv.state = "IDLE" /\ nv.cs = 0 /\ base.mem = nv.mem /\ base.ewen = nv.ewen /\ stream = <<>>
    BY <2>1 DEF PinsInit, Fresh
  <2> QED BY <2>2, FirstSelected DEF StreamInv
<1>2. PinsInv /\ StreamInv /\ [PinsNext]_pvars => StreamInv'
  <2>1. ASSUME PinsInv, StreamInv, PinsNext PROVE StreamInv'
    BY <2>1, StreamStep DEF PinsNext
  <2>2. ASSUME StreamInv, UNCHANGED pvars PROVE StreamInv'
    BY <2>2 DEF pvars, StreamInv
  <2> QED BY <2>1, <2>2
<1>3. PinsInv /\ StreamInv => MatchesStream
  BY StreamShows DEF MatchesStream
<1> QED BY <1>1, <1>2, <1>3, PinsInductive, PTL DEF PinsSpec
-----------------------------------------------------------------------------
(* The firmware's transfers.  c clocks into one, the chip has got a zero    *)
(* and the bits of the transfer.                                            *)
Tracks(n, bits, c, b) ==
  \E s \in Seq(Bit) :
    /\ Len(s) = c
    /\ c >= 1 => s[1] = 0
    /\ \A i \in 1 .. Len(bits) : i < c => s[i + 1] = bits[i]
    /\ Sent(n, s, b)

(* The bits of a transfer: none, or a command.                              *)
Bits(bits) == bits \in Seq(Bit) /\ (bits = <<>> \/ (Len(bits) >= CmdBits /\ bits[1] = 1))

LEMMA TracksStart ==
  ASSUME NEW n \in NvramType, NEW p \in Pins, p.cs = 1, n.cs = 0, NEW bits \in Seq(Bit)
  PROVE  Tracks(NvramWrite(n, p), bits, 0, [mem |-> n.mem, ewen |-> n.ewen])
<1>1. <<>> \in Seq(Bit) /\ Len(<<>>) = 0
  BY EmptySeq
<1>2. Sent(NvramWrite(n, p), <<>>, [mem |-> n.mem, ewen |-> n.ewen])
  BY WriteSelects
<1>3. \A i \in 1 .. Len(bits) : ~ (i < 0)
  OBVIOUS
<1>4. ~ (0 >= 1)
  OBVIOUS
<1> HIDE DEF Sent
<1> QED BY <1>1, <1>2, <1>3, <1>4 DEF Tracks

LEMMA TracksHold ==
  ASSUME NEW n \in NvramType, NEW p \in Pins, ~ (p.cs = 1 /\ n.cs = 0), ~ Clocks(n, p),
         NEW bits, NEW c, NEW b, Tracks(n, bits, c, b)
  PROVE  Tracks(NvramWrite(n, p), bits, c, b)
BY WriteHolds DEF Tracks

LEMMA TracksClock ==
  ASSUME NEW n, Sound(n), NEW p \in Pins, Clocks(n, p), NEW bits \in Seq(Bit), NEW c \in Nat,
         c = 0 => n.di = 0, c \in 1 .. Len(bits) => n.di = bits[c],
         NEW b, Tracks(n, bits, c, b)
  PROVE  Tracks(NvramWrite(n, p), bits, c + 1, b)
<1>1. PICK s \in Seq(Bit) :
        /\ Len(s) = c
        /\ c >= 1 => s[1] = 0
        /\ \A i \in 1 .. Len(bits) : i < c => s[i + 1] = bits[i]
        /\ Sent(n, s, b)
  BY DEF Tracks
<1>2. n.di \in Bit
  BY DEF Sound, NvramType
<1> DEFINE t == Append(s, n.di)
<1>3. /\ t \in Seq(Bit) /\ Len(t) = c + 1 /\ t[c + 1] = n.di
      /\ \A i \in 1 .. c : t[i] = s[i]
  BY <1>1, <1>2
<1>4. Sent(NvramWrite(n, p), t, b)
  BY <1>1, WriteClocks
<1> HIDE DEF t
<1>5. t[1] = 0
  BY <1>1, <1>3
<1>6. ASSUME NEW i \in 1 .. Len(bits), i < c + 1 PROVE t[i + 1] = bits[i]
  BY <1>1, <1>3, <1>6
<1> QED BY <1>3, <1>4, <1>5, <1>6 DEF Tracks

Hears(n, bits, c, b, s, z) ==
  /\ s \in Seq(Bit) /\ z \in {0, 1} /\ Len(s) = c
  /\ z = IF c = 0 THEN 0 ELSE 1
  /\ \A i \in 1 .. Len(bits) : i < c => s[i + 1] = bits[i]
  /\ Follows(n, s, CommandOf(s, z), b)

(* Its one zero does not outlast the chip's patience.                       *)
LEMMA TracksFollow ==
  ASSUME NEW n, NEW bits, Bits(bits), NEW c \in Nat, bits = <<>> => c <= 1, NEW b, Tracks(n, bits, c, b)
  PROVE  \E s, z : Hears(n, bits, c, b, s, z)
<1>1. PICK s \in Seq(Bit) :
        /\ Len(s) = c
        /\ c >= 1 => s[1] = 0
        /\ \A i \in 1 .. Len(bits) : i < c => s[i + 1] = bits[i]
        /\ Sent(n, s, b)
  BY DEF Tracks
<1>2. PICK z : Leading(s, z) /\ (Patient(s, z) => Follows(n, s, CommandOf(s, z), b))
  BY <1>1 DEF Sent
<1>3. c >= 2 => s[2] = 1
  <2> SUFFICES ASSUME c >= 2 PROVE s[2] = 1
    OBVIOUS
  <2>1. bits \in Seq(Bit) /\ Len(bits) >= CmdBits /\ bits[1] = 1
    BY DEF Bits
  <2>2. 1 \in 1 .. Len(bits) /\ 1 < c
    BY <2>1, Widths
  <2>3. s[1 + 1] = bits[1]
    BY <1>1, <2>2
  <2> QED BY <2>1, <2>3
<1>4. z = IF c = 0 THEN 0 ELSE 1
  BY <1>1, <1>2, <1>3 DEF Leading
<1>5. Patient(s, z)
  BY <1>4, Widths, BoardAssumption DEF Patient
<1>6. z \in {0, 1} /\ Follows(n, s, CommandOf(s, z), b)
  BY <1>2, <1>4, <1>5
<1> QED BY <1>1, <1>4, <1>6 DEF Hears

(* Before the command is whole nothing has been done, and nothing answers.  *)
LEMMA TracksShort ==
  ASSUME NEW n, NEW bits, Bits(bits), NEW c \in Nat, c <= CmdBits, bits = <<>> => c <= 1,
         NEW b, Tracks(n, bits, c, b)
  PROVE  n.mem = b.mem /\ n.ewen = b.ewen /\ (n.cs = 1 => n.state = "CMD")
<1>0. PICK s, z : Hears(n, bits, c, b, s, z)
  BY TracksFollow
<1>1. /\ s \in Seq(Bit) /\ z \in {0, 1} /\ Len(s) = c
      /\ z = IF c = 0 THEN 0 ELSE 1
      /\ \A i \in 1 .. Len(bits) : i < c => s[i + 1] = bits[i]
      /\ Follows(n, s, CommandOf(s, z), b)
  BY <1>0 DEF Hears
<1>2. Len(CommandOf(s, z)) = c - z
  <2>1. z \in 0 .. Len(s)
    BY <1>1
  <2> QED BY <1>1, <2>1, CommandBits
<1>3. Len(CommandOf(s, z)) < CmdBits
  BY <1>1, <1>2, Widths
<1> QED BY <1>1, <1>3 DEF Follows, Gathers

LEMMA TracksLong ==
  ASSUME NEW n, NEW bits, Bits(bits), bits # <<>>, NEW c \in Nat, c > CmdBits,
         NEW b, Tracks(n, bits, c, b)
  PROVE  \E com \in Seq(Bit) :
           /\ Len(com) = c - 1
           /\ \A i \in 1 .. Len(bits) : i < c => com[i] = bits[i]
           /\ Obeyed(n, com, b)
<1>0. PICK s, z : Hears(n, bits, c, b, s, z)
  BY TracksFollow
<1>1. /\ s \in Seq(Bit) /\ z \in {0, 1} /\ Len(s) = c
      /\ z = IF c = 0 THEN 0 ELSE 1
      /\ \A i \in 1 .. Len(bits) : i < c => s[i + 1] = bits[i]
      /\ Follows(n, s, CommandOf(s, z), b)
  BY <1>0 DEF Hears
<1>2. z = 1 /\ 1 \in 0 .. Len(s)
  BY <1>1, Widths
<1> DEFINE com == CommandOf(s, 1)
<1>3. /\ com \in Seq(Bit) /\ Len(com) = c - 1
      /\ \A i \in 1 .. c - 1 : com[i] = s[1 + i]
  BY <1>1, <1>2, CommandBits
<1>4. Follows(n, s, com, b)
  BY <1>1, <1>2
<1> HIDE DEF com
<1>5. Obeyed(n, com, b)
  BY <1>3, <1>4, Widths DEF Follows
<1>6. ASSUME NEW i \in 1 .. Len(bits), i < c PROVE com[i] = bits[i]
  <2>1. i \in 1 .. c - 1
    BY <1>6
  <2> QED BY <1>1, <1>3, <1>6, <2>1
<1> QED BY <1>3, <1>5, <1>6

(* The bits of a command, and the chip on them.                             *)
LEMMA OpBits ==
  ASSUME NEW op \in {READ, WRITE, ERASE, NONE}
  PROVE  op \in Seq(Bit) /\ Len(op) = 2
<1>1. ASSUME NEW x \in Bit, NEW y \in Bit PROVE <<x, y>> \in Seq(Bit) /\ Len(<<x, y>>) = 2
  OBVIOUS
<1>2. 0 \in Bit /\ 1 \in Bit
  BY DEF Bit
<1> QED BY <1>1, <1>2 DEF READ, WRITE, ERASE, NONE

LEMMA SendsBits ==
  ASSUME NEW op \in {READ, WRITE, ERASE, NONE}, NEW rest \in Seq(Bit), Len(rest) >= ABits
  PROVE  /\ Bits(Sends(op, rest)) /\ Sends(op, rest) # <<>> /\ Len(Sends(op, rest)) = 3 + Len(rest)
         /\ Sends(op, rest)[2] = op[1] /\ Sends(op, rest)[3] = op[2]
         /\ \A i \in 1 .. Len(rest) : Sends(op, rest)[3 + i] = rest[i]
<1>1. op \in Seq(Bit) /\ Len(op) = 2 /\ <<1>> \in Seq(Bit) /\ Len(<<1>>) = 1
  BY OpBits DEF Bit
<1> DEFINE t == op \o rest
           u == <<1>> \o t
<1>2. /\ t \in Seq(Bit) /\ Len(t) = 2 + Len(rest)
      /\ t[1] = op[1] /\ t[2] = op[2] /\ \A i \in 1 .. Len(rest) : t[2 + i] = rest[i]
  <2> HIDE DEF t
  <2>1. /\ t \in Seq(Bit) /\ Len(t) = Len(op) + Len(rest)
        /\ \A i \in 1 .. Len(op) + Len(rest) : t[i] = IF i <= Len(op) THEN op[i] ELSE rest[i - Len(op)]
    BY <1>1, ConcatProperties DEF t
  <2>2. Len(rest) \in Nat
    OBVIOUS
  <2> QED BY <1>1, <2>1, <2>2
<1> HIDE DEF t
<1>3. /\ u \in Seq(Bit) /\ Len(u) = 1 + Len(t) /\ u[1] = 1
      /\ \A i \in 1 .. Len(t) : u[1 + i] = t[i]
  BY <1>1, <1>2, ConcatProperties
<1> HIDE DEF u
<1>4. Len(rest) \in Nat /\ Len(u) = 3 + Len(rest)
  BY <1>2, <1>3
<1>5. u[2] = t[1] /\ u[3] = t[2]
  <2>1. 1 \in 1 .. Len(t) /\ 2 \in 1 .. Len(t)
    BY <1>2
  <2>2. u[1 + 1] = t[1] /\ u[1 + 2] = t[2]
    BY <1>3, <2>1
  <2> QED BY <2>2
<1>6. ASSUME NEW i \in 1 .. Len(rest) PROVE u[3 + i] = rest[i]
  <2>1. 2 + i \in 1 .. Len(t) /\ 1 + (2 + i) = 3 + i
    BY <1>2, <1>4
  <2> QED BY <1>2, <1>3, <2>1
<1>7. u = Sends(op, rest)
  <2>1. <<1>> \o op \o rest = <<1>> \o (op \o rest)
    BY <1>1, ConcatAssociative
  <2> QED BY <2>1 DEF u, t, Sends
<1>8. Len(u) >= CmdBits /\ u # <<>>
  BY <1>4, Widths
<1> QED BY <1>2, <1>3, <1>4, <1>5, <1>6, <1>7, <1>8 DEF Bits

Carries(n, op, rest, c, b, com) ==
  /\ com \in Seq(Bit) /\ Len(com) = c - 1
  /\ SubSeq(com, 2, 3) = op
  /\ SubSeq(com, 4, CmdBits) = SubSeq(rest, 1, ABits)
  /\ \A i \in 1 .. Len(rest) : 3 + i < c => com[3 + i] = rest[i]
  /\ Obeyed(n, com, b)

LEMMA TracksCommand ==
  ASSUME NEW n, NEW op \in {READ, WRITE, ERASE, NONE}, NEW rest \in Seq(Bit), Len(rest) >= ABits,
         NEW c \in Nat, c > CmdBits, NEW b, Tracks(n, Sends(op, rest), c, b)
  PROVE  \E com : Carries(n, op, rest, c, b, com)
<1> DEFINE bits == Sends(op, rest)
<1>1. /\ Bits(bits) /\ bits # <<>> /\ Len(bits) = 3 + Len(rest)
      /\ bits[2] = op[1] /\ bits[3] = op[2]
      /\ \A i \in 1 .. Len(rest) : bits[3 + i] = rest[i]
  BY SendsBits
<1>2. Tracks(n, bits, c, b)
  OBVIOUS
<1> HIDE DEF bits
<1>3. PICK com \in Seq(Bit) :
           /\ Len(com) = c - 1
           /\ \A i \in 1 .. Len(bits) : i < c => com[i] = bits[i]
           /\ Obeyed(n, com, b)
  BY <1>1, <1>2, TracksLong
<1>4. Len(rest) \in Nat /\ Len(com) >= CmdBits
  BY <1>3, Widths
<1>5. com[2] = op[1] /\ com[3] = op[2]
  BY <1>1, <1>3, <1>4, Widths
<1>6. \A i \in 1 .. Len(rest) : 3 + i < c => com[3 + i] = rest[i]
  BY <1>1, <1>3, <1>4
<1>7. SubSeq(com, 2, 3) = op
  <2>1. \A i \in 2 .. 3 : com[i] \in Bit
    BY <1>3, <1>4, Widths
  <2>2. /\ SubSeq(com, 2, 3) \in Seq(Bit) /\ Len(SubSeq(com, 2, 3)) = 2
        /\ SubSeq(com, 2, 3)[1] = com[2] /\ SubSeq(com, 2, 3)[2] = com[3]
    BY <2>1, SubSeqProperties
  <2>3. op \in Seq(Bit) /\ Len(op) = 2
    BY OpBits
  <2> QED BY <1>5, <2>2, <2>3, SeqEqual
<1>8. SubSeq(com, 4, CmdBits) = SubSeq(rest, 1, ABits)
  <2>1. \A i \in 4 .. CmdBits : com[i] \in Bit
    BY <1>3, <1>4, Widths
  <2>2. \A i \in 1 .. ABits : rest[i] \in Bit
    BY <1>4, Widths
  <2> DEFINE p == SubSeq(com, 4, CmdBits)
             q == SubSeq(rest, 1, ABits)
  <2>3. /\ p \in Seq(Bit) /\ Len(p) = IF 4 <= CmdBits THEN CmdBits - 4 + 1 ELSE 0
        /\ \A i \in 1 .. CmdBits - 4 + 1 : p[i] = com[4 + i - 1]
    BY <2>1, SubSeqProperties, Widths
  <2>4. /\ q \in Seq(Bit) /\ Len(q) = IF 1 <= ABits THEN ABits - 1 + 1 ELSE 0
        /\ \A i \in 1 .. ABits - 1 + 1 : q[i] = rest[1 + i - 1]
    BY <2>2, SubSeqProperties, Widths
  <2> HIDE DEF p, q
  <2>5. Len(p) = ABits /\ Len(q) = ABits
    BY <2>3, <2>4, Widths
  <2>6. ASSUME NEW i \in 1 .. ABits PROVE p[i] = q[i]
    <3>1. p[i] = com[3 + i]
      BY <2>3, Widths
    <3>2. q[i] = rest[i]
      BY <2>4, Widths
    <3>3. 3 + i < c /\ i \in 1 .. Len(rest)
      BY <1>4, Widths
    <3> QED BY <1>6, <3>1, <3>2, <3>3
  <2>7. p = q
    BY <2>3, <2>4, <2>5, <2>6, SeqEqual
  <2> QED BY <2>7 DEF p, q
<1> QED BY <1>3, <1>6, <1>7, <1>8 DEF Carries

LEMMA OwnBits ==
  ASSUME NEW k \in Nat \ {0}, NEW a \in [1 .. k -> Bit]
  PROVE  a \in Seq(Bit) /\ Len(a) = k /\ SubSeq(a, 1, k) = a
<1>1. a \in Seq(Bit) /\ Len(a) = k
  OBVIOUS
<1> DEFINE p == SubSeq(a, 1, k)
<1>2. /\ p \in Seq(Bit) /\ Len(p) = IF 1 <= k THEN k - 1 + 1 ELSE 0
      /\ \A i \in 1 .. k - 1 + 1 : p[i] = a[1 + i - 1]
  BY SubSeqProperties
<1> HIDE DEF p
<1>3. Len(p) = k /\ \A i \in 1 .. k : p[i] = a[i]
  BY <1>2
<1>4. p = a
  BY <1>1, <1>2, <1>3, SeqEqual
<1> QED BY <1>1, <1>4 DEF p

LEMMA Joined ==
  ASSUME NEW a \in Addr, NEW w \in Seq(Bit)
  PROVE  /\ a \o w \in Seq(Bit) /\ Len(a \o w) = ABits + Len(w) /\ SubSeq(a \o w, 1, ABits) = a
         /\ \A i \in 1 .. Len(w) : (a \o w)[ABits + i] = w[i]
<1>1. a \in Seq(Bit) /\ Len(a) = ABits /\ SubSeq(a, 1, ABits) = a
  BY OwnBits, Widths DEF Addr
<1> DEFINE t == a \o w
<1>2. /\ t \in Seq(Bit) /\ Len(t) = Len(a) + Len(w)
      /\ \A i \in 1 .. Len(a) + Len(w) : t[i] = IF i <= Len(a) THEN a[i] ELSE w[i - Len(a)]
  BY <1>1, ConcatProperties
<1> HIDE DEF t
<1>3. Len(w) \in Nat
  OBVIOUS
<1>4. \A i \in 1 .. Len(w) : t[ABits + i] = w[i]
  BY <1>1, <1>2, <1>3, Widths
<1> DEFINE p == SubSeq(t, 1, ABits)
<1>5. /\ p \in Seq(Bit) /\ Len(p) = IF 1 <= ABits THEN ABits - 1 + 1 ELSE 0
      /\ \A i \in 1 .. ABits - 1 + 1 : p[i] = t[1 + i - 1]
  <2>1. \A i \in 1 .. ABits : t[i] \in Bit
    BY <1>1, <1>2, <1>3, Widths
  <2> QED BY <2>1, SubSeqProperties, Widths
<1> HIDE DEF p
<1>6. Len(p) = ABits /\ \A i \in 1 .. ABits : p[i] = a[i]
  BY <1>1, <1>2, <1>3, <1>5, Widths
<1>7. p = a
  BY <1>1, <1>5, <1>6, SeqEqual
<1> QED BY <1>1, <1>2, <1>4, <1>7 DEF p, t

LEMMA OpsDiffer ==
  /\ READ # WRITE /\ READ # ERASE /\ READ # NONE /\ WRITE # ERASE /\ WRITE # NONE /\ ERASE # NONE
  /\ EWDS # EWEN /\ EWDS # ERAL /\ EWEN # ERAL
BY DEF READ, WRITE, ERASE, NONE, EWDS, EWEN, ERAL

(* A read changes nothing, and answers after its command.                   *)
LEMMA TracksRead ==
  ASSUME NEW n, NEW rest \in Seq(Bit), Len(rest) >= ABits,
         NEW c \in Nat, NEW b, Tracks(n, Sends(READ, rest), c, b)
  PROVE  /\ n.mem = b.mem /\ n.ewen = b.ewen
         /\ c <= CmdBits /\ n.cs = 1 => n.state = "CMD"
         /\ c > CmdBits => Reads(n, SubSeq(rest, 1, ABits), c - 1 - CmdBits, b)
<1>1. CASE c <= CmdBits
  <2>1. Bits(Sends(READ, rest)) /\ Sends(READ, rest) # <<>>
    BY SendsBits
  <2>2. n.mem = b.mem /\ n.ewen = b.ewen /\ (n.cs = 1 => n.state = "CMD")
    BY <1>1, <2>1, TracksShort
  <2> QED BY <1>1, <2>2, Widths
<1>2. CASE c > CmdBits
  <2>1. PICK com : Carries(n, READ, rest, c, b, com)
    BY <1>2, TracksCommand
  <2>2. Reads(n, SubSeq(rest, 1, ABits), c - 1 - CmdBits, b)
    BY <2>1 DEF Carries, Obeyed
  <2> QED BY <1>2, <2>2, Widths DEF Reads
<1> QED BY <1>1, <1>2, Widths

(* An erase changes its word on the last clock.                             *)
LEMMA TracksErase ==
  ASSUME NEW n, NEW a \in Addr,
         NEW c \in Nat, c <= CmdBits + 1, NEW b, Tracks(n, Sends(ERASE, a), c, b)
  PROVE  /\ n.ewen = b.ewen
         /\ n.mem = IF c = CmdBits + 1 /\ b.ewen THEN [b.mem EXCEPT ![a] = Ones] ELSE b.mem
<1>0. a \in Seq(Bit) /\ Len(a) = ABits /\ SubSeq(a, 1, ABits) = a /\ Len(a) >= ABits
  BY OwnBits, Widths DEF Addr
<1>1. CASE c <= CmdBits
  <2>1. Bits(Sends(ERASE, a)) /\ Sends(ERASE, a) # <<>>
    BY <1>0, SendsBits
  <2>2. n.mem = b.mem /\ n.ewen = b.ewen
    BY <1>1, <2>1, TracksShort
  <2> QED BY <1>1, <2>2, Widths
<1>2. CASE c = CmdBits + 1
  <2>1. c > CmdBits
    BY <1>2, Widths
  <2>2. PICK com : Carries(n, ERASE, a, c, b, com)
    BY <1>0, <2>1, TracksCommand
  <2>3. Erases(n, a, b)
    BY <1>0, <2>2 DEF Carries, Obeyed
  <2> QED BY <1>2, <2>3 DEF Erases
<1> QED BY <1>1, <1>2, Widths

(* A write changes its word on the last clock.                              *)
LEMMA TracksWrite ==
  ASSUME NEW n, NEW a \in Addr, NEW w \in Word,
         NEW c \in Nat, c <= CmdBits + DBits + 1, NEW b, Tracks(n, Sends(WRITE, a \o w), c, b)
  PROVE  /\ n.ewen = b.ewen
         /\ n.mem = IF c = CmdBits + DBits + 1 /\ b.ewen THEN [b.mem EXCEPT ![a] = w] ELSE b.mem
<1> DEFINE rest == a \o w
<1>0. w \in Seq(Bit) /\ Len(w) = DBits
  BY OwnBits, Widths DEF Word
<1>1. /\ rest \in Seq(Bit) /\ Len(rest) = ABits + DBits /\ SubSeq(rest, 1, ABits) = a
      /\ \A i \in 1 .. DBits : rest[ABits + i] = w[i]
      /\ Len(rest) >= ABits
  <2>1. /\ rest \in Seq(Bit) /\ Len(rest) = ABits + Len(w) /\ SubSeq(rest, 1, ABits) = a
        /\ \A i \in 1 .. Len(w) : rest[ABits + i] = w[i]
    BY <1>0, Joined
  <2> HIDE DEF rest
  <2> QED BY <1>0, <2>1, Widths
<1>2. Tracks(n, Sends(WRITE, rest), c, b)
  OBVIOUS
<1> HIDE DEF rest
<1>3. CASE c <= CmdBits
  <2>1. Bits(Sends(WRITE, rest)) /\ Sends(WRITE, rest) # <<>>
    BY <1>1, SendsBits
  <2>2. n.mem = b.mem /\ n.ewen = b.ewen
    BY <1>2, <1>3, <2>1, TracksShort
  <2> QED BY <1>3, <2>2, Widths
<1>4. CASE c > CmdBits
  <2>1. PICK com : Carries(n, WRITE, rest, c, b, com)
    BY <1>1, <1>2, <1>4, TracksCommand
  <2>2. Writes(n, com, a, c - 1 - CmdBits, b)
    BY <1>1, <2>1 DEF Carries, Obeyed
  <2>3. CASE c <= CmdBits + DBits
    <3>1. c - 1 - CmdBits < DBits
      BY <2>3, Widths
    <3> QED BY <2>2, <2>3, <3>1, Widths DEF Writes
  <2>4. CASE c = CmdBits + DBits + 1
    <3> DEFINE p == SubSeq(com, CmdBits + 1, CmdBits + DBits)
    <3>1. \A i \in CmdBits + 1 .. CmdBits + DBits : com[i] \in Bit
      <4>1. com \in Seq(Bit) /\ Len(com) = CmdBits + DBits
        BY <2>1, <2>4, Widths DEF Carries
      <4>2. \A i \in CmdBits + 1 .. CmdBits + DBits : i \in 1 .. CmdBits + DBits
        BY Widths
      <4> QED BY <4>1, <4>2
    <3>2. /\ p \in Seq(Bit)
          /\ Len(p) = IF CmdBits + 1 <= CmdBits + DBits THEN CmdBits + DBits - (CmdBits + 1) + 1 ELSE 0
          /\ \A i \in 1 .. CmdBits + DBits - (CmdBits + 1) + 1 : p[i] = com[(CmdBits + 1) + i - 1]
      BY <3>1, SubSeqProperties, Widths
    <3> HIDE DEF p
    <3>3. Len(p) = DBits
      BY <3>2, Widths
    <3>4. ASSUME NEW i \in 1 .. DBits PROVE p[i] = w[i]
      <4>1. p[i] = com[3 + (ABits + i)]
        <5>1. i \in 1 .. CmdBits + DBits - (CmdBits + 1) + 1 /\ (CmdBits + 1) + i - 1 = 3 + (ABits + i)
          BY Widths
        <5> QED BY <3>2, <5>1
      <4>2. ABits + i \in 1 .. Len(rest) /\ 3 + (ABits + i) < c
        BY <1>1, <2>4, Widths
      <4> QED BY <1>1, <2>1, <4>1, <4>2 DEF Carries
    <3>5. p = w
      BY <1>0, <3>2, <3>3, <3>4, SeqEqual
    <3>6. c - 1 - CmdBits >= DBits
      BY <2>4, Widths
    <3>7. n.ewen = b.ewen /\ n.mem = IF b.ewen THEN [b.mem EXCEPT ![a] = p] ELSE b.mem
      BY <2>2, <3>6, Widths DEF Writes, p
    <3> QED BY <2>4, <3>5, <3>7
  <2> QED BY <2>3, <2>4, Widths
<1> QED BY <1>3, <1>4, Widths

(* Enabling and disabling.                                                  *)
LEMMA TracksSwitch ==
  ASSUME NEW n, NEW sub \in {EWEN, EWDS}, NEW b,
         NEW c \in Nat, c <= CmdBits + 1, Tracks(n, Switch(sub).bits, c, b)
  PROVE  /\ n.mem = b.mem
         /\ n.ewen = IF c = CmdBits + 1 THEN sub = EWEN ELSE b.ewen
<1> DEFINE z == [k \in 1 .. ABits - 2 |-> 0]
           rest == sub \o z
<1>1. sub \in Seq(Bit) /\ Len(sub) = 2
  <2>1. EWEN = ERASE /\ EWDS = NONE
    BY DEF EWEN, EWDS, ERASE, NONE
  <2> QED BY <2>1, OpBits
<1>2. z \in Seq(Bit) /\ Len(z) = ABits - 2
  <2>1. ABits - 2 \in Nat /\ 0 \in Bit
    BY Widths DEF Bit
  <2> QED BY <2>1
<1> HIDE DEF z
<1>3. /\ rest \in Seq(Bit) /\ Len(rest) = ABits
      /\ rest[1] = sub[1] /\ rest[2] = sub[2]
  <2> HIDE DEF rest
  <2>1. /\ rest \in Seq(Bit) /\ Len(rest) = Len(sub) + Len(z)
        /\ \A i \in 1 .. Len(sub) + Len(z) : rest[i] = IF i <= Len(sub) THEN sub[i] ELSE z[i - Len(sub)]
    BY <1>1, <1>2, ConcatProperties DEF rest
  <2>2. Len(sub) + Len(z) = ABits /\ 1 \in 1 .. ABits /\ 2 \in 1 .. ABits
    BY <1>1, <1>2, Widths
  <2>3. rest[1] = sub[1] /\ rest[2] = sub[2]
    BY <1>1, <2>1, <2>2
  <2> QED BY <2>1, <2>2, <2>3
<1>4. Tracks(n, Sends(NONE, rest), c, b)
  BY DEF Switch, Transfer, rest, z
<1> HIDE DEF rest
<1>5. rest \in Addr /\ SubSeq(rest, 1, ABits) = rest /\ Len(rest) >= ABits
  <2>1. rest \in [1 .. ABits -> Bit]
    BY <1>3, BitsOfLength, Widths
  <2> QED BY <1>3, <2>1, OwnBits, Widths DEF Addr
<1>6. CASE c <= CmdBits
  <2>1. Bits(Sends(NONE, rest)) /\ Sends(NONE, rest) # <<>>
    BY <1>3, <1>5, SendsBits
  <2>2. n.mem = b.mem /\ n.ewen = b.ewen
    BY <1>4, <1>6, <2>1, TracksShort
  <2> QED BY <1>6, <2>2, Widths
<1>7. CASE c = CmdBits + 1
  <2>1. c > CmdBits
    BY <1>7, Widths
  <2>2. PICK com : Carries(n, NONE, rest, c, b, com)
    BY <1>3, <1>4, <1>5, <2>1, TracksCommand
  <2>3. DoesOther(n, SubSeq(rest, 1, 2), b)
    BY <1>5, <2>2 DEF Carries, Obeyed
  <2>4. SubSeq(rest, 1, 2) = sub
    <3>1. \A i \in 1 .. 2 : rest[i] \in Bit
      BY <1>3, Widths
    <3>2. /\ SubSeq(rest, 1, 2) \in Seq(Bit) /\ Len(SubSeq(rest, 1, 2)) = 2
          /\ SubSeq(rest, 1, 2)[1] = rest[1] /\ SubSeq(rest, 1, 2)[2] = rest[2]
      BY <3>1, SubSeqProperties
    <3> QED BY <1>1, <1>3, <3>2, SeqEqual
  <2>5. DoesOther(n, sub, b)
    BY <2>3, <2>4
  <2>6. n.mem = b.mem
    BY <2>5, OpsDiffer DEF DoesOther
  <2>7. n.ewen = (sub = EWEN)
    BY <2>5, OpsDiffer DEF DoesOther
  <2> QED BY <1>7, <2>6, <2>7
<1> QED BY <1>6, <1>7, Widths
-----------------------------------------------------------------------------
(* The invariant of the board.  Where the routine is.                       *)
Busy == fw.op # Idle /\ ~ Finished

FwType ==
  fw \in [op: Ops \cup {Idle}, tr: Nat \ {0}, clk: Nat, edge: 0 .. 3, acc: Seq(Bit),
          looks: Nat, result: Seq(Bit), size: Nat]

Placed ==
  /\ fw.op # Idle => fw.tr <= Len(Routine(fw.op)) + 1
  /\ Busy => fw.clk <= LastClock(Now) /\ (fw.edge = 3 => Looked)
  /\ ~ Busy => fw.edge = 0

(* What its last writes have left on the pins.                              *)
Chosen ==
  Busy /\ (IF fw.edge = 0 THEN fw.clk - 1 \in Selecting(Now) ELSE fw.clk \in Selecting(Now))

Levels ==
  /\ nv.cs = 0 => nv.state = "IDLE"
  /\ nv.cs = IF Chosen THEN 1 ELSE 0
  /\ fw.edge # 2 => nv.sk = 0
  /\ Busy /\ fw.edge = 1 /\ fw.clk = 1 => nv.di = 0
  /\ Busy /\ fw.edge = 1 /\ fw.clk \in Sending(Now) => nv.di = Now.bits[fw.clk - 1]

(* How many clocks the chip has had of the transfer in progress.            *)
Clocked == IF fw.edge >= 2 THEN fw.clk ELSE fw.clk - 1

Base == [mem: [Addr -> Word], ewen: BOOLEAN]

Tracked ==
  Busy /\ fw.clk \in Selecting(Now) /\ ~ (fw.clk = 1 /\ fw.edge = 0) =>
    \E b \in Base : Tracks(nv, Now.bits, Clocked, b)

(* The chip has had all n bits of transfer k: what that has done.           *)
Past(k, n) == fw.tr > k \/ (fw.tr = k /\ Clocked > n)

Lands ==
  /\ fw.op.kind = "erase" /\ Past(1, CmdBits) /\ nv.ewen => nv.mem[fw.op.a] = Ones
  /\ fw.op.kind = "write" /\ Past(4, CmdBits + DBits) /\ nv.ewen => nv.mem[fw.op.a] = fw.op.w
  /\ fw.op.kind \in {"enable", "disable"} /\ Past(1, CmdBits) => nv.ewen = (fw.op.kind = "enable")

(* The bits that have come in: the 0 before the answer, and the word.       *)
Taken ==
  IF fw.clk <= CmdBits + 1 THEN 0
  ELSE IF fw.clk > CmdBits + DBits + 2 THEN DBits + 1
  ELSE IF fw.edge = 0 THEN fw.clk - CmdBits - 2 ELSE fw.clk - CmdBits - 1

Collected ==
  fw.op.kind \in {"read", "write"} =>
    /\ \A i \in 2 .. Len(fw.acc) : fw.acc[i] = nv.mem[fw.op.a][i - 1]
    /\ fw.tr = 1 => Len(fw.acc) = Taken
    /\ fw.tr > 1 => Len(fw.acc) = DBits + 1 \/ (fw.op.kind = "write" /\ fw.acc = <<>>)
    /\ fw.op.kind = "write" /\ (fw.tr > 2 \/ (fw.tr = 2 /\ fw.clk + fw.edge > 0)) => fw.acc = <<>>

(* The address bits the probe has looked behind.                            *)
Probed ==
  fw.op.kind = "size" =>
    fw.looks = IF fw.tr > 1 \/ fw.clk > MaxProbe + 4 THEN ABits
               ELSE IF fw.clk < 5 THEN 0 ELSE fw.clk - 5

Waiting ==
  fw.op.kind = "size" /\ fw.tr = 1 /\ fw.clk <= MaxProbe + 4 => fw.clk <= ABits + 4

Imaged == file = None \/ \E m \in [Addr -> Word] : file = SaveFile(m)

BoardInv ==
  /\ Sound(nv) /\ FwType /\ Placed /\ Levels /\ Tracked
  /\ Lands /\ Collected /\ Probed /\ Waiting /\ SizeFound /\ Imaged

(* A routine, and its transfers.                                            *)
LEMMA OpKinds ==
  ASSUME NEW op \in Ops
  PROVE  /\ op # Idle
         /\ op.kind \in {"read", "erase", "write", "enable", "disable", "size"}
         /\ op.kind \in {"read", "erase", "write"} => op.a \in Addr
         /\ op.kind = "write" => op.w \in Word
BY BoardAssumption DEF Ops, Idle

LEMMA RoutineOf ==
  ASSUME NEW op \in Ops
  PROVE  /\ op.kind = "read" => Routine(op) = <<ReadWord(op.a)>>
         /\ op.kind = "erase" => Routine(op) = <<EraseWord(op.a), Check>>
         /\ op.kind = "write" =>
              Routine(op) = <<ReadWord(op.a), EraseWord(op.a), Check, WriteWord(op.a, op.w), Check>>
         /\ op.kind = "enable" => Routine(op) = <<Switch(EWEN)>>
         /\ op.kind = "disable" => Routine(op) = <<Switch(EWDS)>>
         /\ op.kind = "size" => Routine(op) = <<Size>>
BY OpKinds DEF Routine

Form(t) == Bits(t.bits) /\ Len(t.bits) \in Nat /\ t.ins \in Nat /\ (t.bits = <<>> => t.ins = 0)

LEMMA CheckForm == Form(Check) /\ Check.bits = <<>> /\ Len(Check.bits) = 0 /\ Check.ins = 0
<1>1. Check.bits = <<>> /\ Check.ins = 0
  BY DEF Check, Transfer
<1>2. <<>> \in Seq(Bit) /\ Len(<<>>) = 0
  BY EmptySeq
<1>3. Bits(<<>>) /\ 0 \in Nat
  BY <1>2 DEF Bits
<1> QED BY <1>1, <1>2, <1>3 DEF Form

LEMMA ReadForm ==
  ASSUME NEW a \in Addr
  PROVE  /\ Form(ReadWord(a)) /\ ReadWord(a).bits = Sends(READ, a)
         /\ Len(ReadWord(a).bits) = CmdBits /\ ReadWord(a).ins = DBits + 1
<1>1. a \in Seq(Bit) /\ Len(a) = ABits /\ Len(a) >= ABits
  BY OwnBits, Widths DEF Addr
<1>2. /\ Bits(Sends(READ, a)) /\ Sends(READ, a) # <<>> /\ Len(Sends(READ, a)) = 3 + Len(a)
  BY <1>1, SendsBits
<1>3. ReadWord(a).bits = Sends(READ, a) /\ ReadWord(a).ins = DBits + 1
  BY DEF ReadWord, Transfer
<1> QED BY <1>1, <1>2, <1>3, Widths DEF Form

LEMMA EraseForm ==
  ASSUME NEW a \in Addr
  PROVE  /\ Form(EraseWord(a)) /\ EraseWord(a).bits = Sends(ERASE, a)
         /\ Len(EraseWord(a).bits) = CmdBits /\ EraseWord(a).ins = 0
<1>1. a \in Seq(Bit) /\ Len(a) = ABits /\ Len(a) >= ABits
  BY OwnBits, Widths DEF Addr
<1>2. /\ Bits(Sends(ERASE, a)) /\ Sends(ERASE, a) # <<>> /\ Len(Sends(ERASE, a)) = 3 + Len(a)
  BY <1>1, SendsBits
<1>3. EraseWord(a).bits = Sends(ERASE, a) /\ EraseWord(a).ins = 0
  BY DEF EraseWord, Transfer
<1> QED BY <1>1, <1>2, <1>3, Widths DEF Form

LEMMA WriteForm ==
  ASSUME NEW a \in Addr, NEW w \in Word
  PROVE  /\ Form(WriteWord(a, w)) /\ WriteWord(a, w).bits = Sends(WRITE, a \o w)
         /\ Len(WriteWord(a, w).bits) = CmdBits + DBits /\ WriteWord(a, w).ins = 0
<1> DEFINE r == a \o w
<1>1. r \in Seq(Bit) /\ Len(r) = ABits + DBits
  <2>1. w \in Seq(Bit) /\ Len(w) = DBits
    BY OwnBits, Widths DEF Word
  <2> QED BY <2>1, Joined
<1>2. WriteWord(a, w).bits = Sends(WRITE, r) /\ WriteWord(a, w).ins = 0
  BY DEF WriteWord, Transfer
<1> HIDE DEF r
<1>3. Len(r) >= ABits
  BY <1>1, Widths
<1>4. /\ Bits(Sends(WRITE, r)) /\ Sends(WRITE, r) # <<>> /\ Len(Sends(WRITE, r)) = 3 + Len(r)
  BY <1>1, <1>3, SendsBits
<1> QED BY <1>1, <1>2, <1>4, Widths DEF Form, r

LEMMA SwitchForm ==
  ASSUME NEW sub \in {EWEN, EWDS}
  PROVE  Form(Switch(sub)) /\ Len(Switch(sub).bits) = CmdBits /\ Switch(sub).ins = 0
<1> DEFINE z == [k \in 1 .. ABits - 2 |-> 0]
           r == sub \o z
<1>1. sub \in Seq(Bit) /\ Len(sub) = 2
  <2>1. EWEN = ERASE /\ EWDS = NONE
    BY DEF EWEN, EWDS, ERASE, NONE
  <2> QED BY <2>1, OpBits
<1>2. z \in Seq(Bit) /\ Len(z) = ABits - 2
  <2>1. ABits - 2 \in Nat /\ 0 \in Bit
    BY Widths DEF Bit
  <2> QED BY <2>1
<1>3. Switch(sub).bits = Sends(NONE, r) /\ Switch(sub).ins = 0
  BY DEF Switch, Transfer
<1> HIDE DEF z
<1>4. r \in Seq(Bit) /\ Len(r) = ABits
  <2>1. r \in Seq(Bit) /\ Len(r) = Len(sub) + Len(z)
    BY <1>1, <1>2, ConcatProperties
  <2> QED BY <1>1, <1>2, <2>1, Widths
<1> HIDE DEF r
<1>5. Len(r) >= ABits
  BY <1>4, Widths
<1>6. /\ Bits(Sends(NONE, r)) /\ Sends(NONE, r) # <<>> /\ Len(Sends(NONE, r)) = 3 + Len(r)
  BY <1>4, <1>5, SendsBits
<1> QED BY <1>3, <1>4, <1>6, Widths DEF Form

LEMMA SizeForm ==
  /\ Form(Size) /\ Len(Size.bits) = 3 + MaxProbe /\ Size.ins = 0
  /\ \E r \in Seq(Bit) : Len(r) = MaxProbe /\ Size.bits = Sends(READ, r)
<1> DEFINE r == [k \in 1 .. MaxProbe |-> 1]
<1>1. MaxProbe \in Nat /\ MaxProbe > ABits
  BY BoardAssumption
<1>2. r \in Seq(Bit) /\ Len(r) = MaxProbe
  <2>1. 1 \in Bit
    BY DEF Bit
  <2> QED BY <1>1, <2>1
<1>3. Size.bits = Sends(READ, r) /\ Size.ins = 0
  BY DEF Size, Transfer
<1> HIDE DEF r
<1>4. Len(r) >= ABits
  BY <1>1, <1>2, Widths
<1>5. /\ Bits(Sends(READ, r)) /\ Sends(READ, r) # <<>> /\ Len(Sends(READ, r)) = 3 + Len(r)
  BY <1>2, <1>4, SendsBits
<1>6. Form(Size) /\ Len(Size.bits) = 3 + MaxProbe
  BY <1>1, <1>2, <1>3, <1>5 DEF Form
<1> QED BY <1>2, <1>3, <1>6

(* The output port carries the three levels.                                *)
LEMMA PortBits ==
  ASSUME NEW sk \in Bit, NEW cs \in Bit, NEW di \in Bit
  PROVE  PinsFromOpr(Opr(sk, cs, di)) = [di |-> di, sk |-> sk, cs |-> cs]
<1> DEFINE q == <<di, cs, sk>>
           o == Opr(sk, cs, di)
<1>1. o = {b \in 4 .. 6 : q[b - 3] = 1}
  BY DEF Opr
<1>2. q[1] = di /\ q[2] = cs /\ q[3] = sk
  OBVIOUS
<1> HIDE DEF q, o
<1>3. (4 \in o <=> di = 1) /\ (5 \in o <=> cs = 1) /\ (6 \in o <=> sk = 1)
  <2>1. 4 - 3 = 1 /\ 5 - 3 = 2 /\ 6 - 3 = 3 /\ 4 \in 4 .. 6 /\ 5 \in 4 .. 6 /\ 6 \in 4 .. 6
    OBVIOUS
  <2> QED BY <1>1, <1>2, <2>1
<1>4. di \in {0, 1} /\ cs \in {0, 1} /\ sk \in {0, 1}
  BY DEF Bit
<1>5. PinsFromOpr(o) = [di |-> di, sk |-> sk, cs |-> cs]
  BY <1>3, <1>4 DEF PinsFromOpr
<1> QED BY <1>5 DEF o

LEMMA PortPins ==
  ASSUME NEW t, Form(t), NEW clk \in Nat, NEW edge \in 0 .. 3, NEW p, p = PinsFromOpr(Port(t, clk, edge))
  PROVE  /\ p \in Pins
         /\ p.sk = IF edge = 1 THEN 1 ELSE 0
         /\ p.cs = IF clk \in Selecting(t) THEN 1 ELSE 0
         /\ p.di = IF clk \in Sending(t) THEN t.bits[clk - 1] ELSE 0
<1> DEFINE sk == IF edge = 1 THEN 1 ELSE 0
           cs == IF clk \in Selecting(t) THEN 1 ELSE 0
           di == IF clk \in Sending(t) THEN t.bits[clk - 1] ELSE 0
<1>1. t.bits \in Seq(Bit) /\ Len(t.bits) \in Nat /\ t.ins \in Nat
  BY DEF Form, Bits
<1>2. sk \in Bit /\ cs \in Bit /\ di \in Bit
  BY <1>1 DEF Bit, Sending
<1>3. clk \in Sending(t) => clk \in Selecting(t)
  BY <1>1 DEF Sending, Selecting
<1>4. Port(t, clk, edge) = Opr(sk, cs, di)
  BY <1>3 DEF Port, Pulse
<1> HIDE DEF sk, cs, di
<1>5. p = [di |-> di, sk |-> sk, cs |-> cs]
  BY <1>2, <1>4, PortBits
<1>6. p \in Pins /\ p.sk = sk /\ p.cs = cs /\ p.di = di
  BY <1>2, <1>5 DEF Pins
<1> QED BY <1>6 DEF sk, cs, di

(* The transfers of a routine, and the one in progress.                     *)
LEMMA RoutineForms ==
  ASSUME NEW op \in Ops, NEW k \in Nat \ {0}, ~ (k > Len(Routine(op)))
  PROVE  Len(Routine(op)) \in Nat /\ Form(Routine(op)[k])
<1>2. /\ op.kind \in {"read", "erase", "write", "enable", "disable", "size"}
      /\ op.kind \in {"read", "erase", "write"} => op.a \in Addr
      /\ op.kind = "write" => op.w \in Word
  BY OpKinds
<1>4. CASE op.kind = "read"
  <2>1. Routine(op) = <<ReadWord(op.a)>> /\ Form(ReadWord(op.a))
    BY <1>2, <1>4, RoutineOf, ReadForm
  <2> QED BY <2>1
<1>5. CASE op.kind = "erase"
  <2>1. Routine(op) = <<EraseWord(op.a), Check>> /\ Form(EraseWord(op.a)) /\ Form(Check)
    BY <1>2, <1>5, RoutineOf, EraseForm, CheckForm
  <2> QED BY <2>1
<1>6. CASE op.kind = "write"
  <2> DEFINE a == op.a
             w == op.w
  <2>1. /\ Routine(op) = <<ReadWord(a), EraseWord(a), Check, WriteWord(a, w), Check>>
        /\ Form(ReadWord(a)) /\ Form(EraseWord(a)) /\ Form(Check) /\ Form(WriteWord(a, w))
    BY <1>2, <1>6, RoutineOf, ReadForm, EraseForm, WriteForm, CheckForm
  <2> QED BY <2>1
<1>7. CASE op.kind \in {"enable", "disable"}
  <2>1. PICK sub \in {EWEN, EWDS} : Routine(op) = <<Switch(sub)>>
    BY <1>7, RoutineOf
  <2>2. Form(Switch(sub))
    BY SwitchForm
  <2> QED BY <2>1, <2>2
<1>8. CASE op.kind = "size"
  <2>1. Routine(op) = <<Size>> /\ Form(Size)
    BY <1>8, RoutineOf, SizeForm
  <2> QED BY <2>1
<1> QED BY <1>2, <1>4, <1>5, <1>6, <1>7, <1>8

LEMMA NowForm ==
  ASSUME FwType, Busy
  PROVE  /\ fw.op \in Ops /\ fw.tr \in 1 .. Len(Routine(fw.op)) /\ Len(Routine(fw.op)) \in Nat
         /\ Form(Now)
<1>1. fw.op \in Ops /\ fw.tr \in Nat \ {0} /\ ~ (fw.tr > Len(Routine(fw.op)))
  BY DEF FwType, Busy, Finished
<1>2. Len(Routine(fw.op)) \in Nat /\ Form(Routine(fw.op)[fw.tr])
  BY <1>1, RoutineForms
<1> QED BY <1>1, <1>2 DEF Now

-----------------------------------------------------------------------------
(* One write of the port.  The routine moves on within the clock, to the    *)
(* next clock or to the next transfer.                                      *)
SameCall == /\ fw'.op = fw.op /\ fw'.acc = fw.acc /\ fw'.looks = fw.looks
            /\ fw'.result = fw.result /\ fw'.size = fw.size

Within == /\ fw.edge < 2 \/ (fw.edge = 2 /\ Looked)
          /\ fw'.tr = fw.tr /\ fw'.clk = fw.clk /\ fw'.edge = fw.edge + 1
ToClock == /\ fw.edge = 2 /\ ~ Looked /\ fw.clk < LastClock(Now)
           /\ fw'.tr = fw.tr /\ fw'.clk = fw.clk + 1 /\ fw'.edge = 0
ToTransfer == /\ fw.edge = 2 /\ ~ Looked /\ fw.clk = LastClock(Now)
              /\ fw'.tr = fw.tr + 1 /\ fw'.clk = 0 /\ fw'.edge = 0

LEMMA PutMoves ==
  ASSUME FwType, Placed, PutStep
  PROVE  FwType' /\ SameCall /\ (Within \/ ToClock \/ ToTransfer)
<1>1. /\ Busy /\ fw.edge \in 0 .. 2 /\ fw.clk \in Nat /\ fw.tr \in Nat \ {0}
      /\ fw' = IF fw.edge < 2 \/ Looked THEN [fw EXCEPT !.edge = @ + 1] ELSE NextClock(fw)
  BY DEF PutStep, Running, Busy, LookDue, FwType
<1>2. Form(Now)
  BY <1>1, NowForm
<1>3. LastClock(Now) \in Nat /\ fw.clk <= LastClock(Now)
  BY <1>1, <1>2 DEF Form, LastClock, Placed
<1> HIDE DEF Looked, Now
<1>4. CASE fw.edge < 2 \/ Looked
  <2>1. fw' = [fw EXCEPT !.edge = fw.edge + 1] /\ fw.edge + 1 \in 0 .. 3
    BY <1>1, <1>4 DEF FwType
  <2>2. FwType' /\ SameCall /\ fw'.tr = fw.tr /\ fw'.clk = fw.clk /\ fw'.edge = fw.edge + 1
    BY <2>1 DEF FwType, SameCall
  <2>3. fw.edge < 2 \/ (fw.edge = 2 /\ Looked)
    BY <1>1, <1>4
  <2> QED BY <2>2, <2>3 DEF Within
<1>5. CASE ~ (fw.edge < 2 \/ Looked) /\ fw.clk < LastClock(Now)
  <2>1. fw' = [fw EXCEPT !.clk = fw.clk + 1, !.edge = 0] /\ fw.clk + 1 \in Nat
    BY <1>1, <1>5 DEF FwType, NextClock
  <2> DEFINE c == fw.clk + 1
  <2> HIDE DEF c
  <2>4. fw' = [fw EXCEPT !.clk = c, !.edge = 0] /\ c \in Nat /\ 0 \in 0 .. 3
    BY <2>1 DEF c
  <2>5. FwType' /\ SameCall /\ fw'.tr = fw.tr /\ fw'.clk = c /\ fw'.edge = 0
    BY <2>4 DEF FwType, SameCall
  <2>2. FwType' /\ SameCall /\ fw'.tr = fw.tr /\ fw'.clk = fw.clk + 1 /\ fw'.edge = 0
    BY <2>5 DEF c
  <2>3. fw.edge = 2 /\ ~ Looked /\ fw.clk < LastClock(Now)
    BY <1>1, <1>5
  <2> QED BY <2>2, <2>3 DEF ToClock
<1>6. CASE ~ (fw.edge < 2 \/ Looked) /\ ~ (fw.clk < LastClock(Now))
  <2>1. fw' = [fw EXCEPT !.tr = fw.tr + 1, !.clk = 0, !.edge = 0] /\ fw.tr + 1 \in Nat \ {0}
    BY <1>1, <1>6 DEF FwType, NextClock
  <2> DEFINE r == fw.tr + 1
  <2> HIDE DEF r
  <2>4. fw' = [fw EXCEPT !.tr = r, !.clk = 0, !.edge = 0] /\ r \in Nat \ {0} /\ 0 \in Nat /\ 0 \in 0 .. 3
    BY <2>1 DEF r
  <2>5. FwType' /\ SameCall /\ fw'.tr = r /\ fw'.clk = 0 /\ fw'.edge = 0
    BY <2>4 DEF FwType, SameCall
  <2>2. FwType' /\ SameCall /\ fw'.tr = fw.tr + 1 /\ fw'.clk = 0 /\ fw'.edge = 0
    BY <2>5 DEF r
  <2>3. fw.edge = 2 /\ ~ Looked /\ fw.clk = LastClock(Now)
    BY <1>1, <1>3, <1>6
  <2> QED BY <2>2, <2>3 DEF ToTransfer
<1> QED BY <1>4, <1>5, <1>6

(* The clock rises.                                                         *)
Rises == fw.edge = 1 /\ fw.clk \in Selecting(Now)

LEMMA PutPins ==
  ASSUME Sound(nv), FwType, Placed, Levels, Tracked, PutStep
  PROVE  /\ Sound(nv') /\ (nv'.cs = 0 => nv'.state = "IDLE")
         /\ nv'.cs = IF fw.clk \in Selecting(Now) THEN 1 ELSE 0
         /\ nv'.sk = IF fw.edge = 1 THEN 1 ELSE 0
         /\ nv'.di = IF fw.clk \in Sending(Now) THEN Now.bits[fw.clk - 1] ELSE 0
         /\ ~ Rises => nv'.mem = nv.mem /\ nv'.ewen = nv.ewen
         /\ Rises => \E b \in Base : /\ Tracks(nv, Now.bits, fw.clk - 1, b)
                                     /\ Tracks(nv', Now.bits, fw.clk, b)
         /\ fw.clk \in Selecting(Now) =>
              \E b \in Base : Tracks(nv', Now.bits, IF fw.edge >= 1 THEN fw.clk ELSE fw.clk - 1, b)
<1> DEFINE t == Now
           p == PinsFromOpr(Port(t, fw.clk, fw.edge))
<1>1. Busy /\ fw.edge \in 0 .. 2 /\ fw.clk \in Nat /\ nv' = NvramWrite(nv, p) /\ ~ GetDue
  BY DEF PutStep, Running, Busy, LookDue, FwType
<1>2. Form(t)
  BY <1>1, NowForm
<1>3. /\ p \in Pins
      /\ p.sk = IF fw.edge = 1 THEN 1 ELSE 0
      /\ p.cs = IF fw.clk \in Selecting(t) THEN 1 ELSE 0
      /\ p.di = IF fw.clk \in Sending(t) THEN t.bits[fw.clk - 1] ELSE 0
  <2>1. fw.edge \in 0 .. 3
    BY <1>1
  <2> QED BY <1>1, <1>2, <2>1, PortPins
<1>4. /\ nv \in NvramType /\ (nv.cs = 0 => nv.state = "IDLE")
      /\ nv.cs = IF (IF fw.edge = 0 THEN fw.clk - 1 \in Selecting(t) ELSE fw.clk \in Selecting(t)) THEN 1 ELSE 0
      /\ fw.edge # 2 => nv.sk = 0
      /\ fw.edge = 1 /\ fw.clk = 1 => nv.di = 0
      /\ fw.edge = 1 /\ fw.clk \in Sending(t) => nv.di = t.bits[fw.clk - 1]
  BY <1>1 DEF Levels, Chosen, Sound
<1>5. fw.clk \in Selecting(t) /\ ~ (fw.clk = 1 /\ fw.edge = 0) =>
        \E b \in Base : Tracks(nv, t.bits, IF fw.edge >= 2 THEN fw.clk ELSE fw.clk - 1, b)
  BY <1>1 DEF Tracked, Clocked
<1>6. /\ t.bits \in Seq(Bit) /\ Len(t.bits) \in Nat /\ t.ins \in Nat
      /\ Selecting(t) = 1 .. Len(t.bits) + t.ins + 1
      /\ Sending(t) = 2 .. Len(t.bits) + 1
  BY <1>2 DEF Form, Bits, Selecting, Sending
<1> HIDE DEF p, t
<1>7. Sound(nv')
  BY <1>1, <1>3, NvramWriteSound
<1>8. nv'.cs = p.cs /\ nv'.sk = p.sk /\ nv'.di = p.di /\ (p.cs = 0 => nv'.state = "IDLE")
  BY <1>1, <1>3, <1>4, WrittenPins
<1>9. Clocks(nv, p) <=> (fw.edge = 1 /\ fw.clk \in Selecting(t))
  BY <1>1, <1>3, <1>4 DEF Clocks
<1>10. (p.cs = 1 /\ nv.cs = 0) <=> (fw.edge = 0 /\ fw.clk = 1)
  <2>1. 1 \in Selecting(t) /\ 0 \notin Selecting(t)
    BY <1>6
  <2>2. fw.edge = 0 /\ fw.clk \in Selecting(t) /\ fw.clk # 1 => fw.clk - 1 \in Selecting(t)
    BY <1>1, <1>6
  <2> QED BY <1>1, <1>3, <1>4, <2>1, <2>2
<1>11. CASE fw.edge = 0 /\ fw.clk = 1
  <2>1. Tracks(nv', t.bits, 0, [mem |-> nv.mem, ewen |-> nv.ewen])
    BY <1>1, <1>3, <1>4, <1>6, <1>10, <1>11, TracksStart
  <2>2. [mem |-> nv.mem, ewen |-> nv.ewen] \in Base
    BY <1>4 DEF NvramType, Base
  <2>3. ~ Clocks(nv, p) /\ nv'.mem = nv.mem /\ nv'.ewen = nv.ewen
    <3>1. ~ Clocks(nv, p)
      BY <1>9, <1>11
    <3>2. nv' = [BeginCmd(nv) EXCEPT !.cs = p.cs, !.sk = p.sk, !.di = p.di]
      BY <1>1, <1>10, <1>11, <3>1 DEF NvramWrite
    <3> QED BY <1>4, <3>1, <3>2 DEF BeginCmd, NvramType
  <2>4. (IF fw.edge >= 1 THEN fw.clk ELSE fw.clk - 1) = 0
    BY <1>11
  <2> QED BY <1>3, <1>7, <1>8, <1>9, <2>1, <2>2, <2>3, <2>4 DEF Rises, t
<1>12. CASE ~ (fw.edge = 0 /\ fw.clk = 1) /\ ~ Clocks(nv, p)
  <2>1. nv'.mem = nv.mem /\ nv'.ewen = nv.ewen
    BY <1>1, <1>3, <1>4, <1>10, <1>12, WriteHolds
  <2>2. ASSUME fw.clk \in Selecting(t)
        PROVE  \E b \in Base : Tracks(nv', t.bits, IF fw.edge >= 1 THEN fw.clk ELSE fw.clk - 1, b)
    <3>1. PICK b \in Base : Tracks(nv, t.bits, IF fw.edge >= 2 THEN fw.clk ELSE fw.clk - 1, b)
      BY <1>5, <1>12, <2>2
    <3>2. fw.edge # 1
      BY <1>9, <1>12, <2>2
    <3>3. (IF fw.edge >= 2 THEN fw.clk ELSE fw.clk - 1) = (IF fw.edge >= 1 THEN fw.clk ELSE fw.clk - 1)
      BY <1>1, <3>2
    <3>4. Tracks(nv', t.bits, IF fw.edge >= 2 THEN fw.clk ELSE fw.clk - 1, b)
      BY <1>1, <1>3, <1>4, <1>10, <1>12, <3>1, TracksHold
    <3> QED BY <3>3, <3>4
  <2> QED BY <1>3, <1>7, <1>8, <1>9, <1>12, <2>1, <2>2 DEF Rises, t
<1>13. CASE Clocks(nv, p)
  <2>1. fw.edge = 1 /\ fw.clk \in Selecting(t) /\ fw.clk - 1 \in Nat
    BY <1>1, <1>6, <1>9, <1>13
  <2>2. PICK b \in Base : Tracks(nv, t.bits, fw.clk - 1, b)
    <3>1. (IF fw.edge >= 2 THEN fw.clk ELSE fw.clk - 1) = fw.clk - 1
      BY <2>1
    <3> QED BY <1>5, <2>1, <3>1
  <2>3. fw.clk - 1 = 0 => nv.di = 0
    BY <1>1, <1>4, <2>1
  <2>4. fw.clk - 1 \in 1 .. Len(t.bits) => nv.di = t.bits[fw.clk - 1]
    BY <1>1, <1>4, <1>6, <2>1
  <2>5. Tracks(nv', t.bits, (fw.clk - 1) + 1, b)
    <3> DEFINE c == fw.clk - 1
    <3>1. c \in Nat /\ (c = 0 => nv.di = 0) /\ (c \in 1 .. Len(t.bits) => nv.di = t.bits[c])
          /\ Tracks(nv, t.bits, c, b)
      BY <2>1, <2>2, <2>3, <2>4
    <3> HIDE DEF c
    <3>2. Tracks(nv', t.bits, c + 1, b)
      BY <1>1, <1>3, <1>6, <1>13, <3>1, TracksClock
    <3> QED BY <3>2 DEF c
  <2>6. Tracks(nv', t.bits, fw.clk, b)
    <3>1. (fw.clk - 1) + 1 = fw.clk
      BY <1>1
    <3> QED BY <2>5, <3>1
  <2>7. (IF fw.edge >= 1 THEN fw.clk ELSE fw.clk - 1) = fw.clk
    BY <2>1
  <2> QED BY <1>3, <1>7, <1>8, <1>9, <1>13, <2>2, <2>6, <2>7 DEF Rises, t
<1> QED BY <1>11, <1>12, <1>13

LEMMA PutWires ==
  ASSUME Sound(nv), FwType, Placed, Levels, Tracked, PutStep
  PROVE  Placed' /\ Levels' /\ Tracked'
<1> DEFINE t == Now
<1>1. /\ FwType' /\ SameCall /\ (Within \/ ToClock \/ ToTransfer)
      /\ Busy /\ fw.edge \in 0 .. 2 /\ fw.clk \in Nat /\ fw.tr \in Nat \ {0} /\ fw.op \in Ops
      /\ fw.clk <= LastClock(t)
      /\ Len(Routine(fw.op)) \in Nat /\ fw.tr <= Len(Routine(fw.op))
  <2>1. Busy /\ fw.edge \in 0 .. 2 /\ fw.clk \in Nat /\ fw.tr \in Nat \ {0}
    BY DEF PutStep, Running, Busy, LookDue, FwType
  <2>2. fw.op \in Ops /\ Len(Routine(fw.op)) \in Nat /\ fw.tr <= Len(Routine(fw.op))
    BY <2>1, NowForm
  <2>3. fw.clk <= LastClock(t)
    BY <2>1 DEF Placed
  <2> QED BY <2>1, <2>2, <2>3, PutMoves
<1>2. Form(t)
  BY <1>1, NowForm
<1>3. /\ (nv'.cs = 0 => nv'.state = "IDLE")
      /\ nv'.cs = IF fw.clk \in Selecting(t) THEN 1 ELSE 0
      /\ nv'.sk = IF fw.edge = 1 THEN 1 ELSE 0
      /\ nv'.di = IF fw.clk \in Sending(t) THEN t.bits[fw.clk - 1] ELSE 0
      /\ fw.clk \in Selecting(t) =>
            \E b \in Base : Tracks(nv', t.bits, IF fw.edge >= 1 THEN fw.clk ELSE fw.clk - 1, b)
  BY PutPins
<1>4. /\ Len(t.bits) \in Nat /\ t.ins \in Nat
      /\ Selecting(t) = 1 .. Len(t.bits) + t.ins + 1
      /\ Sending(t) = 2 .. Len(t.bits) + 1
      /\ LastClock(t) = Len(t.bits) + t.ins + 3
  BY <1>2 DEF Form, Bits, Selecting, Sending, LastClock
<1>5. CASE Within
  <2>1. /\ fw'.op = fw.op /\ fw'.tr = fw.tr /\ fw'.clk = fw.clk /\ fw'.edge = fw.edge + 1
        /\ fw'.edge \in 1 .. 3 /\ (fw'.edge = 3 => Looked)
    BY <1>1, <1>5 DEF Within, SameCall
  <2>2. Now' = t /\ Busy'
    BY <1>1, <2>1 DEF Now, Busy, Finished
  <2>3. Looked' = Looked
    BY <2>1, <2>2 DEF Looked
  <2> HIDE DEF t
  <2>4. Placed'
    <3>1. fw'.tr <= Len(Routine(fw'.op)) + 1
      BY <1>1, <2>1
    <3>2. fw'.clk <= LastClock(Now') /\ (fw'.edge = 3 => Looked')
      BY <1>1, <2>1, <2>2, <2>3
    <3> QED BY <2>2, <3>1, <3>2 DEF Placed
  <2>5. Levels'
    <3>1. Chosen' <=> fw.clk \in Selecting(t)
      BY <2>1, <2>2 DEF Chosen
    <3>2. fw'.edge # 2 => nv'.sk = 0
      BY <1>1, <1>3, <2>1
    <3>3. fw'.clk = 1 => nv'.di = 0
      BY <1>3, <1>4, <2>1
    <3>4. fw'.clk \in Sending(Now') => nv'.di = Now'.bits[fw'.clk - 1]
      BY <1>3, <2>1, <2>2
    <3> QED BY <1>3, <3>1, <3>2, <3>3, <3>4 DEF Levels
  <2>6. Tracked'
    <3>1. Clocked' = IF fw.edge >= 1 THEN fw.clk ELSE fw.clk - 1
      BY <1>1, <2>1 DEF Clocked
    <3> QED BY <1>3, <2>1, <2>2, <3>1 DEF Tracked
  <2> QED BY <2>4, <2>5, <2>6
<1>6. CASE ToClock
  <2>1. /\ fw'.op = fw.op /\ fw'.tr = fw.tr /\ fw'.clk = fw.clk + 1 /\ fw'.edge = 0
        /\ fw.edge = 2 /\ fw.clk < LastClock(t)
    BY <1>1, <1>6 DEF ToClock, SameCall
  <2>2. Now' = t /\ Busy'
    BY <1>1, <2>1 DEF Now, Busy, Finished
  <2> HIDE DEF t
  <2>4. Placed'
    <3>1. fw'.tr <= Len(Routine(fw'.op)) + 1
      BY <1>1, <2>1
    <3>2. fw'.clk <= LastClock(Now') /\ fw'.edge # 3
      BY <1>1, <1>4, <2>1, <2>2
    <3> QED BY <2>2, <3>1, <3>2 DEF Placed
  <2>5. Levels'
    <3>1. Chosen' <=> fw.clk \in Selecting(t)
      BY <1>1, <2>1, <2>2 DEF Chosen
    <3>2. nv'.sk = 0 /\ fw'.edge # 1
      BY <1>3, <2>1
    <3> QED BY <1>3, <3>1, <3>2 DEF Levels
  <2>6. Tracked'
    <3>1. Clocked' = fw.clk /\ (IF fw.edge >= 1 THEN fw.clk ELSE fw.clk - 1) = fw.clk
      BY <1>1, <2>1 DEF Clocked
    <3>2. fw'.clk \in Selecting(t) /\ ~ (fw'.clk = 1 /\ fw'.edge = 0) => fw.clk \in Selecting(t)
      <4> DEFINE m == Len(t.bits) + t.ins + 1
      <4>1. m \in Nat /\ Selecting(t) = 1 .. m
        BY <1>4
      <4>2. fw.clk \in Nat /\ fw'.clk = fw.clk + 1 /\ fw'.edge = 0
        BY <1>1, <2>1
      <4> HIDE DEF m
      <4> QED BY <4>1, <4>2
    <3> QED BY <1>3, <2>2, <3>1, <3>2 DEF Tracked
  <2> QED BY <2>4, <2>5, <2>6
<1>7. CASE ToTransfer
  <2>1. /\ fw'.op = fw.op /\ fw'.tr = fw.tr + 1 /\ fw'.clk = 0 /\ fw'.edge = 0
        /\ fw.edge = 2 /\ fw.clk = LastClock(t)
    BY <1>1, <1>7 DEF ToTransfer, SameCall
  <2> HIDE DEF t
  <2>2. ASSUME Busy'
        PROVE  LastClock(Now') \in Nat /\ 0 \notin Selecting(Now') /\ 0 - 1 \notin Selecting(Now')
    <3>1. ~ (fw.tr + 1 > Len(Routine(fw.op))) /\ fw.tr + 1 \in Nat \ {0}
      BY <1>1, <2>1, <2>2 DEF Busy, Finished
    <3>2. Form(Now')
      BY <1>1, <2>1, <3>1, RoutineForms DEF Now
    <3>3. Len(Now'.bits) \in Nat /\ Now'.ins \in Nat
      BY <3>2 DEF Form
    <3> HIDE DEF Now
    <3>4. LastClock(Now') = Len(Now'.bits) + Now'.ins + 3 /\ Selecting(Now') = 1 .. Len(Now'.bits) + Now'.ins + 1
      BY DEF LastClock, Selecting
    <3> QED BY <3>3, <3>4
  <2>4. Placed'
    <3>1. fw'.tr <= Len(Routine(fw'.op)) + 1
      BY <1>1, <2>1
    <3>2. Busy' => fw'.clk <= LastClock(Now') /\ fw'.edge # 3
      BY <2>1, <2>2
    <3> QED BY <2>1, <3>1, <3>2 DEF Placed
  <2>5. Levels'
    <3>1. ~ Chosen' /\ fw.clk \notin Selecting(t)
      BY <1>1, <1>4, <2>1, <2>2 DEF Chosen
    <3>2. nv'.sk = 0 /\ fw'.edge # 1 /\ nv'.cs = 0
      BY <1>3, <2>1, <3>1
    <3> QED BY <1>3, <3>1, <3>2 DEF Levels
  <2>6. Tracked'
    BY <2>1, <2>2 DEF Tracked
  <2> QED BY <2>4, <2>5, <2>6
<1> QED BY <1>1, <1>5, <1>6, <1>7

(* Which transfer is in progress.                                           *)
LEMMA NowIs ==
  ASSUME FwType, Busy
  PROVE  /\ fw.op \in Ops
         /\ fw.op.kind = "read" => fw.tr = 1 /\ Now = ReadWord(fw.op.a)
         /\ fw.op.kind = "erase" => \/ fw.tr = 1 /\ Now = EraseWord(fw.op.a)
                                    \/ fw.tr = 2 /\ Now = Check
         /\ fw.op.kind = "write" => \/ fw.tr = 1 /\ Now = ReadWord(fw.op.a)
                                    \/ fw.tr = 2 /\ Now = EraseWord(fw.op.a)
                                    \/ fw.tr \in {3, 5} /\ Now = Check
                                    \/ fw.tr = 4 /\ Now = WriteWord(fw.op.a, fw.op.w)
         /\ fw.op.kind = "enable" => fw.tr = 1 /\ Now = Switch(EWEN)
         /\ fw.op.kind = "disable" => fw.tr = 1 /\ Now = Switch(EWDS)
         /\ fw.op.kind = "size" => fw.tr = 1 /\ Now = Size
<1>1. fw.op \in Ops /\ fw.tr \in Nat \ {0} /\ ~ (fw.tr > Len(Routine(fw.op)))
  BY DEF FwType, Busy, Finished
<1>2. Now = Routine(fw.op)[fw.tr]
  BY DEF Now
<1>3. CASE fw.op.kind = "read"
  <2>1. Routine(fw.op) = <<ReadWord(fw.op.a)>>
    BY <1>1, <1>3, RoutineOf
  <2> QED BY <1>1, <1>2, <1>3, <2>1
<1>4. CASE fw.op.kind = "erase"
  <2>1. Routine(fw.op) = <<EraseWord(fw.op.a), Check>>
    BY <1>1, <1>4, RoutineOf
  <2> QED BY <1>1, <1>2, <1>4, <2>1
<1>5. CASE fw.op.kind = "write"
  <2> DEFINE a == fw.op.a
             w == fw.op.w
  <2>1. Routine(fw.op) = <<ReadWord(a), EraseWord(a), Check, WriteWord(a, w), Check>>
    BY <1>1, <1>5, RoutineOf
  <2>2. fw.tr \in 1 .. 5
    BY <1>1, <2>1
  <2> QED BY <1>1, <1>2, <1>5, <2>1, <2>2
<1>6. CASE fw.op.kind = "enable"
  <2>1. Routine(fw.op) = <<Switch(EWEN)>>
    BY <1>1, <1>6, RoutineOf
  <2> QED BY <1>1, <1>2, <1>6, <2>1
<1>7. CASE fw.op.kind = "disable"
  <2>1. Routine(fw.op) = <<Switch(EWDS)>>
    BY <1>1, <1>7, RoutineOf
  <2> QED BY <1>1, <1>2, <1>7, <2>1
<1>8. CASE fw.op.kind = "size"
  <2>1. Routine(fw.op) = <<Size>>
    BY <1>1, <1>8, RoutineOf
  <2> QED BY <1>1, <1>2, <1>8, <2>1
<1>9. fw.op.kind \in {"read", "erase", "write", "enable", "disable", "size"}
  BY <1>1, OpKinds
<1> QED BY <1>1, <1>3, <1>4, <1>5, <1>6, <1>7, <1>8, <1>9

(* The clocks that change the memory or the write enable.                   *)
Erasing == /\ Rises /\ fw.clk = CmdBits + 1
           /\ (fw.op.kind = "erase" /\ fw.tr = 1) \/ (fw.op.kind = "write" /\ fw.tr = 2)
Programming == Rises /\ fw.clk = CmdBits + DBits + 1 /\ fw.op.kind = "write" /\ fw.tr = 4
Switching == Rises /\ fw.clk = CmdBits + 1 /\ fw.op.kind \in {"enable", "disable"}

LEMMA PutEffect ==
  ASSUME Sound(nv), FwType, Placed, Levels, Tracked, PutStep
  PROVE  /\ nv'.ewen = IF Switching THEN fw.op.kind = "enable" ELSE nv.ewen
         /\ nv'.mem = IF Erasing /\ nv.ewen THEN [nv.mem EXCEPT ![fw.op.a] = Ones]
                      ELSE IF Programming /\ nv.ewen THEN [nv.mem EXCEPT ![fw.op.a] = fw.op.w]
                      ELSE nv.mem
<1>1. /\ ~ Rises => nv'.mem = nv.mem /\ nv'.ewen = nv.ewen
      /\ Rises => \E b \in Base : /\ Tracks(nv, Now.bits, fw.clk - 1, b)
                                  /\ Tracks(nv', Now.bits, fw.clk, b)
  BY PutPins
<1>2. Busy /\ fw.clk \in Nat
  BY DEF PutStep, Running, Busy, FwType
<1>3. CASE ~ Rises
  BY <1>1, <1>3 DEF Erasing, Programming, Switching
<1>4. CASE Rises
  <2>1. PICK b \in Base : Tracks(nv, Now.bits, fw.clk - 1, b) /\ Tracks(nv', Now.bits, fw.clk, b)
    BY <1>1, <1>4
  <2> DEFINE d == fw.clk - 1
  <2>2. fw.clk \in Selecting(Now)
    BY <1>4 DEF Rises
  <2>3. fw.op \in Ops /\ fw.op.kind \in {"read", "erase", "write", "enable", "disable", "size"}
    BY <1>2, NowIs, OpKinds
  <2>4. /\ fw.op.kind \in {"read", "erase", "write"} => fw.op.a \in Addr
        /\ fw.op.kind = "write" => fw.op.w \in Word
    BY <2>3, OpKinds
  <2>5. Form(Now) /\ Selecting(Now) = 1 .. Len(Now.bits) + Now.ins + 1
    BY <1>2, NowForm DEF Selecting
  <2>6. d \in Nat /\ fw.clk = d + 1 /\ fw.clk <= Len(Now.bits) + Now.ins + 1
    BY <1>2, <2>2, <2>5 DEF Form
  <2> HIDE DEF d
  <2>7. Tracks(nv, Now.bits, d, b) /\ Tracks(nv', Now.bits, fw.clk, b)
    BY <2>1 DEF d
  <2>8. ASSUME NEW r \in Seq(Bit), Len(r) >= ABits, Now.bits = Sends(READ, r)
        PROVE  nv'.mem = nv.mem /\ nv'.ewen = nv.ewen
    <3>1. nv.mem = b.mem /\ nv.ewen = b.ewen
      BY <2>6, <2>7, <2>8, TracksRead
    <3>2. nv'.mem = b.mem /\ nv'.ewen = b.ewen
      BY <1>2, <2>7, <2>8, TracksRead
    <3> QED BY <3>1, <3>2
  <2>9. ASSUME Now = Check PROVE nv'.mem = nv.mem /\ nv'.ewen = nv.ewen
    <3>1. Bits(Now.bits) /\ Now.bits = <<>> /\ fw.clk <= 1 /\ d <= 1
      BY <1>2, <2>5, <2>6, <2>9, CheckForm DEF Form
    <3>2. d <= CmdBits /\ fw.clk <= CmdBits
      BY <1>2, <2>6, <3>1, Widths
    <3>3. nv.mem = b.mem /\ nv.ewen = b.ewen
      BY <2>6, <2>7, <3>1, <3>2, TracksShort
    <3>4. nv'.mem = b.mem /\ nv'.ewen = b.ewen
      BY <1>2, <2>7, <3>1, <3>2, TracksShort
    <3> QED BY <3>3, <3>4
  <2>10. ASSUME NEW a \in Addr, Now = EraseWord(a)
         PROVE  /\ nv'.ewen = nv.ewen
                /\ nv'.mem = IF fw.clk = CmdBits + 1 /\ nv.ewen THEN [nv.mem EXCEPT ![a] = Ones] ELSE nv.mem
    <3>1. Now.bits = Sends(ERASE, a) /\ fw.clk <= CmdBits + 1 /\ d <= CmdBits + 1 /\ d # CmdBits + 1
      BY <1>2, <2>6, <2>10, EraseForm, Widths
    <3>2. ASSUME NEW n, NEW e \in Nat, e <= CmdBits + 1, Tracks(n, Sends(ERASE, a), e, b)
          PROVE  /\ n.ewen = b.ewen
                 /\ n.mem = IF e = CmdBits + 1 /\ b.ewen THEN [b.mem EXCEPT ![a] = Ones] ELSE b.mem
      BY <3>2, TracksErase
    <3>3. nv.ewen = b.ewen /\ nv.mem = b.mem
      BY <2>6, <2>7, <3>1, <3>2
    <3>4. nv'.ewen = b.ewen
          /\ nv'.mem = IF fw.clk = CmdBits + 1 /\ b.ewen THEN [b.mem EXCEPT ![a] = Ones] ELSE b.mem
      BY <1>2, <2>7, <3>1, <3>2
    <3> QED BY <3>3, <3>4
  <2>11. ASSUME NEW a \in Addr, NEW w \in Word, Now = WriteWord(a, w)
         PROVE  /\ nv'.ewen = nv.ewen
                /\ nv'.mem = IF fw.clk = CmdBits + DBits + 1 /\ nv.ewen THEN [nv.mem EXCEPT ![a] = w] ELSE nv.mem
    <3>1. /\ Now.bits = Sends(WRITE, a \o w) /\ fw.clk <= CmdBits + DBits + 1
          /\ d <= CmdBits + DBits + 1 /\ d # CmdBits + DBits + 1
      BY <1>2, <2>6, <2>11, WriteForm, Widths
    <3>2. ASSUME NEW n, NEW e \in Nat, e <= CmdBits + DBits + 1, Tracks(n, Sends(WRITE, a \o w), e, b)
          PROVE  /\ n.ewen = b.ewen
                 /\ n.mem = IF e = CmdBits + DBits + 1 /\ b.ewen THEN [b.mem EXCEPT ![a] = w] ELSE b.mem
      BY <3>2, TracksWrite
    <3>3. nv.ewen = b.ewen /\ nv.mem = b.mem
      BY <2>6, <2>7, <3>1, <3>2
    <3>4. nv'.ewen = b.ewen
          /\ nv'.mem = IF fw.clk = CmdBits + DBits + 1 /\ b.ewen THEN [b.mem EXCEPT ![a] = w] ELSE b.mem
      BY <1>2, <2>7, <3>1, <3>2
    <3> QED BY <3>3, <3>4
  <2>12. ASSUME NEW s \in {EWEN, EWDS}, Now = Switch(s)
         PROVE  /\ nv'.mem = nv.mem
                /\ nv'.ewen = IF fw.clk = CmdBits + 1 THEN s = EWEN ELSE nv.ewen
    <3>1. fw.clk <= CmdBits + 1 /\ d <= CmdBits + 1 /\ d # CmdBits + 1
      BY <1>2, <2>6, <2>12, SwitchForm, Widths
    <3>2. nv.ewen = b.ewen /\ nv.mem = b.mem
      BY <2>6, <2>7, <2>12, <3>1, TracksSwitch
    <3>3. nv'.mem = b.mem /\ nv'.ewen = IF fw.clk = CmdBits + 1 THEN s = EWEN ELSE b.ewen
      BY <1>2, <2>7, <2>12, <3>1, TracksSwitch
    <3> QED BY <3>2, <3>3
  <2>13. ASSUME NEW a \in Addr, Now = ReadWord(a) PROVE nv'.mem = nv.mem /\ nv'.ewen = nv.ewen
    <3>1. a \in Seq(Bit) /\ Len(a) >= ABits
      BY OwnBits, Widths DEF Addr
    <3> QED BY <2>8, <2>13, <3>1, ReadForm
  <2>14. CASE fw.op.kind = "read"
    <3>1. Now = ReadWord(fw.op.a)
      BY <1>2, <2>14, NowIs
    <3> QED BY <2>4, <2>13, <2>14, <3>1 DEF Erasing, Programming, Switching
  <2>15. CASE fw.op.kind = "erase"
    <3>1. (fw.tr = 1 /\ Now = EraseWord(fw.op.a)) \/ (fw.tr = 2 /\ Now = Check)
      BY <1>2, <2>15, NowIs
    <3> QED BY <1>4, <2>4, <2>9, <2>10, <2>15, <3>1 DEF Erasing, Programming, Switching
  <2>16. CASE fw.op.kind = "write"
    <3>1. \/ fw.tr = 1 /\ Now = ReadWord(fw.op.a)
          \/ fw.tr = 2 /\ Now = EraseWord(fw.op.a)
          \/ fw.tr \in {3, 5} /\ Now = Check
          \/ fw.tr = 4 /\ Now = WriteWord(fw.op.a, fw.op.w)
      BY <1>2, <2>16, NowIs
    <3>2. fw.op.a \in Addr /\ fw.op.w \in Word
      BY <2>4, <2>16
    <3> QED BY <1>4, <2>9, <2>10, <2>11, <2>13, <2>16, <3>1, <3>2 DEF Erasing, Programming, Switching
  <2>17. CASE fw.op.kind = "enable"
    <3>1. Now = Switch(EWEN)
      BY <1>2, <2>17, NowIs
    <3> QED BY <1>4, <2>12, <2>17, <3>1 DEF Erasing, Programming, Switching
  <2>18. CASE fw.op.kind = "disable"
    <3>1. Now = Switch(EWDS)
      BY <1>2, <2>18, NowIs
    <3>2. nv'.mem = nv.mem /\ nv'.ewen = IF fw.clk = CmdBits + 1 THEN FALSE ELSE nv.ewen
      BY <2>12, <3>1, OpsDiffer
    <3> QED BY <1>4, <2>18, <3>2 DEF Erasing, Programming, Switching
  <2>19. CASE fw.op.kind = "size"
    <3>1. Now = Size
      BY <1>2, <2>19, NowIs
    <3>2. PICK r \in Seq(Bit) : Len(r) = MaxProbe /\ Size.bits = Sends(READ, r)
      BY SizeForm
    <3>3. Len(r) >= ABits
      BY <3>2, BoardAssumption, Widths
    <3> QED BY <2>8, <2>19, <3>1, <3>2, <3>3 DEF Erasing, Programming, Switching
  <2> QED BY <2>3, <2>14, <2>15, <2>16, <2>17, <2>18, <2>19
<1> QED BY <1>3, <1>4

LEMMA PastMoves ==
  ASSUME FwType, Placed, PutStep, NEW k \in Nat, NEW n \in Nat, fw.tr = k => n <= Len(Now.bits), Past(k, n)'
  PROVE  Past(k, n) \/ (fw.tr = k /\ Rises /\ fw.clk = n + 1)
<1>1. /\ Within \/ ToClock \/ ToTransfer
      /\ Busy /\ fw.edge \in 0 .. 2 /\ fw.clk \in Nat /\ fw.tr \in Nat \ {0}
  BY PutMoves DEF PutStep, Running, Busy, LookDue, FwType
<1>2. /\ Len(Now.bits) \in Nat /\ Now.ins \in Nat
      /\ Selecting(Now) = 1 .. Len(Now.bits) + Now.ins + 1
      /\ LastClock(Now) = Len(Now.bits) + Now.ins + 3
  BY <1>1, NowForm DEF Form, Selecting, LastClock
<1>3. fw'.tr > k \/ (fw'.tr = k /\ (IF fw'.edge >= 2 THEN fw'.clk ELSE fw'.clk - 1) > n)
  BY DEF Past, Clocked
<1> HIDE DEF Now
<1>4. CASE Within
  <2>1. fw'.tr = fw.tr /\ fw'.clk = fw.clk /\ fw'.edge = fw.edge + 1
    BY <1>4 DEF Within
  <2>2. CASE fw.tr = k
    <3>1. (IF fw.edge + 1 >= 2 THEN fw.clk ELSE fw.clk - 1) > n
      BY <1>1, <1>3, <2>1, <2>2
    <3>2. CASE fw.edge = 1
      <4>1. fw.clk > n
        BY <3>1, <3>2
      <4>2. CASE fw.clk = n + 1
        BY <1>2, <2>2, <3>2, <4>2 DEF Rises
      <4>3. CASE fw.clk # n + 1
        BY <1>1, <2>2, <3>2, <4>1, <4>3 DEF Past, Clocked
      <4> QED BY <4>2, <4>3
    <3>3. CASE fw.edge # 1
      BY <1>1, <2>2, <3>1, <3>3 DEF Past, Clocked
    <3> QED BY <3>2, <3>3
  <2>3. CASE fw.tr # k
    BY <1>3, <2>1, <2>3 DEF Past
  <2> QED BY <2>2, <2>3
<1>5. CASE ToClock
  BY <1>1, <1>3, <1>5 DEF ToClock, Past, Clocked
<1>6. CASE ToTransfer
  <2>1. fw'.tr = fw.tr + 1 /\ fw'.clk = 0 /\ fw'.edge = 0 /\ fw.edge = 2 /\ fw.clk = LastClock(Now)
    BY <1>6 DEF ToTransfer
  <2>2. fw.tr >= k
    BY <1>1, <1>3, <2>1
  <2>3. CASE fw.tr = k
    BY <1>1, <1>2, <2>1, <2>3 DEF Past, Clocked
  <2>4. CASE fw.tr # k
    BY <1>1, <2>2, <2>4 DEF Past
  <2> QED BY <2>3, <2>4
<1> QED BY <1>1, <1>4, <1>5, <1>6

LEMMA PutLands ==
  ASSUME BoardInv, PutStep
  PROVE  Lands'
<1>1. /\ Sound(nv) /\ FwType /\ Placed /\ Levels /\ Tracked /\ Lands /\ SameCall /\ Busy
      /\ fw.op \in Ops /\ fw'.op = fw.op /\ CmdBits \in Nat /\ CmdBits + DBits \in Nat /\ 1 \in Nat /\ 4 \in Nat
  BY PutMoves, NowIs, Widths DEF BoardInv, PutStep, Running, Busy, SameCall
<1>2. /\ nv'.ewen = IF Switching THEN fw.op.kind = "enable" ELSE nv.ewen
      /\ nv'.mem = IF Erasing /\ nv.ewen THEN [nv.mem EXCEPT ![fw.op.a] = Ones]
                   ELSE IF Programming /\ nv.ewen THEN [nv.mem EXCEPT ![fw.op.a] = fw.op.w]
                   ELSE nv.mem
  BY <1>1, PutEffect
<1>3. nv.mem \in [Addr -> Word] /\ nv.ewen \in BOOLEAN
  BY <1>1 DEF Sound, NvramType
<1>4. /\ fw.op.kind \in {"erase", "write"} => fw.op.a \in Addr
      /\ fw.op.kind = "write" => fw.op.w \in Word
  BY <1>1, OpKinds
<1>5. ASSUME fw.op.kind = "erase", Past(1, CmdBits)', nv'.ewen PROVE nv'.mem[fw.op.a] = Ones
  <2>1. ~ Switching /\ ~ Programming /\ nv.ewen
    BY <1>2, <1>5 DEF Switching, Programming
  <2>2. CASE Erasing
    BY <1>2, <1>3, <1>4, <1>5, <2>1, <2>2
  <2>3. CASE ~ Erasing
    <3>1. fw.tr = 1 => CmdBits <= Len(Now.bits)
      <4> SUFFICES ASSUME fw.tr = 1 PROVE CmdBits <= Len(Now.bits)
        OBVIOUS
      <4>1. Now = EraseWord(fw.op.a)
        BY <1>1, <1>5, NowIs
      <4> QED BY <1>1, <1>4, <1>5, <4>1, EraseForm
    <3>2. Past(1, CmdBits) \/ (fw.tr = 1 /\ Rises /\ fw.clk = CmdBits + 1)
      BY <1>1, <1>5, <3>1, PastMoves
    <3>3. Past(1, CmdBits)
      BY <1>5, <2>3, <3>2 DEF Erasing
    <3>4. nv.mem[fw.op.a] = Ones
      BY <1>1, <1>5, <2>1, <3>3 DEF Lands
    <3> QED BY <1>2, <2>1, <2>3, <3>4
  <2> QED BY <2>2, <2>3
<1>6. ASSUME fw.op.kind = "write", Past(4, CmdBits + DBits)', nv'.ewen PROVE nv'.mem[fw.op.a] = fw.op.w
  <2>1. ~ Switching /\ nv.ewen
    BY <1>2, <1>6 DEF Switching
  <2>2. CASE Programming
    <3>1. ~ Erasing
      BY <2>2 DEF Programming, Erasing
    <3> QED BY <1>2, <1>3, <1>4, <1>6, <2>1, <2>2, <3>1
  <2>3. CASE ~ Programming
    <3>1. fw.tr = 4 => CmdBits + DBits <= Len(Now.bits)
      <4> SUFFICES ASSUME fw.tr = 4 PROVE CmdBits + DBits <= Len(Now.bits)
        OBVIOUS
      <4>1. Now = WriteWord(fw.op.a, fw.op.w)
        BY <1>1, <1>6, NowIs
      <4> QED BY <1>1, <1>4, <1>6, <4>1, WriteForm
    <3>2. Past(4, CmdBits + DBits) \/ (fw.tr = 4 /\ Rises /\ fw.clk = CmdBits + DBits + 1)
      BY <1>1, <1>6, <3>1, PastMoves
    <3>3. Past(4, CmdBits + DBits)
      BY <1>6, <2>3, <3>2 DEF Programming
    <3>4. nv.mem[fw.op.a] = fw.op.w
      BY <1>1, <1>6, <2>1, <3>3 DEF Lands
    <3>5. ~ Erasing
      BY <1>6, <3>3 DEF Erasing, Past
    <3> QED BY <1>2, <2>1, <2>3, <3>4, <3>5
  <2> QED BY <2>2, <2>3
<1>7. ASSUME fw.op.kind \in {"enable", "disable"}, Past(1, CmdBits)' PROVE nv'.ewen = (fw.op.kind = "enable")
  <2>1. CASE Switching
    BY <1>2, <2>1
  <2>2. CASE ~ Switching
    <3>1. fw.tr = 1 => CmdBits <= Len(Now.bits)
      <4> SUFFICES ASSUME fw.tr = 1 PROVE CmdBits <= Len(Now.bits)
        OBVIOUS
      <4>1. PICK s \in {EWEN, EWDS} : Now = Switch(s)
        BY <1>1, <1>7, NowIs
      <4> QED BY <1>1, <4>1, SwitchForm
    <3>2. Past(1, CmdBits) \/ (fw.tr = 1 /\ Rises /\ fw.clk = CmdBits + 1)
      BY <1>1, <1>7, <3>1, PastMoves
    <3>3. Past(1, CmdBits)
      BY <1>7, <2>2, <3>2 DEF Switching
    <3>4. nv.ewen = (fw.op.kind = "enable")
      BY <1>1, <1>7, <3>3 DEF Lands
    <3> QED BY <1>2, <2>2, <3>4
  <2> QED BY <2>1, <2>2
<1> QED BY <1>1, <1>5, <1>6, <1>7 DEF Lands

LEMMA PutCollected ==
  ASSUME BoardInv, PutStep
  PROVE  Collected'
<1> SUFFICES ASSUME fw'.op.kind \in {"read", "write"} PROVE Collected'
  BY DEF Collected
<1>1. /\ Sound(nv) /\ FwType /\ Placed /\ Levels /\ Tracked /\ Collected /\ SameCall /\ Busy
      /\ fw'.op = fw.op /\ fw'.acc = fw.acc /\ (Within \/ ToClock \/ ToTransfer)
      /\ fw.edge \in 0 .. 2 /\ fw.clk \in Nat /\ fw.tr \in Nat \ {0} /\ fw.acc \in Seq(Bit)
      /\ ~ GetDue /\ ~ CompareDue
  BY PutMoves DEF BoardInv, PutStep, Running, Busy, SameCall, LookDue, FwType
<1>2. fw.op.kind \in {"read", "write"} /\ fw.op \in Ops
  BY <1>1, NowIs
<1>3. fw.op.a \in Addr
  BY <1>2, OpKinds
<1>4. fw.tr = 1 => /\ Receiving(Now) = CmdBits + 2 .. CmdBits + DBits + 2
                   /\ LastClock(Now) = CmdBits + DBits + 4
  <2> SUFFICES ASSUME fw.tr = 1 PROVE Receiving(Now) = CmdBits + 2 .. CmdBits + DBits + 2
                                      /\ LastClock(Now) = CmdBits + DBits + 4
    OBVIOUS
  <2>1. Now = ReadWord(fw.op.a)
    BY <1>1, <1>2, NowIs
  <2>2. Len(Now.bits) = CmdBits /\ Now.ins = DBits + 1
    BY <1>3, <2>1, ReadForm
  <2>3. CmdBits + (DBits + 1) + 1 = CmdBits + DBits + 2 /\ CmdBits + (DBits + 1) + 3 = CmdBits + DBits + 4
    BY Widths
  <2> QED BY <2>2, <2>3 DEF Receiving, LastClock
<1>5. fw.op.kind = "read" => fw.tr = 1
  BY <1>1, NowIs
<1>6. fw.tr > 1 => fw.acc = <<>> /\ fw.op.kind = "write"
  BY <1>1, <1>2, <1>5 DEF Collected, CompareDue
<1>7. \A i \in 2 .. Len(fw.acc) : fw.acc[i] = nv'.mem[fw.op.a][i - 1]
  <2>1. CASE fw.tr > 1
    BY <1>1, <1>6, <2>1, EmptySeq
  <2>2. CASE fw.tr = 1
    <3>1. nv'.mem = nv.mem
      BY <1>1, <1>2, <2>2, PutEffect DEF Erasing, Programming
    <3> QED BY <1>1, <1>2, <3>1 DEF Collected
  <2> QED BY <1>1, <2>1, <2>2
<1>8. fw'.tr = 1 => Len(fw.acc) = Taken'
  <2> SUFFICES ASSUME fw'.tr = 1 PROVE Len(fw.acc) = Taken'
    OBVIOUS
  <2>1. fw.tr = 1 /\ (Within \/ ToClock)
    BY <1>1 DEF Within, ToClock, ToTransfer
  <2>2. Len(fw.acc) = Taken
    BY <1>1, <1>2, <2>1 DEF Collected
  <2>3. CASE Within
    <3>1. fw'.clk = fw.clk /\ fw'.edge = fw.edge + 1
      BY <2>3 DEF Within
    <3>2. fw.edge = 0 => fw.clk <= CmdBits + 1 \/ fw.clk > CmdBits + DBits + 2
      BY <1>1, <1>4, <2>1, Widths DEF GetDue
    <3>3. Taken' = Taken
      BY <1>1, <3>1, <3>2, Widths DEF Taken
    <3> QED BY <2>2, <3>3
  <2>4. CASE ToClock
    <3>1. fw'.clk = fw.clk + 1 /\ fw'.edge = 0 /\ fw.edge = 2
      BY <2>4 DEF ToClock
    <3>2. Taken' = Taken
      BY <1>1, <3>1, Widths DEF Taken
    <3> QED BY <2>2, <3>2
  <2> QED BY <2>1, <2>3, <2>4
<1>9. fw'.tr > 1 => Len(fw.acc) = DBits + 1 \/ (fw.op.kind = "write" /\ fw.acc = <<>>)
  <2>1. CASE fw.tr > 1
    BY <1>6, <2>1
  <2>2. CASE fw.tr = 1 /\ ToTransfer
    <3>1. fw.clk = LastClock(Now) /\ Len(fw.acc) = Taken
      BY <1>1, <1>2, <2>2 DEF Collected, ToTransfer
    <3> QED BY <1>4, <2>2, <3>1, Widths DEF Taken
  <2>3. CASE fw.tr = 1 /\ ~ ToTransfer
    BY <1>1, <2>3 DEF Within, ToClock
  <2> QED BY <1>1, <2>1, <2>2, <2>3
<1>10. fw.op.kind = "write" /\ (fw'.tr > 2 \/ (fw'.tr = 2 /\ fw'.clk + fw'.edge > 0)) => fw.acc = <<>>
  <2>1. CASE fw.tr > 1
    BY <1>6, <2>1
  <2>2. CASE fw.tr = 1
    BY <1>1, <2>2 DEF Within, ToClock, ToTransfer
  <2> QED BY <1>1, <2>1, <2>2
<1> QED BY <1>1, <1>7, <1>8, <1>9, <1>10 DEF Collected

LEMMA PutProbes ==
  ASSUME BoardInv, PutStep
  PROVE  Probed' /\ Waiting'
<1> SUFFICES ASSUME fw'.op.kind = "size" PROVE Probed' /\ Waiting'
  BY DEF Probed, Waiting
<1>1. /\ FwType /\ Placed /\ Probed /\ Waiting /\ SameCall /\ Busy
      /\ fw'.op = fw.op /\ fw'.looks = fw.looks /\ (Within \/ ToClock \/ ToTransfer)
      /\ fw.edge \in 0 .. 2 /\ fw.clk \in Nat /\ fw.tr \in Nat \ {0} /\ fw.looks \in Nat
  BY PutMoves DEF BoardInv, PutStep, Running, Busy, SameCall, LookDue, FwType
<1>2. fw.op.kind = "size" /\ fw.tr = 1 /\ Now = Size
  BY <1>1, NowIs
<1>3. Len(Now.bits) = 3 + MaxProbe /\ Now.ins = 0
  BY <1>2, SizeForm
<1>4. MaxProbe \in Nat /\ MaxProbe > ABits
  BY BoardAssumption
<1>5. LastClock(Now) = MaxProbe + 6 /\ Sending(Now) = 2 .. MaxProbe + 4
  BY <1>3, <1>4 DEF LastClock, Sending
<1>6. /\ fw.looks = IF fw.clk > MaxProbe + 4 THEN ABits ELSE IF fw.clk < 5 THEN 0 ELSE fw.clk - 5
      /\ fw.clk <= MaxProbe + 4 => fw.clk <= ABits + 4
  BY <1>1, <1>2 DEF Probed, Waiting
<1> HIDE DEF Now
<1>7. CASE Within
  BY <1>1, <1>2, <1>6, <1>7 DEF Within, Probed, Waiting
<1>8. CASE ToClock
  <2>1. fw'.tr = 1 /\ fw'.clk = fw.clk + 1 /\ ~ Looked
    BY <1>2, <1>8 DEF ToClock
  <2>2. fw.clk <= 4 \/ fw.clk > MaxProbe + 4
    BY <1>1, <1>2, <1>4, <1>5, <2>1 DEF Looked
  <2>3. Probed'
    BY <1>1, <1>4, <1>6, <2>1, <2>2, Widths DEF Probed
  <2>4. Waiting'
    BY <1>1, <1>4, <1>6, <2>1, <2>2, Widths DEF Waiting
  <2> QED BY <2>3, <2>4
<1>9. CASE ToTransfer
  <2>1. fw'.tr = 2 /\ fw.clk = MaxProbe + 6
    BY <1>2, <1>5, <1>9 DEF ToTransfer
  <2> QED BY <1>1, <1>4, <1>6, <2>1 DEF Probed, Waiting
<1> QED BY <1>1, <1>7, <1>8, <1>9
-----------------------------------------------------------------------------
(* A routine starts with the chip deselected, and so does the pause between *)
(* two routines.                                                            *)
Started == \E op \in Ops \cup {Idle}, r \in Seq(Bit), s \in {0, ABits} : fw = Start(op, r, s)

Quiet == Sound(nv) /\ nv.cs = 0 /\ nv.sk = 0 /\ nv.state = "IDLE"

LEMMA StartHolds == Started /\ Quiet /\ Imaged => BoardInv
<1> SUFFICES ASSUME Started, Quiet, Imaged PROVE BoardInv
  OBVIOUS
<1>1. PICK op \in Ops \cup {Idle}, r \in Seq(Bit), s \in {0, ABits} : fw = Start(op, r, s)
  BY DEF Started
<1>2. /\ fw.op = op /\ fw.tr = 1 /\ fw.clk = 0 /\ fw.edge = 0 /\ fw.acc = <<>> /\ fw.looks = 0
      /\ fw.result = r /\ fw.size = s
  BY <1>1 DEF Start
<1>3. FwType
  <2>1. <<>> \in Seq(Bit) /\ s \in Nat /\ 0 \in Nat /\ 0 \in 0 .. 3 /\ 1 \in Nat \ {0}
    BY EmptySeq, Widths
  <2> QED BY <1>1, <2>1 DEF FwType, Start
<1>4. Busy => /\ Len(Now.bits) \in Nat /\ Now.ins \in Nat
              /\ LastClock(Now) = Len(Now.bits) + Now.ins + 3
              /\ Selecting(Now) = 1 .. Len(Now.bits) + Now.ins + 1
  BY <1>3, NowForm DEF Form, LastClock, Selecting
<1>5. ~ Busy \/ (Busy /\ 0 <= LastClock(Now) /\ 0 \notin Selecting(Now) /\ 0 - 1 \notin Selecting(Now))
  <2> HIDE DEF Busy, Now
  <2> QED BY <1>4
<1>6. Placed
  <2>1. fw.op # Idle => Len(Routine(fw.op)) \in Nat
    <3> SUFFICES ASSUME fw.op # Idle PROVE Len(Routine(fw.op)) \in Nat
      OBVIOUS
    <3>1. fw.op \in Ops
      BY <1>2
    <3>2. CASE Finished
      <4>1. Len(Routine(fw.op)) \in {1, 2, 5}
        BY <3>1, RoutineOf, OpKinds
      <4> QED BY <4>1
    <3>3. CASE ~ Finished
      BY <1>3, <3>3, NowForm DEF Busy
    <3> QED BY <3>2, <3>3
  <2>2. fw.op # Idle => fw.tr <= Len(Routine(fw.op)) + 1
    <3> DEFINE l == Len(Routine(fw.op))
    <3> HIDE DEF l
    <3>1. fw.op # Idle => 1 <= l + 1
      BY <2>1 DEF l
    <3> QED BY <1>2, <3>1 DEF l
  <2> HIDE DEF Busy, Now
  <2> QED BY <1>2, <1>5, <2>2 DEF Placed
<1>7. Levels
  <2>1. ~ Chosen
    BY <1>2, <1>5 DEF Chosen
  <2> QED BY <1>2, <2>1 DEF Levels, Quiet
<1>8. Tracked
  BY <1>2, <1>5 DEF Tracked
<1>9. Lands
  <2>1. ~ Past(1, CmdBits) /\ ~ Past(4, CmdBits + DBits)
    BY <1>2, Widths DEF Past, Clocked
  <2> QED BY <2>1 DEF Lands
<1>10. Collected
  <2>1. Taken = 0 /\ Len(fw.acc) = 0
    BY <1>2, Widths DEF Taken
  <2>2. \A i \in 2 .. Len(fw.acc) : fw.acc[i] = nv.mem[fw.op.a][i - 1]
    BY <2>1
  <2> QED BY <1>2, <2>1, <2>2 DEF Collected
<1>11. Probed /\ Waiting
  <2>1. MaxProbe \in Nat
    BY BoardAssumption
  <2> QED BY <1>2, <2>1, Widths DEF Probed, Waiting
<1> QED BY <1>2, <1>3, <1>6, <1>7, <1>8, <1>9, <1>10, <1>11 DEF BoardInv, Quiet, SizeFound

(* Between two routines the chip is deselected.                             *)
LEMMA PauseIsQuiet ==
  ASSUME BoardInv, ~ Busy
  PROVE  Quiet
BY DEF BoardInv, Levels, Chosen, Placed, Quiet

LEMMA CallKeeps ==
  ASSUME BoardInv, NEW op \in Ops, Call(op)
  PROVE  BoardInv'
<1>1. Quiet
  BY PauseIsQuiet DEF Call, Busy
<1>2. Quiet' /\ Imaged'
  BY <1>1 DEF Call, Quiet, Imaged, BoardInv
<1>3. Started'
  <2>1. fw' = Start(op, fw.result, fw.size)
    BY DEF Call
  <2>2. fw.result \in Seq(Bit) /\ fw.size \in {0, ABits}
    BY DEF BoardInv, FwType, SizeFound
  <2> QED BY <2>1, <2>2 DEF Started
<1> QED BY <1>2, <1>3, StartHolds, PTL

(* The result is the word without the 0 before it, and the size the number  *)
(* of address bits.                                                         *)
LEMMA EndedCall ==
  ASSUME BoardInv, fw.op # Idle, Finished
  PROVE  /\ fw.op \in Ops /\ ~ Busy /\ fw.tr \in Nat /\ fw.edge = 0
         /\ fw.op.kind = "read" => fw.tr = 2 /\ Len(fw.acc) = DBits + 1
         /\ fw.op.kind = "erase" => fw.tr = 3
         /\ fw.op.kind = "write" => fw.tr = 6
         /\ fw.op.kind \in {"enable", "disable", "size"} => fw.tr = 2
         /\ fw.op.kind = "size" => fw.looks = ABits
<1>1. /\ fw.op \in Ops /\ fw.tr \in Nat /\ fw.tr > Len(Routine(fw.op))
      /\ fw.tr <= Len(Routine(fw.op)) + 1 /\ ~ Busy
  BY DEF BoardInv, FwType, Placed, Finished, Busy
<1>2. /\ fw.op.kind \in {"read", "enable", "disable", "size"} => Len(Routine(fw.op)) = 1
      /\ fw.op.kind = "erase" => Len(Routine(fw.op)) = 2
      /\ fw.op.kind = "write" => Len(Routine(fw.op)) = 5
  <2>1. CASE fw.op.kind = "write"
    <3> DEFINE a == fw.op.a
               w == fw.op.w
    <3>1. Routine(fw.op) = <<ReadWord(a), EraseWord(a), Check, WriteWord(a, w), Check>>
      BY <1>1, <2>1, RoutineOf
    <3> QED BY <2>1, <3>1
  <2>2. CASE fw.op.kind = "erase"
    <3>1. Routine(fw.op) = <<EraseWord(fw.op.a), Check>>
      BY <1>1, <2>2, RoutineOf
    <3> QED BY <2>2, <3>1
  <2>3. CASE fw.op.kind \in {"read", "enable", "disable", "size"}
    <3>1. \E t : Routine(fw.op) = <<t>>
      BY <1>1, <2>3, RoutineOf
    <3> QED BY <2>3, <3>1
  <2>4. fw.op.kind \in {"read", "erase", "write", "enable", "disable", "size"}
    BY <1>1, OpKinds
  <2> QED BY <2>1, <2>2, <2>3, <2>4
<1>3. /\ fw.op.kind \in {"read", "enable", "disable", "size"} => fw.tr = 2
      /\ fw.op.kind = "erase" => fw.tr = 3
      /\ fw.op.kind = "write" => fw.tr = 6
  <2> DEFINE l == Len(Routine(fw.op))
  <2>1. fw.tr > l /\ fw.tr <= l + 1 /\ fw.tr \in Nat
    BY <1>1
  <2>2. /\ fw.op.kind \in {"read", "enable", "disable", "size"} => l = 1
        /\ fw.op.kind = "erase" => l = 2
        /\ fw.op.kind = "write" => l = 5
    BY <1>2
  <2> HIDE DEF l
  <2>3. (l = 1 => fw.tr = 2) /\ (l = 2 => fw.tr = 3) /\ (l = 5 => fw.tr = 6)
    BY <2>1
  <2> QED BY <2>2, <2>3
<1>4. fw.op.kind = "read" => Len(fw.acc) = DBits + 1
  BY <1>3 DEF BoardInv, Collected
<1>5. fw.op.kind = "size" => fw.looks = ABits
  BY <1>3 DEF BoardInv, Probed
<1>6. fw.edge = 0
  BY <1>1 DEF BoardInv, Placed
<1> QED BY <1>1, <1>3, <1>4, <1>5, <1>6

LEMMA ReturnKeeps ==
  ASSUME BoardInv, Return
  PROVE  BoardInv'
<1>1. fw.op # Idle /\ Finished
  BY DEF Return
<1>2. ~ Busy /\ (fw.op.kind = "read" => Len(fw.acc) = DBits + 1) /\ (fw.op.kind = "size" => fw.looks = ABits)
  BY <1>1, EndedCall
<1>3. Quiet
  BY <1>2, PauseIsQuiet
<1>4. Quiet' /\ Imaged'
  BY <1>3 DEF Return, Quiet, Imaged, BoardInv
<1>5. Started'
  <2> DEFINE r == IF fw.op.kind = "read" THEN Tail(fw.acc) ELSE fw.result
             s == IF fw.op.kind = "size" THEN fw.looks ELSE fw.size
  <2>1. fw' = Start(Idle, r, s)
    BY DEF Return
  <2>2. fw.result \in Seq(Bit) /\ fw.size \in {0, ABits} /\ fw.acc \in Seq(Bit)
    BY DEF BoardInv, FwType, SizeFound
  <2>3. r \in Seq(Bit)
    <3>1. CASE fw.op.kind = "read"
      <4>1. fw.acc # <<>>
        BY <1>2, <3>1, Widths
      <4> QED BY <2>2, <3>1, <4>1
    <3> QED BY <2>2, <3>1
  <2>4. s \in {0, ABits}
    BY <1>2, <2>2
  <2> HIDE DEF r, s
  <2> QED BY <2>1, <2>3, <2>4 DEF Started
<1> QED BY <1>4, <1>5, StartHolds, PTL

(* What was saved is what is loaded.                                        *)
LEMMA LoadsSaved ==
  ASSUME NEW m \in [Addr -> Word]
  PROVE  SaveFile(m) # None /\ LoadFile(SaveFile(m)) = m
<1> DEFINE f == SaveFile(m)
<1>1. f # None
  <2>1. [k \in 1 .. ABits |-> 0] \in Addr
    BY DEF Addr, Bit
  <2>2. DOMAIN f = Addr /\ DOMAIN None = {}
    BY DEF SaveFile, None
  <2> QED BY <2>1, <2>2
<1>2. ASSUME NEW a \in Addr PROVE f[a][2] \o f[a][1] = m[a]
  <2> DEFINE w == m[a]
             p == SubSeq(w, 1, Half)
             q == SubSeq(w, Half + 1, DBits)
  <2>1. w \in Word
    OBVIOUS
  <2>2. w \in Seq(Bit) /\ Len(w) = DBits
    BY <2>1, OwnBits, Widths DEF Word
  <2>3. Half \in Nat /\ Half <= DBits
    BY Widths DEF Half
  <2>4. f[a][1] = q /\ f[a][2] = p
    BY DEF SaveFile
  <2> HIDE DEF w
  <2>5. /\ p \in Seq(Bit) /\ Len(p) = IF 1 <= Half THEN Half - 1 + 1 ELSE 0
        /\ \A i \in 1 .. Half - 1 + 1 : p[i] = w[1 + i - 1]
    <3>1. \A i \in 1 .. Half : w[i] \in Bit
      BY <2>2, <2>3, Widths
    <3> QED BY <2>3, <3>1, SubSeqProperties
  <2>6. /\ q \in Seq(Bit) /\ Len(q) = IF Half + 1 <= DBits THEN DBits - (Half + 1) + 1 ELSE 0
        /\ \A i \in 1 .. DBits - (Half + 1) + 1 : q[i] = w[(Half + 1) + i - 1]
    <3>1. \A i \in Half + 1 .. DBits : w[i] \in Bit
      BY <2>2, <2>3, Widths
    <3> QED BY <2>3, <3>1, SubSeqProperties, Widths
  <2> HIDE DEF p, q
  <2>7. Len(p) = Half /\ Len(q) = DBits - Half
    BY <2>3, <2>5, <2>6, Widths
  <2> DEFINE j == p \o q
  <2>8. /\ j \in Seq(Bit) /\ Len(j) = Len(p) + Len(q)
        /\ \A i \in 1 .. Len(p) + Len(q) : j[i] = IF i <= Len(p) THEN p[i] ELSE q[i - Len(p)]
    BY <2>5, <2>6, ConcatProperties
  <2> HIDE DEF j
  <2>9. Len(j) = DBits
    BY <2>3, <2>7, <2>8, Widths
  <2>10. ASSUME NEW i \in 1 .. DBits PROVE j[i] = w[i]
    <3>1. CASE i <= Half
      BY <2>3, <2>5, <2>7, <2>8, <3>1, Widths
    <3>2. CASE ~ (i <= Half)
      <4>1. i - Half \in 1 .. DBits - Half /\ j[i] = q[i - Half]
        BY <2>3, <2>7, <2>8, <3>2, Widths
      <4>2. (Half + 1) + (i - Half) - 1 = i
        BY <2>3
      <4>3. DBits - (Half + 1) + 1 = DBits - Half
        BY <2>3, Widths
      <4>4. q[i - Half] = w[(Half + 1) + (i - Half) - 1]
        BY <2>6, <4>1, <4>3
      <4> QED BY <4>1, <4>2, <4>4
    <3> QED BY <3>1, <3>2
  <2>11. j = w
    BY <2>2, <2>8, <2>9, <2>10, SeqEqual
  <2> QED BY <2>4, <2>11 DEF j, w
<1> HIDE DEF f
<1>3. LoadFile(f) = [a \in Addr |-> f[a][2] \o f[a][1]]
  BY <1>1 DEF LoadFile
<1>4. LoadFile(f) = m
  BY <1>2, <1>3
<1> QED BY <1>1, <1>4 DEF f

LEMMA LoadsImage == Imaged => LoadFile(file) \in [Addr -> Word]
<1>1. CASE file = None
  BY <1>1, BlankType DEF LoadFile
<1>2. CASE \E m \in [Addr -> Word] : file = SaveFile(m)
  BY <1>2, LoadsSaved
<1> QED BY <1>1, <1>2 DEF Imaged

LEMMA BoardBegins == BoardInit => BoardInv
<1> SUFFICES ASSUME BoardInit PROVE BoardInv
  OBVIOUS
<1>1. nv \in NvramType /\ nv.state = "IDLE" /\ nv.cs = 0 /\ nv.sk = 0
  BY BlankType, FreshSound DEF BoardInit, Fresh
<1>2. Quiet
  BY <1>1, IdleSound DEF Quiet
<1>3. Started
  <2>1. Ones \in Seq(Bit)
    BY BlankType, OwnBits, Widths DEF Word
  <2> QED BY <2>1 DEF BoardInit, Started
<1>4. Imaged
  BY DEF BoardInit, Imaged
<1> QED BY <1>2, <1>3, <1>4, StartHolds

LEMMA BootsKeeps ==
  ASSUME BoardInv, Boots
  PROVE  BoardInv'
<1>0. nv' = Fresh(LoadFile(file)) /\ LoadFile(file) \in [Addr -> Word]
  BY LoadsImage DEF Boots, BoardInv
<1>1. nv' \in NvramType /\ nv'.state = "IDLE" /\ nv'.cs = 0 /\ nv'.sk = 0
  BY <1>0, FreshSound DEF Fresh
<1>2. Quiet'
  BY <1>1, IdleSound DEF Quiet
<1>3. Started'
  <2>1. fw.result \in Seq(Bit)
    BY DEF BoardInv, FwType
  <2> QED BY <2>1 DEF Boots, Started
<1>4. Imaged'
  BY DEF Boots, Imaged, BoardInv
<1> QED BY <1>2, <1>3, <1>4, StartHolds, PTL

LEMMA BoardSame ==
  ASSUME BoardInv, nv' = nv, fw' = fw, Imaged'
  PROVE  BoardInv'
<1>1. Now' = Now /\ Finished' = Finished /\ Busy' = Busy
  BY DEF Now, Finished, Busy
<1>2. Chosen' = Chosen /\ Looked' = Looked /\ Clocked' = Clocked /\ Taken' = Taken
  BY <1>1 DEF Chosen, Looked, Clocked, Taken
<1>3. Sound(nv') /\ FwType' /\ Placed' /\ Levels' /\ Tracked'
  BY <1>1, <1>2 DEF BoardInv, FwType, Placed, Levels, Tracked
<1>4. Lands' /\ Collected' /\ Probed' /\ Waiting' /\ SizeFound'
  BY <1>2 DEF BoardInv, Lands, Past, Collected, Probed, Waiting, SizeFound
<1> QED BY <1>3, <1>4 DEF BoardInv

LEMMA PowerKeeps ==
  ASSUME BoardInv, SaveBegins \/ SaveEnds \/ Killed \/ UNCHANGED bvars
  PROVE  BoardInv'
<1>1. nv' = nv /\ fw' = fw
  BY DEF SaveBegins, SaveEnds, Killed, bvars
<1>2. nv.mem \in [Addr -> Word] /\ Imaged
  BY DEF BoardInv, Sound, NvramType
<1>3. Imaged'
  BY <1>2 DEF SaveBegins, SaveEnds, Killed, bvars, Imaged
<1> QED BY <1>1, <1>3, BoardSame
-----------------------------------------------------------------------------
(* The chip's answer to a read, that many clocks after the command.         *)
LEMMA AnswerBit ==
  ASSUME NEW n, NEW a, NEW k \in 0 .. DBits, NEW b, Reads(n, a, k, b), n.cs = 1
  PROVE  NvramRead(n) = IF k = 0 THEN 0 ELSE n.mem[a][k]
<1>1. n.state = "READ_OUT" /\ n.out = n.mem[a] /\ n.sent = k + 1
  BY Widths DEF Reads
<1>2. CASE k = 0
  BY <1>1, <1>2 DEF NvramRead
<1>3. CASE k # 0
  <2>1. n.sent # 1 /\ n.sent \in 2 .. DBits + 1 /\ n.sent - 1 = k
    BY <1>1, <1>3, Widths
  <2> QED BY <1>1, <1>3, <2>1 DEF NvramRead
<1> QED BY <1>2, <1>3

LEMMA InputBit ==
  ASSUME NvramRead(nv) \in Bit
  PROVE  (2 \in Ipcr <=> NvramRead(nv) = 1) /\ (IF 2 \in Ipcr THEN 1 ELSE 0) = NvramRead(nv)
BY DEF Ipcr, Bit

(* Bits come in only during a read.                                         *)
LEMMA GetsRead ==
  ASSUME FwType, Busy, fw.clk \in Receiving(Now)
  PROVE  /\ fw.op \in Ops /\ fw.op.kind \in {"read", "write"} /\ fw.op.a \in Addr
         /\ fw.tr = 1 /\ Now = ReadWord(fw.op.a)
<1>1. fw.op \in Ops /\ fw.clk \in Nat
  BY NowForm DEF FwType
<1>2. /\ fw.op.kind \in {"read", "erase", "write", "enable", "disable", "size"}
      /\ fw.op.kind \in {"read", "erase", "write"} => fw.op.a \in Addr
      /\ fw.op.kind = "write" => fw.op.w \in Word
  BY <1>1, OpKinds
<1>3. Now.ins # 0
  <2>1. Receiving(Now) = Len(Now.bits) + 2 .. Len(Now.bits) + Now.ins + 1
    BY DEF Receiving
  <2>2. Len(Now.bits) \in Nat
    BY NowForm DEF Form
  <2> HIDE DEF Now
  <2> QED BY <1>1, <2>1, <2>2
<1>4. fw.op.kind \notin {"enable", "disable"}
  <2> SUFFICES ASSUME fw.op.kind \in {"enable", "disable"} PROVE FALSE
    OBVIOUS
  <2>1. PICK s \in {EWEN, EWDS} : Now = Switch(s)
    BY NowIs
  <2> QED BY <1>3, <2>1, SwitchForm
<1>5. fw.op.kind # "size"
  BY <1>3, NowIs, SizeForm
<1>6. fw.op.kind # "erase"
  <2> SUFFICES ASSUME fw.op.kind = "erase" PROVE FALSE
    OBVIOUS
  <2>1. Now = EraseWord(fw.op.a) \/ Now = Check
    BY NowIs
  <2> QED BY <1>2, <1>3, <2>1, EraseForm, CheckForm
<1>7. fw.op.kind = "write" => fw.tr = 1 /\ Now = ReadWord(fw.op.a)
  <2> SUFFICES ASSUME fw.op.kind = "write" PROVE fw.tr = 1 /\ Now = ReadWord(fw.op.a)
    OBVIOUS
  <2>1. \/ fw.tr = 1 /\ Now = ReadWord(fw.op.a)
        \/ Now = EraseWord(fw.op.a)
        \/ Now = Check
        \/ Now = WriteWord(fw.op.a, fw.op.w)
    BY NowIs
  <2> QED BY <1>2, <1>3, <2>1, EraseForm, CheckForm, WriteForm
<1>8. fw.op.kind = "read" => fw.tr = 1 /\ Now = ReadWord(fw.op.a)
  BY NowIs
<1> QED BY <1>1, <1>2, <1>4, <1>5, <1>6, <1>7, <1>8

(* The bit that comes in is the next of the word.                           *)
LEMMA GetHears ==
  ASSUME BoardInv, Busy, fw.clk \in Receiving(Now), fw.edge = 0
  PROVE  \E k \in 0 .. DBits :
           /\ fw.clk = CmdBits + 2 + k /\ Len(fw.acc) = k
           /\ NvramRead(nv) = IF k = 0 THEN 0 ELSE nv.mem[fw.op.a][k]
<1> DEFINE a == fw.op.a
           c == fw.clk - 1
           k == fw.clk - CmdBits - 2
<1>1. fw.op.kind \in {"read", "write"} /\ a \in Addr /\ fw.tr = 1 /\ Now = ReadWord(a) /\ fw.clk \in Nat
  BY GetsRead DEF BoardInv, FwType
<1>2. Now.bits = Sends(READ, a) /\ Len(Now.bits) = CmdBits /\ Now.ins = DBits + 1
  BY <1>1, ReadForm
<1>3. /\ Receiving(Now) = CmdBits + 2 .. CmdBits + DBits + 2
      /\ Selecting(Now) = 1 .. CmdBits + DBits + 2
  <2>1. CmdBits + (DBits + 1) + 1 = CmdBits + DBits + 2
    BY Widths
  <2> QED BY <1>2, <2>1 DEF Receiving, Selecting
<1>4. fw.clk \in CmdBits + 2 .. CmdBits + DBits + 2
  BY <1>3
<1>5. k \in 0 .. DBits /\ c \in Nat /\ c > CmdBits /\ k = c - 1 - CmdBits /\ fw.clk = CmdBits + 2 + k
  BY <1>4, Widths
<1>6. fw.clk \in Selecting(Now) /\ fw.clk - 1 \in Selecting(Now) /\ fw.clk # 1
  BY <1>3, <1>4, Widths
<1>7. nv.cs = 1
  BY <1>6 DEF BoardInv, Levels, Chosen
<1>8. PICK b \in Base : Tracks(nv, Now.bits, c, b)
  BY <1>6 DEF BoardInv, Tracked, Clocked
<1>9. a \in Seq(Bit) /\ Len(a) >= ABits /\ SubSeq(a, 1, ABits) = a
  BY <1>1, OwnBits, Widths DEF Addr
<1>10. Len(fw.acc) = k
  <2>1. Len(fw.acc) = Taken
    BY <1>1 DEF BoardInv, Collected
  <2> QED BY <1>4, <2>1, Widths DEF Taken
<1> HIDE DEF a, c, k
<1>11. Reads(nv, a, k, b)
  <2>1. Tracks(nv, Sends(READ, a), c, b)
    BY <1>2, <1>8
  <2>2. Reads(nv, SubSeq(a, 1, ABits), c - 1 - CmdBits, b)
    BY <1>5, <1>9, <2>1, TracksRead
  <2> QED BY <1>5, <1>9, <2>2
<1>12. NvramRead(nv) = IF k = 0 THEN 0 ELSE nv.mem[a][k]
  BY <1>5, <1>7, <1>11, AnswerBit
<1> QED BY <1>5, <1>10, <1>12 DEF a

LEMMA GetKeeps ==
  ASSUME BoardInv, GetStep
  PROVE  BoardInv'
<1> DEFINE d == IF 2 \in Ipcr THEN 1 ELSE 0
           l == Append(fw.acc, d)
<1>1. /\ Busy /\ fw.clk \in Receiving(Now) /\ fw.edge = 0 /\ nv' = nv /\ file' = file
      /\ fw' = [fw EXCEPT !.edge = 1, !.acc = l]
  BY DEF GetStep, Running, GetDue, Busy
<1>2. /\ fw.op \in Ops /\ fw.op.kind \in {"read", "write"} /\ fw.op.a \in Addr
      /\ fw.tr = 1 /\ Now = ReadWord(fw.op.a)
  BY <1>1, GetsRead DEF BoardInv
<1>3. PICK k \in 0 .. DBits :
        /\ fw.clk = CmdBits + 2 + k /\ Len(fw.acc) = k
        /\ NvramRead(nv) = IF k = 0 THEN 0 ELSE nv.mem[fw.op.a][k]
  BY <1>1, GetHears
<1>4. fw.acc \in Seq(Bit) /\ fw \in [op: Ops \cup {Idle}, tr: Nat \ {0}, clk: Nat, edge: 0 .. 3, acc: Seq(Bit),
                                     looks: Nat, result: Seq(Bit), size: Nat]
  BY DEF BoardInv, FwType
<1>5. d = NvramRead(nv) /\ d \in Bit
  <2>1. nv.mem[fw.op.a] \in Word
    BY <1>2 DEF BoardInv, Sound, NvramType
  <2>2. NvramRead(nv) \in Bit
    <3>1. CASE k = 0
      BY <1>3, <3>1 DEF Bit
    <3>2. CASE k # 0
      <4>1. k \in 1 .. DBits
        BY <3>2, Widths
      <4> QED BY <1>3, <2>1, <3>2, <4>1 DEF Word
    <3> QED BY <3>1, <3>2
  <2> QED BY <2>2, InputBit
<1> HIDE DEF d
<1>6. /\ l \in Seq(Bit) /\ Len(l) = k + 1 /\ l[k + 1] = d
      /\ \A i \in 1 .. k : l[i] = fw.acc[i]
  BY <1>3, <1>4, <1>5
<1> HIDE DEF l
<1>7. /\ FwType' /\ fw'.op = fw.op /\ fw'.tr = fw.tr /\ fw'.clk = fw.clk /\ fw'.edge = 1 /\ fw'.acc = l
      /\ fw'.looks = fw.looks /\ fw'.result = fw.result /\ fw'.size = fw.size
  <2>1. 1 \in 0 .. 3
    OBVIOUS
  <2> QED BY <1>1, <1>4, <1>6, <2>1 DEF FwType
<1>8. Now' = Now /\ Finished' = Finished /\ Busy'
  BY <1>1, <1>7 DEF Now, Finished, Busy
<1>9. /\ Selecting(Now) = 1 .. CmdBits + DBits + 2 /\ Sending(Now) = 2 .. CmdBits + 1
      /\ fw.clk \in CmdBits + 2 .. CmdBits + DBits + 2
  <2>1. Len(Now.bits) = CmdBits /\ Now.ins = DBits + 1
    BY <1>2, ReadForm
  <2>2. CmdBits + (DBits + 1) + 1 = CmdBits + DBits + 2
    BY Widths
  <2> QED BY <1>3, <2>1, <2>2, Widths DEF Selecting, Sending
<1>10. fw.clk \in Selecting(Now) /\ fw.clk - 1 \in Selecting(Now) /\ fw.clk \notin Sending(Now) /\ fw.clk # 1
  BY <1>9, Widths
<1>11. Placed'
  BY <1>1, <1>7, <1>8 DEF BoardInv, Placed
<1>12. Levels'
  <2>1. Chosen /\ Chosen'
    BY <1>1, <1>7, <1>8, <1>10 DEF Chosen
  <2> QED BY <1>1, <1>7, <1>8, <1>10, <2>1 DEF BoardInv, Levels
<1>13. Clocked' = Clocked
  BY <1>1, <1>7 DEF Clocked
<1>14. Tracked'
  BY <1>1, <1>7, <1>8, <1>10, <1>13 DEF BoardInv, Tracked
<1>15. Lands'
  BY <1>1, <1>7, <1>13 DEF BoardInv, Lands, Past
<1>16. Collected'
  <2>1. ASSUME NEW i \in 2 .. k + 1 PROVE l[i] = nv.mem[fw.op.a][i - 1]
    <3>1. CASE i = k + 1
      BY <1>3, <1>5, <1>6, <3>1
    <3>2. CASE i # k + 1
      <4>1. i \in 2 .. k /\ i \in 1 .. k
        BY <3>2
      <4> QED BY <1>2, <1>3, <1>6, <4>1 DEF BoardInv, Collected
    <3> QED BY <3>1, <3>2
  <2>2. Taken' = k + 1
    BY <1>3, <1>7, Widths DEF Taken
  <2> QED BY <1>1, <1>2, <1>6, <1>7, <2>1, <2>2 DEF Collected
<1>17. Probed' /\ Waiting' /\ SizeFound' /\ Imaged'
  BY <1>1, <1>2, <1>7 DEF BoardInv, Probed, Waiting, SizeFound, Imaged
<1> QED BY <1>1, <1>7, <1>11, <1>12, <1>14, <1>15, <1>16, <1>17 DEF BoardInv

(* The comparison of a write: the word that was read is the one in the      *)
(* memory.                                                                  *)
LEMMA WordRead ==
  ASSUME BoardInv, fw.op \in Ops, fw.op.kind \in {"read", "write"}, Len(fw.acc) = DBits + 1
  PROVE  Tail(fw.acc) = nv.mem[fw.op.a]
<1> DEFINE w == nv.mem[fw.op.a]
           s == fw.acc
           l == Tail(s)
<1>1. s \in Seq(Bit) /\ Len(s) = DBits + 1 /\ \A i \in 2 .. Len(s) : s[i] = w[i - 1]
  BY DEF BoardInv, FwType, Collected
<1>2. w \in Word
  <2>1. fw.op.a \in Addr
    BY OpKinds
  <2> QED BY <2>1 DEF BoardInv, Sound, NvramType
<1>3. w \in Seq(Bit) /\ Len(w) = DBits
  BY <1>2, OwnBits, Widths DEF Word
<1> HIDE DEF w, s
<1>4. s # <<>>
  BY <1>1, Widths
<1>5. l \in Seq(Bit) /\ Len(l) = DBits /\ \A i \in 1 .. DBits : l[i] = s[i + 1]
  BY <1>1, <1>4, Widths
<1> HIDE DEF l
<1>6. \A i \in 1 .. DBits : l[i] = w[i]
  <2> TAKE i \in 1 .. DBits
  <2>1. i + 1 \in 2 .. Len(s) /\ (i + 1) - 1 = i
    BY <1>1, Widths
  <2> QED BY <1>1, <1>5, <2>1
<1>7. l = w
  BY <1>3, <1>5, <1>6, SeqEqual
<1> QED BY <1>7 DEF l, w, s

LEMMA CompareKeeps ==
  ASSUME BoardInv, CompareStep
  PROVE  BoardInv'
<1>1. /\ Busy /\ fw.op.kind = "write" /\ fw.tr = 2 /\ fw.acc # <<>> /\ nv' = nv /\ file' = file
      /\ fw' = [fw EXCEPT !.acc = <<>>,
                          !.tr = IF Tail(fw.acc) = fw.op.w THEN Len(Routine(fw.op)) + 1 ELSE fw.tr]
  BY DEF CompareStep, Running, CompareDue, Busy
<1>2. /\ fw.op \in Ops /\ fw.clk \in Nat /\ fw.edge \in 0 .. 3 /\ fw.op # Idle
      /\ fw \in [op: Ops \cup {Idle}, tr: Nat \ {0}, clk: Nat, edge: 0 .. 3, acc: Seq(Bit),
                 looks: Nat, result: Seq(Bit), size: Nat]
  BY <1>1, NowForm DEF BoardInv, FwType, Busy
<1>3. fw.clk = 0 /\ fw.edge = 0 /\ Len(fw.acc) = DBits + 1
  <2>1. ~ (fw.clk + fw.edge > 0)
    BY <1>1 DEF BoardInv, Collected
  <2> QED BY <1>1, <1>2, <2>1 DEF BoardInv, Collected
<1>4. Len(Routine(fw.op)) = 5
  <2> DEFINE a == fw.op.a
             w == fw.op.w
  <2>1. Routine(fw.op) = <<ReadWord(a), EraseWord(a), Check, WriteWord(a, w), Check>>
    BY <1>1, <1>2, RoutineOf
  <2> QED BY <2>1
<1> DEFINE r == IF Tail(fw.acc) = fw.op.w THEN 6 ELSE 2
<1>5. fw' = [fw EXCEPT !.acc = <<>>, !.tr = r]
  BY <1>1, <1>4
<1>6. r \in {2, 6} /\ (r = 6 => nv.mem[fw.op.a] = fw.op.w)
  <2>1. Tail(fw.acc) = nv.mem[fw.op.a]
    BY <1>1, <1>2, <1>3, WordRead
  <2> QED BY <2>1
<1> HIDE DEF r
<1>7. /\ FwType' /\ fw'.op = fw.op /\ fw'.tr = r /\ fw'.clk = 0 /\ fw'.edge = 0 /\ fw'.acc = <<>>
      /\ fw'.looks = fw.looks /\ fw'.result = fw.result /\ fw'.size = fw.size
  <2>1. <<>> \in Seq(Bit) /\ r \in Nat \ {0}
    BY <1>6, EmptySeq
  <2> QED BY <1>2, <1>3, <1>5, <2>1 DEF FwType
<1>8. 0 \notin Selecting(Now) /\ 0 - 1 \notin Selecting(Now) /\ LastClock(Now) \in Nat
  <2>1. Len(Now.bits) \in Nat /\ Now.ins \in Nat
    BY <1>1, NowForm DEF BoardInv, Form
  <2> HIDE DEF Now
  <2> QED BY <2>1 DEF Selecting, LastClock
<1>9. ~ Chosen
  BY <1>3, <1>8 DEF Chosen
<1>10. Len(Routine(fw'.op)) = 5
  BY <1>4, <1>7
<1>11. Busy' <=> r = 2
  <2> DEFINE q == Len(Routine(fw'.op))
  <2>1. Busy' <=> fw'.op # Idle /\ ~ (fw'.tr > q)
    BY DEF Busy, Finished
  <2> HIDE DEF q
  <2>2. q = 5
    BY <1>10 DEF q
  <2> QED BY <1>2, <1>6, <1>7, <2>1, <2>2
<1>12. r = 2 => Now' = Now
  BY <1>1, <1>7 DEF Now
<1>13. Placed'
  <2>1. fw'.tr <= Len(Routine(fw'.op)) + 1
    <3> DEFINE q == Len(Routine(fw'.op))
    <3>1. q = 5
      BY <1>10
    <3> HIDE DEF q
    <3>2. fw'.tr <= q + 1
      BY <1>6, <1>7, <3>1
    <3> QED BY <3>2 DEF q
  <2> QED BY <1>7, <1>8, <1>11, <1>12, <2>1 DEF Placed
<1>14. Levels'
  <2>1. ~ Chosen'
    BY <1>7, <1>8, <1>11, <1>12 DEF Chosen
  <2> QED BY <1>1, <1>3, <1>7, <1>9, <2>1 DEF BoardInv, Levels
<1>15. Tracked'
  BY <1>7, <1>8, <1>11, <1>12 DEF Tracked
<1>16. Lands'
  <2>1. Past(4, CmdBits + DBits)' => r = 6
    BY <1>6, <1>7 DEF Past
  <2> QED BY <1>1, <1>6, <1>7, <2>1 DEF Lands
<1>17. Collected'
  <2>1. Len(<<>>) = 0
    BY EmptySeq
  <2>2. \A i \in 2 .. Len(fw'.acc) : fw'.acc[i] = nv'.mem[fw'.op.a][i - 1]
    BY <1>7, <2>1
  <2> QED BY <1>1, <1>6, <1>7, <2>2 DEF Collected
<1>18. Probed' /\ Waiting' /\ SizeFound' /\ Imaged'
  BY <1>1, <1>7 DEF BoardInv, Probed, Waiting, SizeFound, Imaged
<1> QED BY <1>1, <1>7, <1>13, <1>14, <1>15, <1>16, <1>17, <1>18 DEF BoardInv

(* The probe sees the answer begin after as many address bits as the chip   *)
(* has.                                                                     *)
LEMMA LookSees ==
  ASSUME BoardInv, Running, LookDue
  PROVE  /\ fw.op.kind = "size" /\ fw.op \in Ops /\ fw.tr = 1 /\ Now = Size
         /\ fw.clk \in 5 .. ABits + 4 /\ fw.looks = fw.clk - 5
         /\ nv.cs = 1 /\ nv.sk = 0
         /\ 2 \in Ipcr <=> fw.clk < ABits + 4
         /\ \E b \in Base : Tracks(nv, Now.bits, fw.clk, b)
<1>1. Busy /\ fw.edge = 3 /\ fw.clk \in Nat
  BY DEF Running, Busy, LookDue, BoardInv, FwType
<1>2. fw.op.kind = "size" /\ fw.clk \in Sending(Now) /\ fw.clk > 4
  BY <1>1 DEF BoardInv, Placed, Looked
<1>3. fw.op \in Ops /\ fw.tr = 1 /\ Now = Size
  BY <1>1, <1>2, NowIs DEF BoardInv
<1>4. PICK r \in Seq(Bit) : Len(r) = MaxProbe /\ Now.bits = Sends(READ, r)
  BY <1>3, SizeForm
<1>5. MaxProbe \in Nat /\ MaxProbe > ABits
  BY BoardAssumption
<1>6. /\ Sending(Now) = 2 .. MaxProbe + 4
      /\ Selecting(Now) = 1 .. MaxProbe + 4
  <2>1. Len(Now.bits) = 3 + MaxProbe /\ Now.ins = 0
    BY <1>3, SizeForm
  <2> QED BY <1>5, <2>1 DEF Sending, Selecting
<1>7. fw.clk \in 5 .. ABits + 4 /\ fw.looks = fw.clk - 5 /\ fw.clk \in Selecting(Now)
  <2>1. fw.clk <= MaxProbe + 4
    BY <1>2, <1>5, <1>6
  <2>2. fw.clk <= ABits + 4
    BY <1>2, <1>3, <2>1 DEF BoardInv, Waiting
  <2>3. fw.looks = fw.clk - 5
    BY <1>1, <1>2, <1>3, <1>5, <2>1 DEF BoardInv, Probed
  <2> QED BY <1>1, <1>2, <1>5, <1>6, <2>1, <2>2, <2>3, Widths
<1>8. nv.cs = 1 /\ nv.sk = 0
  BY <1>1, <1>7 DEF BoardInv, Levels, Chosen
<1>9. PICK b \in Base : Tracks(nv, Now.bits, fw.clk, b)
  BY <1>1, <1>7 DEF BoardInv, Tracked, Clocked
<1>10. Len(r) >= ABits
  BY <1>4, <1>5, Widths
<1>11. Tracks(nv, Sends(READ, r), fw.clk, b)
  BY <1>4, <1>9
<1>12. /\ fw.clk <= CmdBits /\ nv.cs = 1 => nv.state = "CMD"
       /\ fw.clk > CmdBits => Reads(nv, SubSeq(r, 1, ABits), fw.clk - 1 - CmdBits, b)
  BY <1>1, <1>4, <1>10, <1>11, TracksRead
<1>13. CASE fw.clk < ABits + 4
  <2>1. nv.state = "CMD"
    BY <1>7, <1>8, <1>12, <1>13, Widths
  <2>2. NvramRead(nv) = 1
    BY <2>1 DEF NvramRead
  <2> QED BY <1>2, <1>3, <1>7, <1>8, <1>9, <1>13, <2>2, InputBit DEF Bit
<1>14. CASE ~ (fw.clk < ABits + 4)
  <2>1. fw.clk > CmdBits /\ fw.clk - 1 - CmdBits = 0 /\ 0 \in 0 .. DBits
    BY <1>7, <1>14, Widths
  <2>2. Reads(nv, SubSeq(r, 1, ABits), 0, b)
    BY <1>12, <2>1
  <2>3. NvramRead(nv) = 0
    BY <1>8, <2>1, <2>2, AnswerBit
  <2> QED BY <1>2, <1>3, <1>7, <1>8, <1>9, <1>14, <2>3, InputBit DEF Bit
<1> QED BY <1>13, <1>14

LEMMA LookKeeps ==
  ASSUME BoardInv, LookStep
  PROVE  BoardInv'
<1>1. /\ Running /\ LookDue /\ Busy /\ nv' = nv /\ file' = file /\ fw.edge = 3
  BY DEF LookStep, Running, LookDue, Busy
<1>2. /\ fw.op.kind = "size" /\ fw.op \in Ops /\ fw.tr = 1 /\ Now = Size
      /\ fw.clk \in 5 .. ABits + 4 /\ fw.looks = fw.clk - 5
      /\ nv.cs = 1 /\ nv.sk = 0
      /\ 2 \in Ipcr <=> fw.clk < ABits + 4
  BY <1>1, LookSees
<1>3. PICK b \in Base : Tracks(nv, Now.bits, fw.clk, b)
  BY <1>1, LookSees
<1>4. MaxProbe \in Nat /\ MaxProbe > ABits /\ fw.clk \in Nat
  BY <1>2, BoardAssumption, Widths
<1>5. /\ Sending(Now) = 2 .. MaxProbe + 4 /\ Selecting(Now) = 1 .. MaxProbe + 4
      /\ FirstAfter(Now) = MaxProbe + 5 /\ LastClock(Now) = MaxProbe + 6
  <2>1. Len(Now.bits) = 3 + MaxProbe /\ Now.ins = 0
    BY <1>2, SizeForm
  <2> QED BY <1>4, <2>1 DEF Sending, Selecting, FirstAfter, LastClock
<1> DEFINE c == IF fw.clk < ABits + 4 THEN fw.clk + 1 ELSE MaxProbe + 5
           l == fw.clk - 4
<1>6. fw' = [fw EXCEPT !.looks = l, !.edge = 0, !.clk = c]
  <2>1. ~ (fw.looks + 1 >= MaxProbe) /\ fw.looks + 1 = l
    BY <1>2, <1>4, Widths
  <2>2. fw' = [fw EXCEPT !.looks = fw.looks + 1, !.edge = 0,
                         !.clk = IF 2 \in Ipcr THEN fw.clk + 1 ELSE FirstAfter(Now)]
    BY <2>1 DEF LookStep
  <2> QED BY <1>2, <1>5, <2>1, <2>2
<1>7. /\ l \in Nat /\ c \in Nat /\ c >= 6 /\ c - 1 \in 1 .. MaxProbe + 4 /\ c <= MaxProbe + 6
      /\ l = IF c > MaxProbe + 4 THEN ABits ELSE c - 5
      /\ c <= MaxProbe + 4 => c <= ABits + 4 /\ c = fw.clk + 1
  BY <1>2, <1>4, Widths
<1> HIDE DEF c, l
<1>8. /\ FwType' /\ fw'.op = fw.op /\ fw'.tr = fw.tr /\ fw'.clk = c /\ fw'.edge = 0 /\ fw'.acc = fw.acc
      /\ fw'.looks = l /\ fw'.result = fw.result /\ fw'.size = fw.size
  <2>1. 0 \in 0 .. 3
    OBVIOUS
  <2>2. fw \in [op: Ops \cup {Idle}, tr: Nat \ {0}, clk: Nat, edge: 0 .. 3, acc: Seq(Bit),
                looks: Nat, result: Seq(Bit), size: Nat]
    BY DEF BoardInv, FwType
  <2> QED BY <1>6, <1>7, <2>1, <2>2 DEF FwType
<1>9. Now' = Now /\ Finished' = Finished /\ Busy'
  BY <1>1, <1>8 DEF Now, Finished, Busy
<1>10. Placed'
  BY <1>1, <1>5, <1>7, <1>8, <1>9 DEF BoardInv, Placed
<1>11. Levels'
  <2>1. Chosen'
    BY <1>5, <1>7, <1>8, <1>9 DEF Chosen
  <2> QED BY <1>1, <1>2, <1>8, <2>1 DEF BoardInv, Levels
<1>12. Tracked'
  <2> SUFFICES ASSUME c \in Selecting(Now) PROVE \E e \in Base : Tracks(nv, Now.bits, Clocked', e)
    BY <1>1, <1>8, <1>9 DEF Tracked
  <2>1. Clocked' = fw.clk
    BY <1>4, <1>5, <1>7, <1>8 DEF Clocked
  <2> QED BY <1>3, <2>1
<1>13. Lands' /\ Collected'
  BY <1>2, <1>8 DEF Lands, Collected
<1>14. Probed' /\ Waiting'
  BY <1>2, <1>4, <1>7, <1>8 DEF Probed, Waiting
<1>15. SizeFound' /\ Imaged'
  BY <1>1, <1>8 DEF BoardInv, SizeFound, Imaged
<1> QED BY <1>1, <1>8, <1>10, <1>11, <1>12, <1>13, <1>14, <1>15 DEF BoardInv

LEMMA PutKeeps ==
  ASSUME BoardInv, PutStep
  PROVE  BoardInv'
<1>1. Sound(nv) /\ FwType /\ Placed /\ Levels /\ Tracked
  BY DEF BoardInv
<1>2. Sound(nv') /\ FwType' /\ SameCall
  BY <1>1, PutPins, PutMoves
<1>3. Placed' /\ Levels' /\ Tracked'
  BY <1>1, PutWires
<1>4. Lands' /\ Collected' /\ Probed' /\ Waiting'
  BY PutLands, PutCollected, PutProbes
<1>5. SizeFound' /\ Imaged'
  BY <1>2 DEF SameCall, PutStep, BoardInv, SizeFound, Imaged
<1> QED BY <1>2, <1>3, <1>4, <1>5 DEF BoardInv

LEMMA BoardInductive == BoardSpec => []BoardInv
<1>1. BoardInv /\ [BoardNext]_bvars => BoardInv'
  <2> SUFFICES ASSUME BoardInv, [BoardNext]_bvars PROVE BoardInv'
    OBVIOUS
  <2>1. ASSUME NEW op \in Ops, Call(op) PROVE BoardInv'
    BY <2>1, CallKeeps
  <2>2. CASE PutStep
    BY <2>2, PutKeeps
  <2>3. CASE GetStep
    BY <2>3, GetKeeps
  <2>4. CASE CompareStep
    BY <2>4, CompareKeeps
  <2>5. CASE LookStep
    BY <2>5, LookKeeps
  <2>6. CASE Return
    BY <2>6, ReturnKeeps
  <2>7. CASE SaveBegins \/ SaveEnds \/ Killed \/ UNCHANGED bvars
    BY <2>7, PowerKeeps
  <2>8. CASE Boots
    BY <2>8, BootsKeeps
  <2> QED BY <2>1, <2>2, <2>3, <2>4, <2>5, <2>6, <2>7, <2>8 DEF BoardNext
<1> QED BY <1>1, BoardBegins, PTL DEF BoardSpec

(* The firmware's size probe (0ec04474), which sends address bits until it  *)
(* sees the 0 that nvram_read puts before an answer, finds the number of    *)
(* address bits of the chip.                                                *)
THEOREM SizeAlwaysFound == BoardSpec => []SizeFound
<1>1. BoardInv => SizeFound
  BY DEF BoardInv
<1> QED BY <1>1, BoardInductive, PTL
-----------------------------------------------------------------------------
(* The store of words.  Each step of the board is one of its steps, or      *)
(* changes nothing the store shows.                                         *)
Disk == IF file = None THEN None ELSE LoadFile(file)

LEMMA StoreBegins == BoardInit => Store!StoreInit
<1> SUFFICES ASSUME BoardInit PROVE Store!StoreInit
  OBVIOUS
<1>1. /\ nv.mem = Blank /\ nv.ewen = TRUE /\ fw.op = Idle /\ fw.result = Ones /\ Disk = None
  BY DEF BoardInit, Fresh, Start, Disk
<1> QED BY <1>1 DEF Store!StoreInit, Disk, Store!Idle, Idle, Store!Blank, Blank, Store!None, None

LEMMA PutStores ==
  ASSUME BoardInv, PutStep
  PROVE  Store!Erase \/ Store!Program \/ Store!Enable \/ UNCHANGED Store!svars
<1>1. /\ Sound(nv) /\ FwType /\ Placed /\ Levels /\ Tracked
  BY DEF BoardInv
<1>2. fw'.op = fw.op /\ fw'.result = fw.result /\ Disk' = Disk
  BY <1>1, PutMoves DEF SameCall, PutStep, Disk
<1>3. /\ nv'.ewen = IF Switching THEN fw.op.kind = "enable" ELSE nv.ewen
      /\ nv'.mem = IF Erasing /\ nv.ewen THEN [nv.mem EXCEPT ![fw.op.a] = Ones]
                   ELSE IF Programming /\ nv.ewen THEN [nv.mem EXCEPT ![fw.op.a] = fw.op.w]
                   ELSE nv.mem
  BY <1>1, PutEffect
<1>4. CASE Erasing /\ nv.ewen
  <2>1. fw.op.kind \in {"erase", "write"} /\ ~ Switching
    BY <1>4 DEF Erasing, Switching
  <2>2. nv'.mem = [nv.mem EXCEPT ![fw.op.a] = Ones] /\ nv'.ewen = nv.ewen
    BY <1>3, <1>4, <2>1
  <2>3. Store!Erase
    BY <1>2, <1>4, <2>1, <2>2 DEF Store!Erase, Disk
  <2> QED BY <2>3
<1>5. CASE ~ Erasing /\ Programming /\ nv.ewen
  <2>1. fw.op.kind = "write" /\ ~ Switching
    BY <1>5 DEF Programming, Switching
  <2>2. nv'.mem = [nv.mem EXCEPT ![fw.op.a] = fw.op.w] /\ nv'.ewen = nv.ewen
    BY <1>3, <1>5, <2>1
  <2>3. Store!Program
    BY <1>2, <1>5, <2>1, <2>2 DEF Store!Program, Disk
  <2> QED BY <2>3
<1>6. CASE Switching
  <2>1. fw.op.kind \in {"enable", "disable"} /\ ~ Erasing /\ ~ Programming
    BY <1>6 DEF Switching, Erasing, Programming
  <2>2. nv'.mem = nv.mem /\ nv'.ewen = (fw.op.kind = "enable")
    BY <1>3, <1>6, <2>1
  <2>3. Store!Enable
    BY <1>2, <2>1, <2>2 DEF Store!Enable, Disk
  <2> QED BY <2>3
<1>7. CASE ~ (Erasing /\ nv.ewen) /\ ~ (Programming /\ nv.ewen) /\ ~ Switching
  <2>1. nv'.mem = nv.mem /\ nv'.ewen = nv.ewen
    BY <1>3, <1>7
  <2> QED BY <1>2, <2>1 DEF Store!svars, Disk
<1> QED BY <1>4, <1>5, <1>6, <1>7

LEMMA ReturnStores ==
  ASSUME BoardInv, Return
  PROVE  Store!End
<1>1. fw.op # Idle /\ Finished
  BY DEF Return
<1>2. /\ fw.op \in Ops /\ fw.tr \in Nat /\ fw.edge = 0
      /\ fw.op.kind = "read" => fw.tr = 2 /\ Len(fw.acc) = DBits + 1
      /\ fw.op.kind = "erase" => fw.tr = 3
      /\ fw.op.kind = "write" => fw.tr = 6
      /\ fw.op.kind \in {"enable", "disable", "size"} => fw.tr = 2
  BY <1>1, EndedCall
<1>3. /\ fw'.op = Idle /\ nv' = nv /\ Disk' = Disk
      /\ fw'.result = IF fw.op.kind = "read" THEN Tail(fw.acc) ELSE fw.result
  BY DEF Return, Start, Disk
<1>4. fw'.result = IF fw.op.kind = "read" THEN nv.mem[fw.op.a] ELSE fw.result
  BY <1>2, <1>3, WordRead
<1>5. nv.ewen /\ fw.op.kind = "write" => nv.mem[fw.op.a] = fw.op.w
  <2>1. fw.op.kind = "write" => Past(4, CmdBits + DBits)
    BY <1>2 DEF Past
  <2> QED BY <2>1 DEF BoardInv, Lands
<1>6. nv.ewen /\ fw.op.kind = "erase" => nv.mem[fw.op.a] = Ones
  <2>1. fw.op.kind = "erase" => Past(1, CmdBits)
    BY <1>2 DEF Past
  <2> QED BY <2>1 DEF BoardInv, Lands
<1>7. fw.op.kind \in {"enable", "disable"} => nv.ewen = (fw.op.kind = "enable")
  <2>1. fw.op.kind \in {"enable", "disable"} => Past(1, CmdBits)
    BY <1>2 DEF Past
  <2> QED BY <2>1 DEF BoardInv, Lands
<1> QED BY <1>1, <1>3, <1>4, <1>5, <1>6, <1>7 DEF Store!End, Store!Idle, Idle, Disk

LEMMA CallStores ==
  ASSUME NEW o \in Ops, Call(o)
  PROVE  \E p \in Store!Ops : Store!Begin(p)
<1>1. o \in Store!Ops
  <2>1. Used \subseteq Addr /\ Values \subseteq Word
    BY BoardAssumption
  <2> QED BY <2>1 DEF Ops, Store!Ops
<1>2. Store!Begin(o)
  BY DEF Call, Start, Store!Begin, Store!Idle, Idle
<1> QED BY <1>1, <1>2

LEMMA PowerStores ==
  ASSUME BoardInv, SaveBegins \/ SaveEnds \/ Killed \/ Boots
  PROVE  Store!Save \/ Store!Restart \/ UNCHANGED Store!svars
<1>1. CASE SaveBegins
  <2>1. Disk' = None /\ nv' = nv /\ fw' = fw
    BY <1>1 DEF SaveBegins, Disk
  <2>2. Store!Save
    BY <2>1 DEF Store!Save, Disk, Store!None, None
  <2> QED BY <2>2
<1>2. CASE SaveEnds
  <2>1. nv.mem \in [Addr -> Word]
    BY DEF BoardInv, Sound, NvramType
  <2>2. file' # None /\ LoadFile(file') = nv.mem /\ nv' = nv /\ fw' = fw
    BY <1>2, <2>1, LoadsSaved DEF SaveEnds
  <2>3. Disk' = nv.mem
    BY <2>2 DEF Disk
  <2>4. Store!Save
    BY <2>2, <2>3 DEF Store!Save, Disk
  <2> QED BY <2>4
<1>3. CASE Killed
  BY <1>3 DEF Killed, Store!svars
<1>4. CASE Boots
  <2>1. /\ nv'.mem = LoadFile(file) /\ nv'.ewen = TRUE /\ fw'.op = Idle /\ fw'.result = fw.result
        /\ Disk' = Disk
    BY <1>4 DEF Boots, Fresh, Start, Disk
  <2>2. nv'.mem = IF Disk = None THEN Blank ELSE Disk
    <3>1. CASE file = None
      BY <2>1, <3>1 DEF Disk, LoadFile
    <3>2. CASE file # None
      <4>1. LoadFile(file) \in [Addr -> Word]
        BY LoadsImage DEF BoardInv
      <4>2. LoadFile(file) # None
        <5>1. [k \in 1 .. ABits |-> 0] \in Addr
          BY DEF Addr, Bit
        <5>2. DOMAIN LoadFile(file) = Addr /\ DOMAIN None = {}
          BY <4>1 DEF None
        <5> QED BY <5>1, <5>2
      <4> QED BY <2>1, <3>2, <4>2 DEF Disk
    <3> QED BY <3>1, <3>2
  <2>3. Store!Restart
    BY <2>1, <2>2 DEF Store!Restart, Store!Boot, Disk, Store!None, None, Store!Blank, Blank, Store!Idle, Idle
  <2> QED BY <2>3
<1> QED BY <1>1, <1>2, <1>3, <1>4

(* Pins, chip, firmware and image file are the store of words that          *)
(* WordStore promises: what the firmware's read routine (0ec04610) returns  *)
(* is the word, a write lands and touches no other word, and what           *)
(* nvram_save_file wrote is what the next start loads.                      *)
THEOREM BoardImplementsStore == BoardSpec => ImplementsStore
<1>1. BoardInit => Store!StoreInit
  BY StoreBegins
<1>2. BoardInv /\ [BoardNext]_bvars => [Store!StoreNext]_Store!svars
  <2> SUFFICES ASSUME BoardInv, [BoardNext]_bvars PROVE Store!StoreNext \/ UNCHANGED Store!svars
    OBVIOUS
  <2>1. ASSUME NEW op \in Ops, Call(op) PROVE Store!StoreNext
    BY <2>1, CallStores DEF Store!StoreNext
  <2>2. CASE PutStep
    BY <2>2, PutStores DEF Store!StoreNext
  <2>3. CASE GetStep
    BY <2>3 DEF GetStep, Store!svars
  <2>4. CASE CompareStep
    BY <2>4 DEF CompareStep, Store!svars
  <2>5. CASE LookStep
    BY <2>5 DEF LookStep, Store!svars
  <2>6. CASE Return
    BY <2>6, ReturnStores DEF Store!StoreNext
  <2>7. CASE SaveBegins \/ SaveEnds \/ Killed \/ Boots
    BY <2>7, PowerStores DEF Store!StoreNext
  <2>8. CASE UNCHANGED bvars
    BY <2>8 DEF bvars, Store!svars
  <2> QED BY <2>1, <2>2, <2>3, <2>4, <2>5, <2>6, <2>7, <2>8 DEF BoardNext
<1> QED BY <1>1, <1>2, BoardInductive, PTL DEF BoardSpec, ImplementsStore, Store!StoreSpec
=============================================================================
