----------------------------- MODULE NvramPins -----------------------------
(***************************************************************************)
(* The EEPROM with any sequence of levels on its pins: a driver that stops *)
(* in the middle of a command, selects again, clocks on after the end, or  *)
(* moves two pins at once.                                                 *)
(***************************************************************************)
EXTENDS Nvram

CONSTANTS
  Images,        \* what the memory may hold at the start
  MaxClocks,     \* bound: clocks in one selection
  MaxSelects     \* bound: selections

ASSUME PinsAssumption ==
  /\ Images \in SUBSET [Addr -> Word]
  /\ {MaxClocks, MaxSelects} \in SUBSET Nat

VARIABLES
  stream,    \* the bits clocked in since the chip was last selected
  base,      \* memory and write enable at that moment
  selects    \* how often it was selected

pvars == <<nv, stream, base, selects>>

PinsInit ==
  /\ \E image \in Images : nv = Fresh(image)
  /\ stream = <<>>
  /\ base = [mem |-> nv.mem, ewen |-> nv.ewen]
  /\ selects = 0

Selects(p) == p.cs = 1 /\ nv.cs = 0

SetPins(p) ==
  /\ Selects(p) => selects < MaxSelects
  /\ Clocks(nv, p) => Len(stream) < MaxClocks
  /\ nv' = NvramWrite(nv, p)
  /\ IF Selects(p)
       THEN /\ stream' = <<>>
            /\ base' = [mem |-> nv.mem, ewen |-> nv.ewen]
            /\ selects' = selects + 1
       ELSE /\ stream' = IF Clocks(nv, p) THEN Append(stream, nv.di) ELSE stream
            /\ UNCHANGED <<base, selects>>

PinsNext == \E p \in Pins : SetPins(p)

PinsSpec == PinsInit /\ [][PinsNext]_pvars
-----------------------------------------------------------------------------
NvramType ==
  [mem: [Addr -> Word], cs: Bit, sk: Bit, di: Bit,
   state: {"IDLE", "CMD", "WRITE_IN", "READ_OUT"}, rx: Seq(Bit), count: Nat,
   out: Word, sent: 0 .. DBits + 2, ewen: BOOLEAN, addr: Addr]

(* The shift register never outgrows a command or a word, so what is        *)
(* programmed is a word and what is addressed a cell.                       *)
TypeOK ==
  /\ nv \in NvramType
  /\ nv.state = "CMD" => Len(nv.rx) <= CmdBits
  /\ nv.state = "WRITE_IN" => Len(nv.rx) = nv.count /\ nv.count < DBits
  /\ stream \in Seq(Bit)
  /\ base \in [mem: [Addr -> Word], ewen: BOOLEAN]
  /\ selects \in Nat

(* What the data sheet says of a whole stream of bits, without shift        *)
(* registers, counters or states: zeros before the start bit are dropped;   *)
(* the command is the bits from there.                                      *)
Zeros == CHOOSE z \in 0 .. Len(stream) :
           /\ \A k \in 1 .. z : stream[k] = 0
           /\ z = Len(stream) \/ stream[z + 1] = 1
Command  == SubSeq(stream, Zeros + 1, Len(stream))
Complete(n) == Len(Command) >= n
Op       == SubSeq(Command, 2, 3)
OpAddr   == SubSeq(Command, 4, CmdBits)
Data     == SubSeq(Command, CmdBits + 1, CmdBits + DBits)

MemAfter ==
  IF ~ Complete(CmdBits) \/ ~ base.ewen THEN base.mem
  ELSE CASE Op = ERASE -> [base.mem EXCEPT ![OpAddr] = Ones]
         [] Op = WRITE /\ Complete(CmdBits + DBits) -> [base.mem EXCEPT ![OpAddr] = Data]
         [] Op = NONE /\ SubSeq(OpAddr, 1, 2) = ERAL -> Blank
         [] OTHER -> base.mem

EwenAfter ==
  IF Complete(CmdBits) /\ Op = NONE
    THEN CASE SubSeq(OpAddr, 1, 2) = EWEN -> TRUE
           [] SubSeq(OpAddr, 1, 2) = EWDS -> FALSE
           [] OTHER -> base.ewen
    ELSE base.ewen

(* The level of DO that many clocks after the command. *)
Answer ==
  LET k == Len(Command) - CmdBits
  IN  IF nv.cs = 0 \/ ~ Complete(CmdBits) \/ Op # READ THEN 1
      ELSE IF k = 0 THEN 0
      ELSE IF k \in 1 .. DBits THEN base.mem[OpAddr][k]
      ELSE 1

(* The chip's memory, write enable and output are what the bits clocked in  *)
(* since it was selected call for, wherever the stream stops, however often *)
(* it is selected again: a command cut short does nothing, one carried on   *)
(* does nothing more, and the answer lines up with the clock.  Streams with *)
(* more zeros than the chip waits for are excepted.                         *)
Patience == Zeros <= GiveUp - CmdBits

MatchesStream ==
  Patience => /\ nv.mem = MemAfter
              /\ nv.ewen = EwenAfter
              /\ NvramRead(nv) = Answer

(* What is read out stays the word in the memory: nothing that can happen   *)
(* during an answer changes it.                                             *)
ReadsCurrent == nv.state = "READ_OUT" => nv.out = nv.mem[nv.addr]
=============================================================================
