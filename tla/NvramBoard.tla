---------------------------- MODULE NvramBoard ----------------------------
(***************************************************************************)
(* The EEPROM as the terminal uses it: the firmware moves the pins through *)
(* the DUART's output port, one level at a time, and reads the answer at   *)
(* its input port; the emulator loads the words from a file when it starts *)
(* and saves them when its main loop ends.  It may be killed at any time.  *)
(*                                                                         *)
(* The firmware's routines are read from the listing disasm/monitor.dis    *)
(* (0ec02100 to 0ec027bc there; they run, and are called, 0x2000 higher).  *)
(* The register they also write before each change of the pins is one the  *)
(* DUART model only stores.                                                *)
(***************************************************************************)
EXTENDS Nvram

CONSTANTS
  Used,       \* the addresses the firmware uses
  Values,     \* the words it writes
  MaxProbe    \* the size probe gives up after that many address bits (11)

(* Before the start bit every command has one clock of a 0.                 *)
ASSUME BoardAssumption ==
  /\ Used \in SUBSET Addr
  /\ Values \in SUBSET Word
  /\ MaxProbe \in Nat /\ MaxProbe > ABits
  /\ GiveUp > CmdBits

VARIABLES
  fw,       \* the firmware's routine in progress
  file,     \* the image file
  power     \* the emulator: "on", "saving" or "off"

bvars == <<nv, fw, file, power>>
-----------------------------------------------------------------------------
(* The file holds each word as two bytes, the low one first.  A file that   *)
(* is missing or short is refused.                                          *)
None == <<>>
Half == DBits \div 2
SaveFile(mem) == [a \in Addr |-> <<SubSeq(mem[a], Half + 1, DBits), SubSeq(mem[a], 1, Half)>>]
LoadBigEndian(f) == IF f = None THEN Blank ELSE [a \in Addr |-> f[a][1] \o f[a][2]]
LoadFile(f)   == IF f = None THEN Blank ELSE [a \in Addr |-> f[a][2] \o f[a][1]]

(* The output port: DI, CS and SK are bits 4, 5 and 6 of its latch.  The    *)
(* answer is merged into bit 2 of the input port register.                  *)
Opr(sk, cs, di) == {b \in 4 .. 6 : <<di, cs, sk>>[b - 3] = 1}
PinsFromOpr(opr) ==
  [di |-> IF 4 \in opr THEN 1 ELSE 0,
   sk |-> IF 6 \in opr THEN 1 ELSE 0,
   cs |-> IF 5 \in opr THEN 1 ELSE 0]
Ipcr == IF NvramRead(nv) = 1 THEN {2} ELSE {}
-----------------------------------------------------------------------------
(* The firmware.  A routine is a list of transfers: some bits out, and some *)
(* bits in.  A transfer is a list of clocks, three writes of the port each: *)
(* one deselected, one that selects the chip, one for each bit out and each *)
(* bit in, and two deselected.                                              *)
Transfer(bits, ins) == [bits |-> bits, ins |-> ins]

Sending(t)     == 2 .. Len(t.bits) + 1
Receiving(t)   == Len(t.bits) + 2 .. Len(t.bits) + t.ins + 1
Selecting(t)   == 1 .. Len(t.bits) + t.ins + 1
FirstAfter(t)  == Len(t.bits) + t.ins + 2
LastClock(t)   == Len(t.bits) + t.ins + 3

Pulse(edge, cs, di) == Opr(IF edge = 1 THEN 1 ELSE 0, cs, di)
Port(t, clk, edge) ==
  IF clk \in Sending(t) THEN Pulse(edge, 1, t.bits[clk - 1])
  ELSE Pulse(edge, IF clk \in Selecting(t) THEN 1 ELSE 0, 0)

Sends(op, rest) == <<1>> \o op \o rest

Check           == Transfer(<<>>, 0)
ReadWord(a)     == Transfer(Sends(READ, a), DBits + 1)
EraseWord(a)    == Transfer(Sends(ERASE, a), 0)
WriteWord(a, w) == Transfer(Sends(WRITE, a \o w), 0)
Switch(sub)     == Transfer(Sends(NONE, sub \o [k \in 1 .. ABits - 2 |-> 0]), 0)
Size            == Transfer(Sends(READ, [k \in 1 .. MaxProbe |-> 1]), 0)

Routine(op) ==
  CASE op.kind = "read"    -> <<ReadWord(op.a)>>
    [] op.kind = "erase"   -> <<EraseWord(op.a), Check>>
    [] op.kind = "write"   -> <<ReadWord(op.a), EraseWord(op.a), Check, WriteWord(op.a, op.w), Check>>
    [] op.kind = "enable"  -> <<Switch(EWEN)>>
    [] op.kind = "disable" -> <<Switch(EWDS)>>
    [] op.kind = "size"    -> <<Size>>

Idle == [kind |-> "idle"]
Ops == [kind: {"read", "erase"}, a: Used] \cup [kind: {"write"}, a: Used, w: Values]
         \cup [kind: {"enable", "disable", "size"}]

(* tr, clk and edge: the next write of the port, the one after edge writes  *)
(* of clock clk of transfer tr; acc: the bits that came in.                 *)
Start(op, result, size) ==
  [op |-> op, tr |-> 1, clk |-> 0, edge |-> 0, acc |-> <<>>, looks |-> 0,
   result |-> result, size |-> size]

BoardInit ==
  /\ nv = Fresh(Blank)
  /\ fw = Start(Idle, Ones, 0)
  /\ file = None
  /\ power = "on"

Call(op) ==
  /\ power = "on"
  /\ fw.op = Idle
  /\ fw' = Start(op, fw.result, fw.size)
  /\ UNCHANGED <<nv, file, power>>

Finished == fw.tr > Len(Routine(fw.op))
Running == power = "on" /\ fw.op # Idle /\ ~Finished
Now == Routine(fw.op)[fw.tr]

(* What is due: the level of the answer is read before the clock of each    *)
(* bit in; the size probe looks at it after the clock of each address bit;  *)
(* a write compares what it read.  Else the port is written.                *)
GetDue     == fw.clk \in Receiving(Now) /\ fw.edge = 0
LookDue    == fw.edge = 3
CompareDue == fw.op.kind = "write" /\ fw.tr = 2 /\ fw.acc # <<>>

NextClock(f) ==
  IF f.clk < LastClock(Now) THEN [f EXCEPT !.clk = @ + 1, !.edge = 0]
  ELSE [f EXCEPT !.tr = @ + 1, !.clk = 0, !.edge = 0]

Looked == fw.op.kind = "size" /\ fw.clk \in Sending(Now) /\ fw.clk > 4

(* duart_write to the output port. *)
PutStep ==
  /\ Running /\ ~GetDue /\ ~LookDue /\ ~CompareDue
  /\ nv' = NvramWrite(nv, PinsFromOpr(Port(Now, fw.clk, fw.edge)))
  /\ fw' = IF fw.edge < 2 \/ Looked THEN [fw EXCEPT !.edge = @ + 1] ELSE NextClock(fw)
  /\ UNCHANGED <<file, power>>

GetStep ==
  /\ Running /\ GetDue
  /\ fw' = [fw EXCEPT !.edge = 1, !.acc = Append(@, IF 2 \in Ipcr THEN 1 ELSE 0)]
  /\ UNCHANGED <<nv, file, power>>

(* A write of the word that is there already ends here. *)
CompareStep ==
  /\ Running /\ CompareDue
  /\ fw' = [fw EXCEPT !.acc = <<>>,
                      !.tr = IF Tail(fw.acc) = fw.op.w THEN Len(Routine(fw.op)) + 1 ELSE @]
  /\ UNCHANGED <<nv, file, power>>

(* The size probe sends address bits until the answer begins. *)
LookStep ==
  /\ Running /\ LookDue
  /\ fw' = IF fw.looks + 1 >= MaxProbe
             THEN [fw EXCEPT !.looks = MaxProbe - 1, !.clk = FirstAfter(Now), !.edge = 0]
           ELSE [fw EXCEPT !.looks = @ + 1, !.edge = 0,
                           !.clk = IF 2 \in Ipcr THEN @ + 1 ELSE FirstAfter(Now)]
  /\ UNCHANGED <<nv, file, power>>

Return ==
  /\ power = "on" /\ fw.op # Idle /\ Finished
  /\ fw' = Start(Idle, IF fw.op.kind = "read" THEN Tail(fw.acc) ELSE fw.result,
                 IF fw.op.kind = "size" THEN fw.looks ELSE fw.size)
  /\ UNCHANGED <<nv, file, power>>
-----------------------------------------------------------------------------
(* The emulator.  fopen truncates the file before anything is written.     *)
SaveBegins ==
  /\ power = "on"
  /\ power' = "saving"
  /\ file' = None
  /\ UNCHANGED <<nv, fw>>

SaveEnds ==
  /\ power = "saving"
  /\ power' = "off"
  /\ file' = SaveFile(nv.mem)
  /\ UNCHANGED <<nv, fw>>

Killed ==
  /\ power # "off"
  /\ power' = "off"
  /\ UNCHANGED <<nv, fw, file>>

Boots ==
  /\ power = "off"
  /\ power' = "on"
  /\ nv' = Fresh(LoadFile(file))
  /\ fw' = Start(Idle, fw.result, 0)
  /\ UNCHANGED file

BoardNext ==
  \/ \E op \in Ops : Call(op)
  \/ PutStep \/ GetStep \/ CompareStep \/ LookStep \/ Return
  \/ SaveBegins \/ SaveEnds \/ Killed \/ Boots

BoardSpec == BoardInit /\ [][BoardNext]_bvars
-----------------------------------------------------------------------------
(* The pins, the chip, the file and the firmware's routines together are a  *)
(* store of words: every read returns the word, every write changes its own *)
(* word and lands, whatever went before on the pins, and a restart brings   *)
(* back what was last saved.                                                *)
Store == INSTANCE WordStore WITH
  cells <- nv.mem, enabled <- nv.ewen, op <- fw.op, got <- fw.result,
  disk <- IF file = None THEN None ELSE LoadFile(file)

ImplementsStore == Store!StoreSpec

(* The size probe, which waits for the 0 before the answer, finds the       *)
(* number of address bits.                                                  *)
SizeFound == fw.size \in {0, ABits}
=============================================================================
