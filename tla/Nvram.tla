------------------------------- MODULE Nvram -------------------------------
(***************************************************************************)
(* The 93C46 serial EEPROM (emulator/src/nvram.c) behind three output pins *)
(* and one input pin of the DUART.  Each write of the pins is one step of  *)
(* the chip: nvram_write compares the new levels with the last ones and    *)
(* acts on the edges.  A word or an address is the tuple of its bits, most *)
(* significant first, the order in which they pass over the pins.          *)
(***************************************************************************)
EXTENDS Naturals, Sequences

CONSTANTS
  ABits,    \* bits of an address (6)
  DBits,    \* bits of a word (16)
  GiveUp    \* clocks after which a command is taken without a start bit (24)

Bit  == {0, 1}
Addr == [1 .. ABits -> Bit]
Word == [1 .. DBits -> Bit]
Ones == [k \in 1 .. DBits |-> 1]

VARIABLE nv   \* the chip

CmdBits == 3 + ABits     \* start bit, opcode, address

ASSUME NvramAssumption ==
  /\ ABits \in Nat /\ ABits >= 2
  /\ DBits \in Nat \ {0}
  /\ GiveUp \in Nat /\ GiveUp >= CmdBits

(* Opcodes: the two bits after the start bit. *)
READ  == <<1, 0>>
WRITE == <<0, 1>>
ERASE == <<1, 1>>
NONE  == <<0, 0>>
(* With NONE, the first two bits of the address. *)
EWDS == <<0, 0>>
ERAL == <<1, 0>>
EWEN == <<1, 1>>

Pins == [cs: Bit, sk: Bit, di: Bit]

(* nvram_new, and nvram_load_file when there is an image.  The structure is *)
(* zeroed; rx holds the bits of rx_shift that are looked at.                *)
Fresh(image) ==
  [mem |-> image, cs |-> 0, sk |-> 0, di |-> 0, state |-> "IDLE", rx |-> <<>>,
   count |-> 0, out |-> [k \in 1 .. DBits |-> 0], sent |-> 0, ewen |-> TRUE,
   addr |-> [k \in 1 .. ABits |-> 0]]
Blank == [a \in Addr |-> Ones]
-----------------------------------------------------------------------------
BeginCmd(n) == [n EXCEPT !.state = "CMD", !.rx = <<>>, !.count = 0, !.sent = 0]

LastBits(s, k) == IF Len(s) > k THEN Tail(s) ELSE s

StartSeen(n) == n.rx[1] = 1

(* A whole command has been shifted in: there are bits enough, and the      *)
(* oldest of them is the start bit or the chip gives up waiting for it.     *)
HasCmd(n) == Len(n.rx) = CmdBits /\ (n.rx[1] = 1 \/ n.count >= GiveUp)

Program(n, a, w) == IF n.ewen THEN [n EXCEPT !.mem[a] = w] ELSE n

(* What follows opcode 00 is told by the first two bits of the address.     *)
ObeyOther(n, sub) ==
  CASE sub = EWDS -> [n EXCEPT !.ewen = FALSE]
    [] sub = EWEN -> [n EXCEPT !.ewen = TRUE]
    [] sub = ERAL -> IF n.ewen THEN [n EXCEPT !.mem = Blank] ELSE n
    [] OTHER      -> n                                   \* WRAL is ignored

(* A command is obeyed on the clock that completes it.  That of READ is     *)
(* also the first clock of the answer.  (Before it, two mutated forms.)     *)
ObeySilent(n, op, a) ==
  LET m == [n EXCEPT !.addr = a, !.state = "IDLE"]
  IN  CASE op = READ  -> [m EXCEPT !.out = n.mem[a], !.state = "READ_OUT", !.sent = 0]
        [] op = WRITE -> [m EXCEPT !.rx = <<>>, !.count = 0, !.state = "WRITE_IN"]
        [] op = ERASE -> Program(m, a, Ones)
        [] op = NONE  -> ObeyOther(m, SubSeq(a, 1, 2))
ObeyOldAddress(n, op, a) ==
  LET m == [n EXCEPT !.addr = a, !.state = "IDLE"]
  IN  CASE op = READ  -> [m EXCEPT !.out = n.mem[n.addr], !.state = "READ_OUT", !.sent = 1]
        [] op = WRITE -> [m EXCEPT !.rx = <<>>, !.count = 0, !.state = "WRITE_IN"]
        [] op = ERASE -> Program(m, a, Ones)
        [] op = NONE  -> ObeyOther(m, SubSeq(a, 1, 2))
Obey(n, op, a) ==
  LET m == [n EXCEPT !.addr = a, !.state = "IDLE"]
  IN  CASE op = READ  -> [m EXCEPT !.out = n.mem[a], !.state = "READ_OUT", !.sent = 1]
        [] op = WRITE -> [m EXCEPT !.rx = <<>>, !.count = 0, !.state = "WRITE_IN"]
        [] op = ERASE -> Program(m, a, Ones)
        [] op = NONE  -> ObeyOther(m, SubSeq(a, 1, 2))

ShiftCmd(n) ==
  LET m == [n EXCEPT !.rx = LastBits(Append(@, n.di), CmdBits), !.count = @ + 1]
  IN  IF HasCmd(m) THEN Obey(m, SubSeq(m.rx, 2, 3), SubSeq(m.rx, 4, CmdBits)) ELSE m

ShiftData(n) ==
  LET m == [n EXCEPT !.rx = Append(@, n.di), !.count = @ + 1]
  IN  IF m.count = DBits THEN [Program(m, m.addr, m.rx) EXCEPT !.state = "IDLE"] ELSE m

(* The chip counts the clocks of an answer without end; beyond the last     *)
(* bit the count makes no difference.                                       *)
ShiftOut(n) == IF n.sent < DBits + 2 THEN [n EXCEPT !.sent = @ + 1] ELSE n

SkRise(n) ==
  CASE n.state = "CMD"      -> ShiftCmd(n)
    [] n.state = "WRITE_IN" -> ShiftData(n)
    [] n.state = "READ_OUT" -> ShiftOut(n)
    [] n.state = "IDLE"     -> n

(* A clock edge counts only if the chip was selected before it, and it      *)
(* takes the level DI had before it.                                        *)
Clocks(n, p) == p.sk = 1 /\ n.sk = 0 /\ p.cs = 1 /\ n.cs = 1

NvramWrite(n, p) ==
  LET s == IF p.cs = 1 /\ n.cs = 0 THEN BeginCmd(n)
           ELSE IF p.cs = 0 /\ n.cs = 1 THEN [n EXCEPT !.state = "IDLE"]
           ELSE n
      c == IF Clocks(n, p) THEN SkRise(s) ELSE s
  IN  [c EXCEPT !.cs = p.cs, !.sk = p.sk, !.di = p.di]

(* The level of DO: pulled up unless the chip answers a READ, with a 0 and  *)
(* then the word.                                                           *)
NvramRead(n) ==
  IF n.state # "READ_OUT" THEN 1
  ELSE IF n.sent = 1 THEN 0
  ELSE IF n.sent \in 2 .. DBits + 1 THEN n.out[n.sent - 1]
  ELSE 1
=============================================================================
