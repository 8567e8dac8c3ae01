------------------------------- MODULE MCMips -------------------------------
(***************************************************************************)
(* Instances of Mips for TLC: a monitor and a guest with a LANCE interrupt *)
(* routine, and the XCP/M-MIPS kernel with its system call handler.        *)
(***************************************************************************)
EXTENDS Mips, TLC

Place(base, words) == [c \in base .. base + Len(words) - 1 |-> words[c - base + 1]]

(* What follows a piece of code: a branch that is lost ends here. *)
Stop == Insn("break", 0, "")

(* The handler of memory.c, computation left out. *)
TickVa == Kseg0 + 62589799
ServerVa == 599396888
XncdHandler == <<
  Insn("pend", 0, "k0"),
  Insn("bnez", ServerVa, "k0"),
  Nop,
  Insn("lw", TickVa, "k0"),
  Insn("inc", 0, "k0"),
  Insn("sw", TickVa, "k0"),
  Insn("ackcause", 0, ""),
  Insn("mfc0epc", 0, "k0"),
  Insn("jr", 0, "k0"),
  Insn("rfe", 0, ""),
  Nop, Nop >>

RdpVa == Kseg1 + 127010817
XncdServer == <<
  Insn("sw", RdpVa, "zero"),
  Insn("mfc0epc", 0, "k0"),
  Insn("jr", 0, "k0"),
  Insn("rfe", 0, "") >>

(* The monitor: from ROM it wipes the mode word, may look at the card,      *)
(* wipes the bank and goes to its boot driver in the shadow bank.           *)
ModeVa   == 61866864
HookPc   == 61881051
CheckPc  == HookPc - 11
CardVa   == Kseg1 + FlashBase
GuestPa  == 62128128
GuestVa  == Kseg0 + GuestPa
RomCode == LET r == Kseg1 + RomBase IN <<
  Insn("mtc0isc", 0, "kernel"),
  Insn("mtc0sr", 0, "monitor"),
  Insn("sw", Kseg1 + ModeVa, "zero"),
  Insn("b?", r + 6, ""),
  Nop,
  Insn("lw", CardVa, "t0"),
  Insn("sw", Kseg1 + GuestPa, "zero"),
  Insn("j", CheckPc, ""),
  Nop, Stop >>
DriverCode == <<
  Insn("lw", CardVa, "t0"),
  Insn("j", CardVa, ""),
  Nop, Stop >>
CheckCode == <<
  Insn("lw", ModeVa, "t0"),
  Insn("bnez", HookPc, "t0"),
  Nop, Stop >>
CardCode == << Insn("j", GuestVa, ""), Nop, Stop >>

(* The guest: a cache flush over the vector and its patch area, a loop, and *)
(* patches of one instruction through each kind of store.                   *)
PatchPa == 1056
PatchVa == Kseg0 + PatchPa
SpareVa == Kseg0 + 1060
GuestCode == LET g == GuestVa IN <<
  Insn("mtc0sr", 0, "guest"),
  Insn("b?", g + 9, ""),
  Nop,
  Insn("isolate", 0, ""),
  Insn("sw", Vector, "zero"),
  Insn("sw", PatchVa, "zero"),
  Insn("join", 0, ""),
  Insn("j", PatchVa, ""),
  Nop,
  Insn("b?", g + 13, ""),
  Insn("lw", SpareVa, "t0"),
  Insn("sw", PatchVa, "t0"),
  Insn("b?", g + 15, ""),
  Insn("sw", Kseg1 + PatchPa, "zero"),
  Insn("sw", PatchVa + DramWords, "zero"),
  Insn("swl", PatchVa + 2, "t0"),
  Insn("j", g + 1, ""),
  Nop, Stop >>
PatchCode == << Nop, Insn("j", GuestVa + 1, ""), Nop, Stop >>
SpareCode == << Insn("addiu", 0, "zero"), Nop, Nop, Nop >>

Xncd ==
  Place(VectorPa, [i \in 1 .. Len(XncdHandler) |-> Zero])
  @@ Place(62589799, << Data(0) >>)
  @@ Place(ServerVa - Kseg0, XncdServer)
  @@ Place(RomBase, RomCode)
  @@ Place(HookPc, DriverCode)
  @@ Place(CheckPc, CheckCode)
  @@ Place(ModeVa, << Zero >>)
  @@ Place(FlashBase, CardCode)
  @@ Place(GuestPa, GuestCode)
  @@ Place(PatchPa, PatchCode)
  @@ Place(PatchPa + 4, SpareCode)

XncdSections == Place(GuestPa, GuestCode)

(* XCP/M-MIPS: start.S copies its handler to the vector, flushes and calls. *)
KernelPa == GuestPa
StubPa   == KernelPa + 32
StubCode == <<
  Insn("addiu", -1, "sp"),
  Nop,
  Insn("addiu", 1, "sp"),
  Insn("mfc0epc", 0, "k0"),
  Insn("addiu", 1, "k0"),
  Insn("jr", 0, "k0"),
  Insn("rfe", 0, ""),
  Nop >>
Copy(i) == << Insn("lw", StubPa + i, "t0"), Insn("sw", Vector + i, "t0") >>
KernelCode ==
  << Insn("mtc0sr", 0, "kernel"), Insn("addiu", 4, "sp") >>
  \o Copy(0) \o Copy(1) \o Copy(2) \o Copy(3) \o Copy(4) \o Copy(5) \o Copy(6)
  \o << Insn("isolate", 0, ""), Insn("sw", Vector, "zero"), Insn("sw", Vector + 4, "zero"),
        Insn("join", 0, ""),
        Insn("syscall", 0, ""), Nop, Insn("j", KernelPa + 20, ""), Nop >>
BootKernel == << Insn("j", KernelPa, ""), Nop, Nop, Nop >>

Xcpm ==
  Place(VectorPa, [i \in 1 .. Len(XncdHandler) |-> Zero])
  @@ Place(RomBase, BootKernel)
  @@ Place(KernelPa, KernelCode)
  @@ Place(StubPa, StubCode)

Both     == {Xncd, Xcpm}
OnlyXcpm == {Xcpm}
GuestText == GuestVa .. GuestVa + 262143
=============================================================================
