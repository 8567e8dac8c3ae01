------------------------------- MODULE BusMap -------------------------------
(***************************************************************************)
(* The address map of the emulated NCD15 (emulator/src/memory.c, and the   *)
(* device table main.c fills).  Addresses are in words of 4 bytes, so that *)
(* 0x80000000 is 536870912.                                                *)
(***************************************************************************)
EXTENDS Integers, Sequences

Kseg0 == 536870912
Kseg1 == 671088640
Kseg2 == 805306368

DramWords  == 1048576       \* 4 MiB
ShadowBase == 61865984      \* 0x0EC00000
ShadowEnd  == 62914560      \* 0x0F000000
RomBase    == 133169152     \* 0x1FC00000
RomWords   == 65536
FlashBase  == 132120576     \* 0x1F800000
FlashWords == 2097152

(* mips_va_to_pa: segmentation, no translation. *)
Pa(va) ==
  IF Kseg0 <= va /\ va < Kseg1 THEN va - Kseg0
  ELSE IF Kseg1 <= va /\ va < Kseg2 THEN va - Kseg1
  ELSE va

Uncached(va) == Kseg1 <= va /\ va < Kseg2

(* The device table, in the order the main program fills it. *)
Regions == <<
  [name |-> "duart",  start |-> 128057344, len |-> 32],
  [name |-> "vram",   start |-> 126353408, len |-> 4],
  [name |-> "vidctl", start |-> 62914560,  len |-> 1],
  [name |-> "memctl", start |-> 1073709056, len |-> 64],
  [name |-> "lance",  start |-> 127010816, len |-> 4],
  [name |-> "shmem",  start |-> 127008768, len |-> 65536],
  [name |-> "crtc",   start |-> 126746624, len |-> 64],
  [name |-> "stub",   start |-> 67108864,  len |-> 872415232] >>

Covers(i, pa) == Regions[i].start <= pa /\ pa < Regions[i].start + Regions[i].len

(* The first region that covers the address. *)
FindMmio(pa) ==
  LET hits == {i \in DOMAIN Regions : Covers(i, pa)}
  IN  IF hits = {} THEN "none"
      ELSE Regions[CHOOSE i \in hits : \A j \in hits : i <= j].name

InRom(pa)    == RomBase <= pa /\ pa < RomBase + RomWords
InShadow(pa) == ShadowBase <= pa /\ pa < ShadowEnd
InFlash(pa)  == FlashBase <= pa /\ pa < FlashBase + FlashWords
InDram(pa)   == pa < ShadowBase

(* Who answers a read and who takes a write.  The flash card has no write  *)
(* path: its window falls to the catch-all stub.                           *)
ReadRoute(pa) ==
  IF InRom(pa) THEN "rom"
  ELSE IF InShadow(pa) THEN "shadow"
  ELSE IF InFlash(pa) THEN "flash"
  ELSE IF InDram(pa) THEN "dram"
  ELSE FindMmio(pa)

WriteRoute(pa) ==
  IF InRom(pa) THEN "rom"
  ELSE IF InShadow(pa) THEN "shadow"
  ELSE IF InDram(pa) THEN "dram"
  ELSE FindMmio(pa)

(* The memory cell behind an address: DRAM repeats every 4 MiB. *)
Cell(pa) == IF InDram(pa) THEN pa % DramWords ELSE pa
=============================================================================
