----------------------------- MODULE LanceGlue -----------------------------
(***************************************************************************)
(* The board glue of the LANCE (emulator/src/lance_glue.c) on top of the   *)
(* chip and the firmware's boot self-test.  Once per main-loop poll, after *)
(* the chip's tick, the glue samples CSR0 into the words of shadow memory  *)
(* that the firmware's interrupt handler would maintain, with a count of   *)
(* interrupts that the self-test compares with the number it expects.  The *)
(* self-test polls these words: no interrupt routine runs, and causes are  *)
(* cleared only by STOP.                                                   *)
(***************************************************************************)
EXTENDS Lance

CONSTANT Patient   \* the self-test lets a poll pass after STOP

ASSUME PatientAssumption == Patient \in BOOLEAN

VARIABLES
  glue,    \* the glue's statics and the shadow words it writes
  raised   \* interrupts since STOP: IDON or TINT going from 0 to 1

gvars == <<vars, glue, raised>>

Counted == {"IDON", "TINT"}
Active  == {"IDON", "INIT", "STRT", "TXON", "RXON"}

GlueInit ==
  /\ Init
  /\ glue = [prev |-> {}, count |-> 0, mirror |-> {}, initDone |-> FALSE, intCnt |-> 0]
  /\ raised = 0

Ones(new, old) ==
  (IF "IDON" \in new \ old THEN 1 ELSE 0) + (IF "TINT" \in new \ old THEN 1 ELSE 0)

(* lance_glue_mirror_csr0: the count is reset before the early returns, the *)
(* second of which leaves the previous sample alone.  It is a u8.           *)
MirrorNoReset(g, csr0) ==
  LET n == (g.count + Ones(csr0, g.prev)) % 256
  IN  IF csr0 \in {{"STOP"}, {}} THEN [g EXCEPT !.prev = csr0]
      ELSE IF csr0 \cap Active = {} THEN g
      ELSE [prev |-> csr0, count |-> n, mirror |-> csr0,
            initDone |-> g.initDone \/ "IDON" \in csr0, intCnt |-> n]
Mirror(g, csr0) ==
  LET c == IF "STOP" \in csr0 THEN 0 ELSE g.count
      n == (c + Ones(csr0, g.prev)) % 256
  IN  IF csr0 \in {{"STOP"}, {}} THEN [g EXCEPT !.count = c, !.prev = csr0]
      ELSE IF csr0 \cap Active = {} THEN [g EXCEPT !.count = c]
      ELSE [prev |-> csr0, count |-> n, mirror |-> csr0,
            initDone |-> g.initDone \/ "IDON" \in csr0, intCnt |-> n]

(* What the glue counts, counted at the chip. *)
Observe ==
  raised' = IF "STOP" \in chip'.csr0 THEN 0 ELSE raised + Ones(chip'.csr0, chip.csr0)

Poll ==
  /\ Tick
  /\ Observe
  /\ glue' = Mirror(glue, chip'.csr0)

(* The sample the glue last took shows the STOP. *)
StopSampled == chip.csr0 = {"STOP"} => glue.prev = {"STOP"}

SelfTest ==
  /\ \/ Stop
     \/ \E block \in Block : MakeRings(block)
     \/ /\ Patient => StopSampled
        /\ \/ \E data \in InitWords : WriteInit(data)
           \/ \E data \in StartWords : WriteStart(data)
     \/ Demand
     \/ \E n \in 1 .. MaxFrags, dst \in OwnDst : BeginFrame(n, dst)
     \/ StoreTx(FALSE)
     \/ Net
  /\ Observe
  /\ UNCHANGED glue

GlueNext == Poll \/ SelfTest

GlueSpec == GlueInit /\ [][GlueNext]_gvars
-----------------------------------------------------------------------------
(* What a loopback test fits into: its frames are addressed to the station  *)
(* or to all, have an FCS, are within the 12 to 100 bytes that lance_send   *)
(* echoes outside loopback, and fill one receive buffer, as do those of the *)
(* wire; there is one for each.  An external loopback has the receiver on.  *)
SelfTestFits ==
  /\ OwnDst \subseteq {"self", "bcast"}
  /\ \A mode \in Modes :
       /\ "DTCR" \notin mode
       /\ {"LOOP", "DRX"} \subseteq mode => "INTL" \in mode
  /\ FragBytes >= 8 /\ MaxFrags * FragBytes + 4 <= Smaller(100, RxBytes)
  /\ \A len \in WireLens : len + 4 <= RxBytes
  /\ MaxTx + MaxRx <= RxLen
-----------------------------------------------------------------------------
(* The count the self-test reads, right after a poll: the interrupts since  *)
(* STOP ("one IDON since STOP", "one IDON + one TINT since STOP").          *)
CountIsExact == [][ Poll /\ "STOP" \notin chip'.csr0 => glue'.intCnt = raised' ]_gvars
=============================================================================
