---------------------------- MODULE MCLanceGlue ----------------------------
(***************************************************************************)
(* Instances of LanceGlue for TLC.                                         *)
(***************************************************************************)
EXTENDS LanceGlue

(* Normal operation, then the self-tests: internal loopback with and without *)
(* a forced collision, external loopback, the wire probe.                   *)
All == {{}, {"LOOP", "INTL", "DRX"}, {"LOOP", "INTL", "COLL"}, {"LOOP"}, {"DRX"}}

(* The bounds of a run are within what a loopback test fits into. *)
ASSUME ShortTest == SelfTestFits
=============================================================================
