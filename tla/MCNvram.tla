------------------------------ MODULE MCNvram ------------------------------
(***************************************************************************)
(* Instances of NvramPins for TLC.                                         *)
(***************************************************************************)
EXTENDS NvramPins

(* A memory with four different words. *)
Counting == {[a \in Addr |-> a]}
=============================================================================
