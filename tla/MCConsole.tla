----------------------------- MODULE MCConsole -----------------------------
(***************************************************************************)
(* Instances of Console for TLC.                                           *)
(***************************************************************************)
EXTENDS Console, TLC

(* More keys than a FIFO holds, an erasure, and the Escape that quits. *)
SomeKeys  == <<"char", "bs", "char", "cr", "esc">>
SomeBytes == <<"char", "kill", "break">>
=============================================================================
