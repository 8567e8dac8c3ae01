------------------------------- MODULE MCFcb -------------------------------
(***************************************************************************)
(* Two blocks, two handles and two names; generations that repeat after     *)
(* two, clusters of two records, extents of four, one file at the start.   *)
(***************************************************************************)
EXTENDS Fcb, TLC

SomeFiles == [x \in {"a"} |-> <<"x", "y", "z">>]
Same == Permutations(Blocks) \cup Permutations(Data)
=============================================================================
