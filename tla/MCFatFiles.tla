---------------------------- MODULE MCFatFiles ----------------------------
(***************************************************************************)
(* Instances of FatFiles for TLC.                                           *)
(***************************************************************************)
EXTENDS FatFiles, TLC

CONSTANTS Dot, Dash

\* A part of a cluster, and a chain that may not fit.
SomeTexts == {<<Dash>>, <<Dot, Dash, Dash, Dot, Dot>>}

\* One unit more than a cluster holds.
LongTexts == {<<Dot, Dash, Dash>>}

\* The names take no part in any order.
SameNames == Permutations(Names)
=============================================================================
