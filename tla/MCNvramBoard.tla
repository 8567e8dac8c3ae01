--------------------------- MODULE MCNvramBoard ---------------------------
(***************************************************************************)
(* Instances of NvramBoard for TLC.                                        *)
(***************************************************************************)
EXTENDS NvramBoard

TwoUsed   == {<<0, 1>>, <<1, 0>>}
OneValue == {<<0, 1>>}
=============================================================================
